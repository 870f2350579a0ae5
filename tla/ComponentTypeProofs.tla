-------------------------- MODULE ComponentTypeProofs --------------------------
(***************************************************************************)
(* The types of the components: that every variable of each holds only     *)
(* what it can hold, and, for the run that puts them side by side, that    *)
(* all of them do at once.  Of the components whose invariant in           *)
(* UploadComponentProofs or AgentComponentProofs contains the types the    *)
(* lemmas there are used; for the others the bounds are proved here.       *)
(***************************************************************************)
EXTENDS MCComponents, UploadComponentProofs, AgentComponentProofs

-----------------------------------------------------------------------------
(* PipelineThread. *)

LEMMA ThreadTypeInit == DiscoveryInit => ThreadTypeOK
BY DEF DiscoveryInit, ThreadInit, ThreadTypeOK

LEMMA ThreadTypeStep == ThreadTypeOK /\ [DiscoveryNext]_discoveryVars => ThreadTypeOK'
<1> SUFFICES ASSUME ThreadTypeOK, [DiscoveryNext]_discoveryVars PROVE ThreadTypeOK'
  OBVIOUS
<1>1. CASE ThreadStep
  BY <1>1 DEF ThreadStep, MakeLoop, RunLoop, StartWatcher, Started, Crash, StopPipeline, CloseLoop,
              threadVars, ThreadTypeOK
<1>2. CASE LoopStep
  BY <1>2 DEF LoopStep, SignalStop, ThreadTypeOK
<1>3. CASE AskToStop \/ StopReturns
  BY <1>3 DEF AskToStop, StopReturns, ThreadTypeOK
<1>4. CASE UNCHANGED threadVars
  BY <1>4 DEF threadVars, ThreadTypeOK
<1> QED
  BY <1>1, <1>2, <1>3, <1>4 DEF DiscoveryNext, InWorker, InReconcile, discoveryVars

-----------------------------------------------------------------------------
(* Backups. *)

Works == [at : {"idle", "snapshot", "write", "prune", "settings", "database"}, auto : BOOLEAN, zip : 0..MaxSeconds]

\* The zips, of which the type says what they are called and how they are.
ZipsFit(z) == DOMAIN z \subseteq 1..MaxSeconds /\ \A s \in DOMAIN z : z[s] \in {"whole", "short", "broken"}

LEMMA NoWorkType == NoWork \in Works
BY BackupAssumption DEF NoWork, Works

LEMMA BackupTypeInit == BackupInit => BackupTypeOK
<1>1. 0 \in 0..MaxStarts /\ 0 \in 0..MaxBackupFaults /\ 0 \in 0..MaxRestores /\ 1 \in 1..MaxSeconds
  BY BackupAssumption
<1> SUFFICES ASSUME BackupInit PROVE BackupTypeOK
  OBVIOUS
<1>2. DOMAIN zips = {} /\ work \in Works
  BY NoWorkType DEF BackupInit
<1>3. /\ spent \in [starts : 0..MaxStarts, faults : 0..MaxBackupFaults, restores : 0..MaxRestores]
      /\ onDisk \in [settings : {"readable", "torn"}, database : {"readable", "torn"}]
  BY <1>1 DEF BackupInit
<1> QED  BY <1>1, <1>2, <1>3 DEF BackupInit, BackupTypeOK, Works

LEMMA ZipWritten ==
  ASSUME NEW z, ZipsFit(z), NEW s, NEW v \in {"whole", "short", "broken"}
  PROVE  ZipsFit([z EXCEPT ![s] = v])
BY DEF ZipsFit

LEMMA SpendFits ==
  ASSUME BackupTypeOK,
         \/ Spend("starts") /\ spent.starts < MaxStarts
         \/ Spend("faults") /\ spent.faults < MaxBackupFaults
         \/ Spend("restores") /\ spent.restores < MaxRestores
  PROVE  spent' \in [starts : 0..MaxStarts, faults : 0..MaxBackupFaults, restores : 0..MaxRestores]
<1>1. MaxStarts \in Nat /\ MaxBackupFaults \in Nat /\ MaxRestores \in Nat
  BY BackupAssumption
<1>2. /\ spent \in [starts : 0..MaxStarts, faults : 0..MaxBackupFaults, restores : 0..MaxRestores]
      /\ spent.starts \in 0..MaxStarts /\ spent.faults \in 0..MaxBackupFaults /\ spent.restores \in 0..MaxRestores
  BY DEF BackupTypeOK
<1>3. CASE Spend("starts") /\ spent.starts < MaxStarts
  <2>1. spent.starts + 1 \in 0..MaxStarts
    BY <1>1, <1>2, <1>3
  <2> QED  BY <1>2, <1>3, <2>1 DEF Spend
<1>4. CASE Spend("faults") /\ spent.faults < MaxBackupFaults
  <2>1. spent.faults + 1 \in 0..MaxBackupFaults
    BY <1>1, <1>2, <1>4
  <2> QED  BY <1>2, <1>4, <2>1 DEF Spend
<1>5. CASE Spend("restores") /\ spent.restores < MaxRestores
  <2>1. spent.restores + 1 \in 0..MaxRestores
    BY <1>1, <1>2, <1>5
  <2> QED  BY <1>2, <1>5, <2>1 DEF Spend
<1> QED  BY <1>3, <1>4, <1>5

LEMMA BackupTypeStep == BackupTypeOK /\ [BackupNext]_backupVars => BackupTypeOK'
<1> SUFFICES ASSUME BackupTypeOK, [BackupNext]_backupVars PROVE BackupTypeOK'
  OBVIOUS
<1>0. MaxSeconds \in Nat \ {0} /\ second \in 1..MaxSeconds /\ 0 \in 0..MaxSeconds
  <2>1. MaxSeconds \in Nat \ {0} /\ 0 \in 0..MaxSeconds
    BY BackupAssumption
  <2>2. second \in 1..MaxSeconds
    BY DEF BackupTypeOK
  <2> QED  BY <2>1, <2>2
<1>1. ZipsFit(zips) /\ work \in Works /\ NoWork \in Works
  BY NoWorkType DEF BackupTypeOK, ZipsFit, Works
<1>2. ASSUME ZipsFit(zips'), work' \in Works, second' \in 1..MaxSeconds, due' \in BOOLEAN,
             app' \in {"down", "safe mode", "starting", "open"},
             onDisk' \in [settings : {"readable", "torn"}, database : {"readable", "torn"}],
             spent' \in [starts : 0..MaxStarts, faults : 0..MaxBackupFaults, restores : 0..MaxRestores],
             everWhole' \in BOOLEAN, overlaid' \in BOOLEAN
      PROVE  BackupTypeOK'
  BY <1>2 DEF BackupTypeOK, ZipsFit, Works
<1>3. CASE StartApp
  BY <1>1, <1>2, <1>3, SpendFits DEF StartApp, Construct, BackupTypeOK
<1>4. CASE ResetSettings \/ RetryStartup \/ Quit
  BY <1>1, <1>2, <1>4 DEF ResetSettings, RetryStartup, Quit, Construct, BackupTypeOK
<1>5. CASE AutomaticBackup \/ BackupNow
  <2>1. [at |-> "snapshot", auto |-> TRUE, zip |-> 0] \in Works /\ [at |-> "snapshot", auto |-> FALSE, zip |-> 0] \in Works
    BY <1>0 DEF Works
  <2>2. work' \in Works
    BY <1>1, <1>5, <2>1 DEF AutomaticBackup, BackupNow
  <2>3. app' \in {"down", "safe mode", "starting", "open"} /\ UNCHANGED <<onDisk, zips, due, second, spent, everWhole, overlaid>>
    BY <1>5 DEF AutomaticBackup, BackupNow, BackupTypeOK
  <2> QED  BY <1>1, <1>2, <2>2, <2>3 DEF BackupTypeOK
<1>6. CASE OpenZip
  <2>1. ZipsFit(zips')
    BY <1>1, <1>6 DEF OpenZip, ZipsFit, BackupTypeOK
  <2>2. work' \in Works
    <3>1. second \in 0..MaxSeconds
      BY <1>0
    <3> QED  BY <1>1, <1>6, <3>1 DEF OpenZip, Works
  <2> QED  BY <1>2, <1>6, <2>1, <2>2 DEF OpenZip, BackupTypeOK
<1>7. CASE FinishZip
  <2>1. work' \in Works
    BY <1>1, <1>7 DEF FinishZip, Works
  <2> QED  BY <1>1, <1>2, <1>7, <2>1, ZipWritten DEF FinishZip, BackupTypeOK
<1>8. CASE PruneBackups
  <2>1. PICK stuck \in SUBSET OldBackups :
          zips' = Restrict(zips, (DOMAIN zips \ OldBackups) \cup stuck)
    BY <1>8 DEF PruneBackups
  <2>2. DOMAIN zips' \subseteq DOMAIN zips /\ \A s \in DOMAIN zips' : zips'[s] = zips[s]
    BY <2>1 DEF Restrict, OldBackups
  <2>3. ZipsFit(zips')
    BY <1>1, <2>2 DEF ZipsFit
  <2> QED  BY <1>1, <1>2, <1>8, <2>3 DEF PruneBackups, BackupTypeOK
<1>9. CASE BackupFails
  BY <1>1, <1>2, <1>9, ZipWritten, SpendFits DEF BackupFails, BackupTypeOK
<1>10. ASSUME NEW s \in DOMAIN zips, RestoreBackup(s) PROVE BackupTypeOK'
  <2>1. work' \in Works
    BY <1>1, <1>10 DEF RestoreBackup, Works, ZipsFit
  <2> QED  BY <1>1, <1>2, <1>10, <2>1, SpendFits DEF RestoreBackup, BackupTypeOK
<1>11. CASE RestoreDatabase
  <2>1. work' \in Works
    BY <1>1, <1>11 DEF RestoreDatabase, Works
  <2>2. onDisk' \in [settings : {"readable", "torn"}, database : {"readable", "torn"}]
    <3>1. onDisk.database \in {"readable", "torn"}
      BY DEF BackupTypeOK
    <3>2. \E d \in {"readable", "torn"} : onDisk' = [settings |-> "readable", database |-> d]
      BY <1>11, <3>1 DEF RestoreDatabase
    <3> QED  BY <3>2
  <2>3. UNCHANGED <<app, zips, due, second, spent, everWhole, overlaid>>
    BY <1>11 DEF RestoreDatabase
  <2> QED  BY <1>1, <1>2, <2>1, <2>2, <2>3 DEF BackupTypeOK
<1>12. CASE RestoreEnds
  BY <1>1, <1>2, <1>12 DEF RestoreEnds, BackupTypeOK
<1>13. CASE RestoreFails \/ AppCrashes
  BY <1>1, <1>2, <1>13, SpendFits DEF RestoreFails, AppCrashes, BackupTypeOK
<1>14. CASE ClockTicks
  <2>1. second' \in 1..MaxSeconds
    BY <1>0, <1>14 DEF ClockTicks
  <2> QED  BY <1>1, <1>2, <1>14, <2>1 DEF ClockTicks, BackupTypeOK
<1>15. CASE UNCHANGED backupVars
  BY <1>15 DEF backupVars, BackupTypeOK
<1> QED
  BY <1>3, <1>4, <1>5, <1>6, <1>7, <1>8, <1>9, <1>10, <1>11, <1>12, <1>13, <1>14, <1>15 DEF BackupNext

-----------------------------------------------------------------------------
(* DriveFolders: whatever persons remove. *)

FolderRows == [level : Levels, parent : Nat, state : {"live", "trashed", "deleted"}, files : Nat]

\* What a cache row and a call may name when there are n folders.
CacheRows(n) == [Levels -> 0..n]
CallsAmong(n) ==
  [at : {"idle", "lookup", "list", "create", "relist", "resolve", "trash", "upload"},
   level : Levels, parent : 0..n, made : 0..n, target : 0..n, losers : SUBSET (1..n)]

\* The installations whose call has not yet come to its upload.
Busy == {i \in Installations : call[i].at # "idle"}

\* Each file in a folder is of another call than those under way.
FoldersFit(rows) ==
  /\ rows \in Seq(FolderRows)
  /\ \A k \in DOMAIN rows : rows[k].parent <= Len(rows)

FilesFit(rows, busy) == \A k \in DOMAIN rows : rows[k].files + Cardinality(busy) <= asked

DriveCounters == asked \in 0..MaxUploads /\ driveFaults \in 0..MaxDriveFaults /\ userActs \in 0..MaxUserActs

DriveTypes ==
  /\ FoldersFit(folders)
  /\ cached \in [Installations -> CacheRows(Len(folders))]
  /\ call \in [Installations -> CallsAmong(Len(folders))]
  /\ IsFiniteSet(Busy) /\ Cardinality(Busy) <= asked
  /\ FilesFit(folders, Busy)
  /\ DriveCounters

LEMMA DriveTypesFit == DriveTypes => DriveTypeOK
<1> SUFFICES ASSUME DriveTypes PROVE DriveTypeOK
  OBVIOUS
<1>1. /\ Len(folders) \in Nat /\ DOMAIN folders = 1..Len(folders)
      /\ \A k \in DOMAIN folders : folders[k] \in FolderRows /\ folders[k].parent <= Len(folders)
  BY DEF DriveTypes, FoldersFit
<1>2. Cardinality(Busy) \in Nat /\ asked \in Nat /\ MaxUploads \in Nat /\ asked <= MaxUploads
  BY FS_CardinalityType, DriveAssumption DEF DriveTypes, DriveCounters
<1>3. ASSUME NEW k \in DOMAIN folders
      PROVE  folders[k] \in [level : Levels, parent : 0..Len(folders),
                             state : {"live", "trashed", "deleted"}, files : 0..MaxUploads]
  <2>1. folders[k] \in FolderRows /\ folders[k].parent \in Nat /\ folders[k].parent <= Len(folders) /\ folders[k].files \in Nat
    BY <1>1 DEF FolderRows
  <2>2. folders[k].files + Cardinality(Busy) <= asked
    BY DEF DriveTypes, FilesFit
  <2>3. folders[k].parent \in 0..Len(folders) /\ folders[k].files \in 0..MaxUploads
    BY <1>1, <1>2, <2>1, <2>2
  <2> QED  BY <2>1, <2>3 DEF FolderRows
<1>4. /\ cached \in [Installations -> [Levels -> 0..Len(folders)]]
      /\ call \in [Installations ->
           [at : {"idle", "lookup", "list", "create", "relist", "resolve", "trash", "upload"},
            level : Levels, parent : 0..Len(folders), made : 0..Len(folders),
            target : 0..Len(folders), losers : SUBSET DOMAIN folders]]
  BY <1>1 DEF DriveTypes, CacheRows, CallsAmong
<1> QED  BY <1>3, <1>4 DEF DriveTypes, DriveCounters, DriveTypeOK

LEMMA DriveTypesInit == DriveInit => DriveTypes
<1> SUFFICES ASSUME DriveInit PROVE DriveTypes
  OBVIOUS
<1>1. folders = <<>> /\ Len(folders) = 0 /\ DOMAIN folders = {} /\ folders \in Seq(FolderRows)
  BY DEF DriveInit
<1>2. NoCall \in CallsAmong(0) /\ NoCall.at = "idle"
  BY DEF NoCall, CallsAmong, Levels, Root
<1>3. call \in [Installations -> CallsAmong(0)] /\ Busy = {}
  BY <1>2 DEF DriveInit, Busy
<1>4. IsFiniteSet(Busy) /\ Cardinality(Busy) = 0
  BY <1>3, FS_EmptySet
<1>5. cached \in [Installations -> CacheRows(0)]
  BY DEF DriveInit, CacheRows
<1>6. DriveCounters /\ asked = 0
  BY DriveAssumption DEF DriveInit, DriveCounters
<1> QED  BY <1>1, <1>3, <1>4, <1>5, <1>6 DEF DriveTypes, FoldersFit, FilesFit

LEMMA MoreFolders ==
  ASSUME NEW n \in Nat, NEW m \in Nat, n <= m
  PROVE  CacheRows(n) \subseteq CacheRows(m) /\ CallsAmong(n) \subseteq CallsAmong(m)
<1>1. 0..n \subseteq 0..m /\ 1..n \subseteq 1..m
  OBVIOUS
<1>2. CacheRows(n) \subseteq CacheRows(m)
  BY <1>1 DEF CacheRows
<1>3. CallsAmong(n) \subseteq CallsAmong(m)
  <2>1. \A A, B, C, D : A \subseteq C /\ B \subseteq D =>
          [at : {"idle", "lookup", "list", "create", "relist", "resolve", "trash", "upload"},
           level : Levels, parent : A, made : A, target : A, losers : SUBSET B]
          \subseteq
          [at : {"idle", "lookup", "list", "create", "relist", "resolve", "trash", "upload"},
           level : Levels, parent : C, made : C, target : C, losers : SUBSET D]
    OBVIOUS
  <2> QED  BY <1>1, <2>1 DEF CallsAmong
<1> QED  BY <1>2, <1>3

\* A call under way goes on.
LEMMA CallGoesOn ==
  ASSUME DriveTypes, NEW i \in Installations, call[i].at # "idle",
         FoldersFit(folders'), Len(folders) <= Len(folders'), FilesFit(folders', Busy),
         NEW c \in CallsAmong(Len(folders')), c.at # "idle", Go(i, c),
         cached' \in [Installations -> CacheRows(Len(folders'))],
         asked' = asked, DriveCounters'
  PROVE  DriveTypes'
<1>1. Len(folders) \in Nat /\ Len(folders') \in Nat
  BY DEF DriveTypes, FoldersFit
<1>2. call \in [Installations -> CallsAmong(Len(folders'))]
  BY <1>1, MoreFolders DEF DriveTypes
<1>3. call' \in [Installations -> CallsAmong(Len(folders'))]
  BY <1>2 DEF Go
<1>4. Busy' = Busy
  BY <1>2 DEF Go, Busy
<1> QED  BY <1>3, <1>4 DEF DriveTypes, FilesFit

\* A call that goes on without a new folder.
LEMMA CallMovesOn ==
  ASSUME DriveTypes, NEW i \in Installations, call[i].at # "idle", folders' = folders,
         NEW c \in CallsAmong(Len(folders)), c.at # "idle", Go(i, c),
         cached' \in [Installations -> CacheRows(Len(folders))],
         asked' = asked, DriveCounters'
  PROVE  DriveTypes'
<1>1. FoldersFit(folders') /\ Len(folders) <= Len(folders') /\ FilesFit(folders', Busy)
  BY DEF DriveTypes, FoldersFit
<1> QED  BY <1>1, CallGoesOn

LEMMA FoundTypes ==
  ASSUME DriveTypes, NEW i \in Installations, call[i].at # "idle", folders' = folders,
         NEW k \in 0..Len(folders), Found(i, k), asked' = asked, DriveCounters'
  PROVE  DriveTypes'
<1>1. call[i] \in CallsAmong(Len(folders)) /\ call[i].level \in Levels
  BY DEF DriveTypes, CallsAmong
<1>2. cached' \in [Installations -> CacheRows(Len(folders))]
  BY <1>1 DEF DriveTypes, CacheRows, Found
<1>3. /\ [NoCall EXCEPT !.at = "list", !.parent = k] \in CallsAmong(Len(folders))
      /\ [NoCall EXCEPT !.at = "upload", !.target = k] \in CallsAmong(Len(folders))
      /\ [NoCall EXCEPT !.at = "list", !.parent = k].at # "idle"
      /\ [NoCall EXCEPT !.at = "upload", !.target = k].at # "idle"
  <2>1. 0 \in 0..Len(folders) /\ {} \in SUBSET (1..Len(folders))
    BY DEF DriveTypes, FoldersFit
  <2> QED  BY <2>1 DEF NoCall, CallsAmong, Levels, Root
<1>4. PICK c : c = IF call[i].level = "date" THEN [NoCall EXCEPT !.at = "list", !.parent = k]
                   ELSE [NoCall EXCEPT !.at = "upload", !.target = k]
  OBVIOUS
<1>5. c \in CallsAmong(Len(folders)) /\ c.at # "idle"
  BY <1>3, <1>4
<1>6. Go(i, c)
  BY <1>4 DEF Found
<1> QED  BY <1>2, <1>5, <1>6, CallMovesOn

LEMMA FoundFolders ==
  ASSUME DriveTypes, NEW l, NEW p
  PROVE  /\ Named(l, p) \subseteq 1..Len(folders) /\ IsFiniteSet(Named(l, p))
         /\ Named(l, p) # {} => Min(Named(l, p)) \in Named(l, p)
<1>1. Len(folders) \in Nat /\ DOMAIN folders = 1..Len(folders) /\ IsFiniteSet(1..Len(folders))
  BY FS_Interval DEF DriveTypes, FoldersFit
<1>2. Named(l, p) \subseteq 1..Len(folders) /\ Named(l, p) \subseteq Int
  BY <1>1 DEF Named
<1>3. IsFiniteSet(Named(l, p))
  BY <1>1, <1>2, FS_Subset
<1> QED  BY <1>2, <1>3, LeastNumber

LEMMA ResolveTypes ==
  ASSUME DriveTypes, NEW i \in Installations, call[i].at # "idle", folders' = folders,
         NEW found \in SUBSET (1..Len(folders)), Min(found) \in found, Resolve(i, found),
         asked' = asked, DriveCounters'
  PROVE  DriveTypes'
<1>1. call[i] \in CallsAmong(Len(folders)) /\ Len(folders) \in Nat
  BY DEF DriveTypes, FoldersFit
<1>2. PICK o : o = Min(found)
  OBVIOUS
<1>3. o \in 0..Len(folders) /\ found \ {o} \in SUBSET (1..Len(folders))
  <2>1. o \in 1..Len(folders)
    BY <1>2
  <2> QED  BY <1>1, <2>1
<1>4. PICK c : c = [call[i] EXCEPT !.at = "resolve", !.target = o, !.losers = found \ {o}]
  OBVIOUS
<1>5. c \in CallsAmong(Len(folders)) /\ c.at # "idle"
  BY <1>1, <1>3, <1>4 DEF CallsAmong
<1>6. Go(i, c) /\ cached' = cached
  BY <1>2, <1>4 DEF Resolve
<1> QED  BY <1>5, <1>6, CallMovesOn DEF DriveTypes

LEMMA StayTypes ==
  ASSUME DriveTypes, NEW i \in Installations, call[i].at # "idle", folders' = folders, cached' = cached,
         NEW at \in {"lookup", "list", "create", "relist", "resolve", "trash", "upload"}, Stay(i, at),
         asked' = asked, DriveCounters'
  PROVE  DriveTypes'
<1>1. call[i] \in CallsAmong(Len(folders))
  BY DEF DriveTypes
<1>2. PICK c : c = [call[i] EXCEPT !.at = at]
  OBVIOUS
<1>3. c \in CallsAmong(Len(folders)) /\ c.at # "idle"
  BY <1>1, <1>2 DEF CallsAmong
<1>4. Go(i, c)
  BY <1>2 DEF Stay
<1> QED  BY <1>3, <1>4, CallMovesOn DEF DriveTypes

\* What DropLoser leaves of the call.
LEMMA DroppedCall ==
  ASSUME DriveTypes, NEW i \in Installations, DropLoser(i)
  PROVE  \E c \in CallsAmong(Len(folders)) : c.at # "idle" /\ Go(i, c)
<1>1. call[i] \in CallsAmong(Len(folders))
  BY DEF DriveTypes
<1>2. PICK c : c = [call[i] EXCEPT !.at = "resolve", !.losers = @ \ {Min(@)}]
  OBVIOUS
<1>3. c \in CallsAmong(Len(folders)) /\ c.at # "idle"
  BY <1>1, <1>2 DEF CallsAmong
<1> QED  BY <1>2, <1>3 DEF DropLoser

LEMMA NewFolderTypes ==
  ASSUME DriveTypes, NEW i \in Installations, call[i].at # "idle", NewFolder(i), cached' = cached,
         NEW c \in CallsAmong(Len(folders) + 1), c.at # "idle", Go(i, c),
         asked' = asked, DriveCounters'
  PROVE  DriveTypes'
<1>0. PICK n : n = Len(folders)
  OBVIOUS
<1>1. n \in Nat /\ folders \in Seq(FolderRows) /\ DOMAIN folders = 1..n
      /\ \A k \in DOMAIN folders : folders[k].parent <= n
  BY <1>0 DEF DriveTypes, FoldersFit
<1>2. PICK new : new = [level |-> call[i].level, parent |-> call[i].parent, state |-> "live", files |-> 0]
  OBVIOUS
<1>3. new \in FolderRows /\ new.parent <= n /\ new.files = 0
  <2>1. call[i] \in CallsAmong(n)
    BY <1>0 DEF DriveTypes
  <2>2. call[i].level \in Levels /\ call[i].parent \in 0..n
    BY <2>1 DEF CallsAmong
  <2> QED  BY <1>1, <1>2, <2>2 DEF FolderRows
<1>4. /\ folders' \in Seq(FolderRows) /\ Len(folders') = n + 1 /\ folders'[n + 1] = new
      /\ \A k \in DOMAIN folders : folders'[k] = folders[k]
  BY <1>0, <1>1, <1>2, <1>3, AppendProperties DEF NewFolder
<1>5. DOMAIN folders' = DOMAIN folders \cup {n + 1}
  BY <1>1, <1>4
<1>6. FoldersFit(folders')
  <2>1. ASSUME NEW k \in DOMAIN folders PROVE folders'[k].parent <= n + 1
    <3>1. folders[k].parent \in Nat /\ folders[k].parent <= n
      <4>1. folders[k] \in FolderRows
        BY <1>1
      <4> QED  BY <1>1, <4>1 DEF FolderRows
    <3> QED  BY <1>1, <1>4, <3>1
  <2>2. folders'[n + 1].parent <= n + 1
    <3>1. new.parent \in Nat
      BY <1>3 DEF FolderRows
    <3> QED  BY <1>1, <1>3, <1>4, <3>1
  <2> QED  BY <1>4, <1>5, <2>1, <2>2 DEF FoldersFit
<1>7. FilesFit(folders', Busy)
  <2>1. Cardinality(Busy) \in Nat /\ Cardinality(Busy) <= asked
    BY FS_CardinalityType DEF DriveTypes
  <2>2. folders'[n + 1].files + Cardinality(Busy) <= asked
    BY <1>3, <1>4, <2>1
  <2> QED  BY <1>4, <1>5, <2>2 DEF DriveTypes, FilesFit
<1>8. cached' \in [Installations -> CacheRows(n + 1)]
  <2>1. CacheRows(n) \subseteq CacheRows(n + 1)
    BY <1>1, MoreFolders
  <2> QED  BY <1>0, <2>1 DEF DriveTypes
<1>9. Len(folders) <= Len(folders')
  BY <1>0, <1>1, <1>4
<1> QED  BY <1>0, <1>4, <1>6, <1>7, <1>8, <1>9, CallGoesOn

\* A call is over.
LEMMA CallOver ==
  ASSUME DriveTypes, NEW i \in Installations, call[i].at # "idle", Go(i, NoCall), cached' = cached
  PROVE  /\ call' \in [Installations -> CallsAmong(Len(folders))]
         /\ IsFiniteSet(Busy') /\ Cardinality(Busy') = Cardinality(Busy) - 1
         /\ cached' \in [Installations -> CacheRows(Len(folders))]
<1>1. NoCall \in CallsAmong(Len(folders)) /\ NoCall.at = "idle"
  <2>1. 0 \in 0..Len(folders) /\ {} \in SUBSET (1..Len(folders))
    BY DEF DriveTypes, FoldersFit
  <2> QED  BY <2>1 DEF NoCall, CallsAmong, Levels, Root
<1>2. call' \in [Installations -> CallsAmong(Len(folders))]
  BY <1>1 DEF DriveTypes, Go
<1>3. Busy' = Busy \ {i} /\ i \in Busy
  BY <1>1 DEF DriveTypes, Go, Busy
<1>4. IsFiniteSet(Busy') /\ Cardinality(Busy') = Cardinality(Busy) - 1
  BY <1>3, FS_RemoveElement DEF DriveTypes
<1> QED  BY <1>2, <1>4 DEF DriveTypes

LEMMA TrashTypes == ASSUME DriveTypes, NEW i \in Installations, TrashLoser(i) PROVE DriveTypes'
<1>0. PICK k : k = Min(call[i].losers)
  OBVIOUS
<1>1. /\ call[i].at # "idle" /\ cached' = cached /\ DropLoser(i)
      /\ asked' = asked /\ driveFaults' = driveFaults /\ userActs' = userActs
      /\ folders' = [folders EXCEPT ![k].state = IF @ = "live" THEN "trashed" ELSE @]
  BY <1>0 DEF TrashLoser, driveBounds
<1>2. PICK c \in CallsAmong(Len(folders)) : c.at # "idle" /\ Go(i, c)
  BY <1>1, DroppedCall
<1>3. DriveCounters'
  BY <1>1 DEF DriveTypes, DriveCounters
<1>4. folders \in Seq(FolderRows) /\ \A j \in DOMAIN folders : folders[j].parent <= Len(folders)
  BY DEF DriveTypes, FoldersFit
<1>5. /\ folders' \in Seq(FolderRows) /\ Len(folders') = Len(folders)
      /\ \A j \in DOMAIN folders : folders'[j].parent = folders[j].parent /\ folders'[j].files = folders[j].files
  <2>1. CASE k \in DOMAIN folders
    <3>1. PICK new : new = [folders[k] EXCEPT !.state = IF @ = "live" THEN "trashed" ELSE @]
      OBVIOUS
    <3>2. folders[k] \in FolderRows
      BY <1>4, <2>1
    <3>3. new \in FolderRows /\ new.parent = folders[k].parent /\ new.files = folders[k].files
      BY <3>1, <3>2 DEF FolderRows
    <3>4. folders' = [folders EXCEPT ![k] = new]
      BY <1>1, <2>1, <3>1
    <3> QED  BY <1>4, <2>1, <3>3, <3>4
  <2>2. CASE k \notin DOMAIN folders
    <3>1. folders' = folders
      BY <1>1, <1>4, <2>2
    <3> QED  BY <1>4, <3>1
  <2> QED  BY <2>1, <2>2
<1>6. DOMAIN folders' = DOMAIN folders
  BY <1>4, <1>5
<1>7. FoldersFit(folders') /\ FilesFit(folders', Busy)
  BY <1>4, <1>5, <1>6 DEF DriveTypes, FoldersFit, FilesFit
<1>8. Len(folders) <= Len(folders') /\ cached' \in [Installations -> CacheRows(Len(folders'))]
  BY <1>1, <1>4, <1>5 DEF DriveTypes
<1> QED  BY <1>1, <1>2, <1>3, <1>5, <1>7, <1>8, CallGoesOn

LEMMA UploadTypes == ASSUME DriveTypes, NEW i \in Installations, UploadFile(i) PROVE DriveTypes'
<1>0. PICK k : k = call[i].target
  OBVIOUS
<1>1. /\ call[i].at # "idle" /\ cached' = cached /\ Go(i, NoCall)
      /\ asked' = asked /\ driveFaults' = driveFaults /\ userActs' = userActs
      /\ folders' = IF folders[k].state = "deleted" THEN folders ELSE [folders EXCEPT ![k].files = @ + 1]
  BY <1>0 DEF UploadFile, driveBounds
<1>2. DriveCounters'
  BY <1>1 DEF DriveTypes, DriveCounters
<1>3. folders \in Seq(FolderRows) /\ \A j \in DOMAIN folders : folders[j].parent <= Len(folders)
  BY DEF DriveTypes, FoldersFit
<1>4. /\ call' \in [Installations -> CallsAmong(Len(folders))]
      /\ IsFiniteSet(Busy') /\ Cardinality(Busy') = Cardinality(Busy) - 1
      /\ cached' \in [Installations -> CacheRows(Len(folders))]
  BY <1>1, CallOver
<1>5. Cardinality(Busy) \in Nat /\ asked \in Nat /\ Cardinality(Busy) <= asked
  BY FS_CardinalityType DEF DriveTypes, DriveCounters
<1>6. \A j \in DOMAIN folders : folders[j].files \in Nat /\ folders[j].files + Cardinality(Busy) <= asked
  <2>1. \A j \in DOMAIN folders : folders[j] \in FolderRows
    BY <1>3
  <2> QED  BY <2>1 DEF FolderRows, DriveTypes, FilesFit
<1>7. /\ folders' \in Seq(FolderRows) /\ Len(folders') = Len(folders)
      /\ \A j \in DOMAIN folders : /\ folders'[j].parent = folders[j].parent
                                   /\ folders'[j].files \in {folders[j].files, folders[j].files + 1}
  <2>1. CASE k \in DOMAIN folders /\ folders[k].state # "deleted"
    <3>1. PICK m : m = folders[k].files + 1
      OBVIOUS
    <3>2. folders[k] \in FolderRows /\ m \in Nat
      BY <1>3, <1>6, <2>1, <3>1
    <3>3. PICK new : new = [folders[k] EXCEPT !.files = m]
      OBVIOUS
    <3>4. new \in FolderRows /\ new.parent = folders[k].parent /\ new.files = m
      BY <3>2, <3>3 DEF FolderRows
    <3>5. folders' = [folders EXCEPT ![k] = new]
      BY <1>1, <2>1, <3>1, <3>3
    <3> QED  BY <1>3, <2>1, <3>1, <3>4, <3>5
  <2>2. CASE k \notin DOMAIN folders \/ folders[k].state = "deleted"
    <3>1. folders' = folders
      BY <1>1, <1>3, <2>2
    <3> QED  BY <1>3, <3>1
  <2> QED  BY <2>1, <2>2
<1>8. DOMAIN folders' = DOMAIN folders
  BY <1>3, <1>7
<1>9. FoldersFit(folders')
  BY <1>3, <1>7, <1>8 DEF FoldersFit
<1>10. FilesFit(folders, Busy)' /\ Cardinality(Busy') <= asked'
  BY <1>1, <1>4, <1>5, <1>6, <1>7, <1>8 DEF FilesFit
<1> QED  BY <1>2, <1>4, <1>7, <1>9, <1>10 DEF DriveTypes

LEMMA RemovalTypes == ASSUME DriveTypes, NEW k \in DOMAIN folders, UserRemoves(k) PROVE DriveTypes'
<1>0. PICK s \in {"trashed", "deleted"} :
        folders' = [c \in DOMAIN folders |->
          IF c = k \/ (s = "deleted" /\ folders[c].parent = k) THEN [folders[c] EXCEPT !.state = s]
          ELSE folders[c]]
  BY DEF UserRemoves
<1>1. /\ userActs < MaxUserActs /\ userActs' = userActs + 1
      /\ cached' = cached /\ call' = call /\ asked' = asked /\ driveFaults' = driveFaults
  BY DEF UserRemoves
<1>2. Len(folders) \in Nat /\ folders \in Seq(FolderRows) /\ DOMAIN folders = 1..Len(folders)
      /\ \A j \in DOMAIN folders : folders[j] \in FolderRows /\ folders[j].parent <= Len(folders)
  BY DEF DriveTypes, FoldersFit
<1>3. \A j \in DOMAIN folders : /\ folders'[j] \in FolderRows
                                /\ folders'[j].parent = folders[j].parent /\ folders'[j].files = folders[j].files
  <2> SUFFICES ASSUME NEW j \in DOMAIN folders
               PROVE  /\ folders'[j] \in FolderRows
                      /\ folders'[j].parent = folders[j].parent /\ folders'[j].files = folders[j].files
    OBVIOUS
  <2>1. folders[j] \in FolderRows /\ folders'[j] \in {folders[j], [folders[j] EXCEPT !.state = s]}
    BY <1>0, <1>2
  <2> QED  BY <2>1 DEF FolderRows
<1>4. DOMAIN folders' = DOMAIN folders
  BY <1>0
<1>5. folders' \in Seq(FolderRows) /\ Len(folders') = Len(folders)
  <2>1. folders' \in [1..Len(folders) -> FolderRows]
    BY <1>0, <1>2, <1>3
  <2>2. folders' \in Seq(FolderRows)
    BY <1>2, <2>1, IsASeq
  <2> QED  BY <1>2, <1>4, <2>2
<1>6. FoldersFit(folders') /\ FilesFit(folders', Busy)
  BY <1>2, <1>3, <1>4, <1>5 DEF DriveTypes, FoldersFit, FilesFit
<1>7. Busy' = Busy /\ DriveCounters'
  BY <1>1, DriveAssumption DEF Busy, DriveTypes, DriveCounters
<1> QED  BY <1>1, <1>5, <1>6, <1>7 DEF DriveTypes, FilesFit

LEMMA FaultCounted ==
  ASSUME DriveTypes, driveFaults < MaxDriveFaults, driveFaults' = driveFaults + 1,
         asked' = asked, userActs' = userActs
  PROVE  DriveCounters'
BY DriveAssumption DEF DriveTypes, DriveCounters

LEMMA FolderCallTypes == ASSUME DriveTypes, NEW i \in Installations, FolderCall(i) PROVE DriveTypes'
<1>0. /\ call[i] \in CallsAmong(Len(folders)) /\ Len(folders) \in Nat
      /\ cached[i] \in CacheRows(Len(folders)) /\ call[i].level \in Levels
      /\ call[i].made \in 0..Len(folders) /\ call[i].target \in 0..Len(folders)
  <2>1. call[i] \in CallsAmong(Len(folders)) /\ Len(folders) \in Nat /\ cached[i] \in CacheRows(Len(folders))
    BY DEF DriveTypes, FoldersFit
  <2> QED  BY <2>1 DEF CallsAmong
<1>c. UNCHANGED driveBounds => asked' = asked /\ DriveCounters'
  BY DEF driveBounds, DriveTypes, DriveCounters
<1>1. CASE AskFolder(i)
  <2>1. /\ call[i].at = "idle" /\ asked < MaxUploads /\ Stay(i, "lookup") /\ asked' = asked + 1
        /\ UNCHANGED <<folders, cached, driveFaults, userActs>>
    BY <1>1 DEF AskFolder
  <2>2. PICK c : c = [call[i] EXCEPT !.at = "lookup"]
    OBVIOUS
  <2>3. c \in CallsAmong(Len(folders)) /\ c.at # "idle" /\ call' = [call EXCEPT ![i] = c]
    BY <1>0, <2>1, <2>2 DEF CallsAmong, Stay, Go
  <2>4. call' \in [Installations -> CallsAmong(Len(folders))] /\ Busy' = Busy \cup {i} /\ i \notin Busy
    BY <2>1, <2>3 DEF DriveTypes, Busy
  <2>5. IsFiniteSet(Busy') /\ Cardinality(Busy') = Cardinality(Busy) + 1
    BY <2>4, FS_AddElement DEF DriveTypes
  <2>6. Cardinality(Busy) \in Nat /\ asked \in Nat /\ MaxUploads \in Nat /\ Cardinality(Busy) <= asked
    BY FS_CardinalityType, DriveAssumption DEF DriveTypes, DriveCounters
  <2>7. DriveCounters' /\ Cardinality(Busy') <= asked'
    BY <2>1, <2>5, <2>6 DEF DriveTypes, DriveCounters
  <2>8. FilesFit(folders, Busy)'
    <3>1. \A k \in DOMAIN folders : folders[k].files \in Nat /\ folders[k].files + Cardinality(Busy) <= asked
      <4>1. \A k \in DOMAIN folders : folders[k] \in FolderRows
        BY DEF DriveTypes, FoldersFit
      <4> QED  BY <4>1 DEF FolderRows, DriveTypes, FilesFit
    <3> QED  BY <2>1, <2>5, <2>6, <3>1 DEF FilesFit
  <2> QED  BY <2>1, <2>4, <2>5, <2>7, <2>8 DEF DriveTypes
<1>2. CASE UseCached(i)
  <2>1. cached[i][call[i].level] \in 0..Len(folders)
    BY <1>0 DEF CacheRows
  <2> QED  BY <1>2, <1>c, <2>1, FoundTypes DEF UseCached
<1>3. CASE Miss(i)
  <2>1. /\ call[i].at # "idle" /\ folders' = folders
        /\ cached' = [cached EXCEPT ![i][call[i].level] = 0]
        /\ Go(i, IF call[i].level = "device" THEN [call[i] EXCEPT !.level = "date"]
                 ELSE [call[i] EXCEPT !.at = "list"])
    BY <1>3 DEF Miss
  <2>2. PICK c : c = IF call[i].level = "device" THEN [call[i] EXCEPT !.level = "date"]
                     ELSE [call[i] EXCEPT !.at = "list"]
    OBVIOUS
  <2>3. c \in CallsAmong(Len(folders)) /\ c.at # "idle" /\ Go(i, c)
    BY <1>0, <2>1, <2>2 DEF CallsAmong, Levels
  <2>4. cached' \in [Installations -> CacheRows(Len(folders))]
    BY <1>0, <2>1 DEF DriveTypes, CacheRows
  <2> QED  BY <1>3, <1>c, <2>1, <2>3, <2>4, CallMovesOn DEF Miss
<1>4. CASE ListFolders(i)
  <2>1. PICK found : found = Named(call[i].level, call[i].parent)
    OBVIOUS
  <2>2. /\ call[i].at # "idle" /\ folders' = folders /\ UNCHANGED driveBounds
        /\ \/ Stay(i, "create") /\ cached' = cached
           \/ found # {} /\ Found(i, Min(found))
           \/ found # {} /\ Resolve(i, found)
    BY <1>4, <2>1, FS_EmptySet DEF ListFolders
  <2>3. /\ found \in SUBSET (1..Len(folders))
        /\ found # {} => Min(found) \in found /\ Min(found) \in 0..Len(folders)
    BY <1>0, <2>1, FoundFolders
  <2> QED  BY <1>c, <2>2, <2>3, StayTypes, FoundTypes, ResolveTypes
<1>5. CASE CreateFolder(i)
  <2>1. PICK c : c = [call[i] EXCEPT !.at = "relist", !.made = Len(folders) + 1]
    OBVIOUS
  <2>2. call[i] \in CallsAmong(Len(folders) + 1) /\ Len(folders) + 1 \in 0..(Len(folders) + 1)
    BY <1>0, MoreFolders
  <2>3. c \in CallsAmong(Len(folders) + 1) /\ c.at # "idle"
    BY <2>1, <2>2 DEF CallsAmong
  <2> QED  BY <1>5, <1>c, <2>1, <2>3, NewFolderTypes DEF CreateFolder
<1>6. CASE CreateUnanswered(i)
  <2>1. PICK c : c = [call[i] EXCEPT !.at = "list"]
    OBVIOUS
  <2>2. call[i] \in CallsAmong(Len(folders) + 1)
    BY <1>0, MoreFolders
  <2>3. c \in CallsAmong(Len(folders) + 1) /\ c.at # "idle"
    BY <2>1, <2>2 DEF CallsAmong
  <2> QED  BY <1>6, <2>1, <2>3, NewFolderTypes, FaultCounted DEF CreateUnanswered, Stay
<1>7. CASE RelistFolders(i)
  <2>1. PICK found : found = Named(call[i].level, call[i].parent)
    OBVIOUS
  <2>2. /\ call[i].at # "idle" /\ folders' = folders /\ UNCHANGED driveBounds
        /\ \/ Cardinality(found) > 1 /\ Resolve(i, found)
           \/ Found(i, call[i].made)
    BY <1>7, <2>1 DEF RelistFolders
  <2>3. found \in SUBSET (1..Len(folders)) /\ (found # {} => Min(found) \in found)
    BY <2>1, FoundFolders
  <2>4. Cardinality(found) > 1 => found # {}
    BY FS_EmptySet
  <2> QED  BY <1>0, <1>c, <2>2, <2>3, <2>4, FoundTypes, ResolveTypes
<1>8. CASE CheckLoser(i)
  <2>1. /\ call[i].at # "idle" /\ folders' = folders /\ cached' = cached /\ UNCHANGED driveBounds
        /\ DropLoser(i) \/ Stay(i, "trash")
    BY <1>8 DEF CheckLoser
  <2>2. CASE DropLoser(i)
    <3>1. PICK c \in CallsAmong(Len(folders)) : c.at # "idle" /\ Go(i, c)
      BY <2>2, DroppedCall
    <3> QED  BY <1>c, <2>1, <3>1, CallMovesOn DEF DriveTypes
  <2> QED  BY <1>c, <2>1, <2>2, StayTypes
<1>9. CASE TrashLoser(i)
  BY <1>9, TrashTypes
<1>10. CASE CleanupFails(i)
  <2>1. PICK c \in CallsAmong(Len(folders)) : c.at # "idle" /\ Go(i, c)
    BY <1>10, DroppedCall DEF CleanupFails
  <2>2. /\ call[i].at # "idle" /\ folders' = folders /\ cached' = cached /\ asked' = asked /\ DriveCounters'
    BY <1>10, FaultCounted DEF CleanupFails
  <2> QED  BY <2>1, <2>2, CallMovesOn DEF DriveTypes
<1>11. CASE Resolved(i)
  BY <1>0, <1>11, <1>c, FoundTypes DEF Resolved
<1>12. CASE UploadFile(i)
  BY <1>12, UploadTypes
<1>13. CASE CallEnds(i)
  <2>1. /\ call[i].at # "idle" /\ Go(i, NoCall) /\ cached' = cached /\ folders' = folders
        /\ asked' = asked /\ DriveCounters'
    BY <1>13, FaultCounted DEF CallEnds
  <2>2. /\ call' \in [Installations -> CallsAmong(Len(folders))]
        /\ IsFiniteSet(Busy') /\ Cardinality(Busy') = Cardinality(Busy) - 1
        /\ cached' \in [Installations -> CacheRows(Len(folders))]
    BY <2>1, CallOver
  <2>3. Cardinality(Busy) \in Nat /\ asked \in Nat /\ Cardinality(Busy) <= asked
    BY FS_CardinalityType DEF DriveTypes, DriveCounters
  <2>4. FilesFit(folders, Busy)' /\ Cardinality(Busy') <= asked'
    <3>1. \A k \in DOMAIN folders : folders[k].files \in Nat /\ folders[k].files + Cardinality(Busy) <= asked
      <4>1. \A k \in DOMAIN folders : folders[k] \in FolderRows
        BY DEF DriveTypes, FoldersFit
      <4> QED  BY <4>1 DEF FolderRows, DriveTypes, FilesFit
    <3> QED  BY <2>1, <2>2, <2>3, <3>1 DEF FilesFit
  <2> QED  BY <2>1, <2>2, <2>4 DEF DriveTypes, FoldersFit
<1> QED
  BY <1>1, <1>2, <1>3, <1>4, <1>5, <1>6, <1>7, <1>8, <1>9, <1>10, <1>11, <1>12, <1>13 DEF FolderCall

LEMMA DriveTypesStep == DriveTypes /\ [DriveNext]_driveVars => DriveTypes'
<1> SUFFICES ASSUME DriveTypes, [DriveNext]_driveVars PROVE DriveTypes'
  OBVIOUS
<1>1. CASE UNCHANGED driveVars
  BY <1>1 DEF driveVars, driveBounds, DriveTypes, FoldersFit, FilesFit, DriveCounters, Busy
<1> QED  BY <1>1, FolderCallTypes, RemovalTypes DEF DriveNext, FolderCall

-----------------------------------------------------------------------------
(* DeviceIdExtraction. *)

OcrTypes ==
  /\ OcrKinds /\ scan.next >= 1
  /\ scan.best.frame <= Len(video) /\ result.frame <= Len(video)

LEMMA OcrTypesFit == OcrTypes => OcrTypeOK
<1> SUFFICES ASSUME OcrTypes PROVE OcrTypeOK
  OBVIOUS
<1>1. /\ Len(video) \in Nat /\ \A t \in DOMAIN video : video[t] \in Frames
      /\ fullScan \in BOOLEAN /\ scan \in Scans /\ result \in Extractions
      /\ scan.best.frame <= Len(video) /\ result.frame <= Len(video)
  BY DEF OcrTypes, OcrKinds
<1>2. \A x \in Extractions : x.frame <= Len(video) => x \in [confidence : Nat, frame : 0..Len(video), full : BOOLEAN]
  BY <1>1 DEF Extractions
<1>3. scan.best \in Extractions
  BY <1>1 DEF Scans
<1>4. scan.best \in [confidence : Nat, frame : 0..Len(video), full : BOOLEAN]
  BY <1>1, <1>2, <1>3
<1>5. scan \in [at : {"frames", "done"}, full : BOOLEAN, next : Nat, examined : Nat,
                best : [confidence : Nat, frame : 0..Len(video), full : BOOLEAN]]
  BY <1>1, <1>4 DEF Scans
<1> QED  BY <1>1, <1>2, <1>5 DEF OcrTypeOK

LEMMA NothingType == Nothing \in Extractions /\ Nothing.frame = 0
BY DEF Nothing, Extractions

LEMMA OcrTypesInit == OcrInit => OcrTypes
<1> SUFFICES ASSUME OcrInit PROVE OcrTypes
  OBVIOUS
<1>1. PICK n \in Nat : video \in [1..n -> Frames]
  BY OcrAssumption DEF OcrInit
<1>2. video \in Seq(Frames) /\ Len(video) = n
  <2>1. video \in Seq(Frames)
    BY <1>1, IsASeq
  <2> QED  BY <1>1, <2>1
<1>3. /\ scan = [at |-> "frames", full |-> FALSE, next |-> 1, examined |-> 0, best |-> Nothing]
      /\ result = Nothing /\ fullScan \in BOOLEAN
  BY OcrAssumption DEF OcrInit
<1>4. scan \in Scans
  BY <1>3, NothingType DEF Scans
<1> QED  BY <1>1, <1>2, <1>3, <1>4, NothingType DEF OcrTypes, OcrKinds

LEMMA OcrTypesRest == OcrRests => OcrTypes
<1> SUFFICES ASSUME OcrRests PROVE OcrTypes
  OBVIOUS
<1>1. video \in Seq(Frames) /\ Len(video) = 0
  BY DEF OcrRests
<1>2. /\ scan = [at |-> "done", full |-> FALSE, next |-> 1, examined |-> 0, best |-> Nothing]
      /\ result = Nothing /\ fullScan \in BOOLEAN
  BY DEF OcrRests
<1>3. scan \in Scans
  BY <1>2, NothingType DEF Scans
<1> QED  BY <1>1, <1>2, <1>3, NothingType DEF OcrTypes, OcrKinds

LEMMA NextFrameTypes == ASSUME OcrTypes, NextFrame PROVE OcrTypes'
<1>0. /\ OcrKinds /\ ~EndOfScan /\ video' = video /\ fullScan' = fullScan /\ result' = result
      /\ scan \in Scans
  BY DEF OcrTypes, OcrKinds, NextFrame
<1>1. PICK n, b : n = scan.next /\ b = scan.best
  OBVIOUS
<1>2. /\ n \in Nat /\ n >= 1 /\ b \in Extractions /\ b.frame <= Len(video) /\ scan.full \in BOOLEAN
      /\ scan.examined \in Nat
  BY <1>0, <1>1 DEF OcrTypes, Scans
<1>3. LastFrame \in Nat /\ LastFrame <= Len(video) /\ DOMAIN video = 1..Len(video) /\ Len(video) \in Nat
  BY <1>0, VideoFacts
<1>4. n <= LastFrame
  BY <1>0, <1>1, <1>2, <1>3 DEF EndOfScan
<1>5. n \in DOMAIN video /\ n + 1 \in Nat /\ n + 1 >= 1 /\ n <= Len(video)
  BY <1>2, <1>3, <1>4
<1>6. PICK c : c = ReadFrame(video[n])
  OBVIOUS
<1>7. c \in Nat
  BY <1>0, <1>5, <1>6, VideoFacts DEF Reading
<1>8. PICK on : on = [scan EXCEPT !.next = n + 1]
  OBVIOUS
<1>9. on \in Scans /\ on.next = n + 1 /\ on.best = b /\ on.examined = scan.examined
  BY <1>0, <1>1, <1>5, <1>8 DEF Scans
<1>10. PICK x : x = [confidence |-> c, frame |-> n, full |-> scan.full]
  OBVIOUS
<1>11. x \in Extractions /\ x.frame = n
  BY <1>2, <1>7, <1>10 DEF Extractions
<1>12. PICK y \in {b, x}, k \in {scan.examined, scan.examined + 1} :
         scan' = on \/ scan' = [on EXCEPT !.examined = k, !.best = y]
  BY <1>1, <1>6, <1>8, <1>9, <1>10 DEF NextFrame
<1>13. y \in Extractions /\ y.frame <= Len(video) /\ k \in Nat
  BY <1>2, <1>5, <1>11
<1>14. scan' \in Scans /\ scan'.next = n + 1 /\ scan'.best \in {b, y}
  BY <1>9, <1>12, <1>13 DEF Scans
<1>15. scan'.best.frame <= Len(video) /\ scan'.next >= 1
  BY <1>2, <1>5, <1>13, <1>14
<1> QED  BY <1>0, <1>14, <1>15 DEF OcrTypes, OcrKinds

LEMMA OcrTypesStep == OcrTypes /\ [OcrNext]_ocrVars => OcrTypes'
<1> SUFFICES ASSUME OcrTypes, [OcrNext]_ocrVars PROVE OcrTypes'
  OBVIOUS
<1>1. CASE NextFrame
  BY <1>1, NextFrameTypes
<1>2. CASE FirstScanEnds \/ FullScanEnds
  <2>1. /\ video' = video /\ fullScan' = fullScan /\ result' \in {scan.best, result}
        /\ \/ scan' = [scan EXCEPT !.at = "done"]
           \/ scan' = [scan EXCEPT !.full = TRUE, !.next = 1, !.examined = 0, !.best = Nothing]
    BY <1>2 DEF FirstScanEnds, FullScanEnds
  <2>2. /\ scan \in Scans /\ scan.best \in Extractions /\ result \in Extractions /\ Len(video) \in Nat
        /\ video \in Seq(Frames) /\ fullScan \in BOOLEAN /\ scan.next >= 1
        /\ scan.best.frame <= Len(video) /\ result.frame <= Len(video)
    BY DEF OcrTypes, OcrKinds, Scans
  <2>3. result' \in Extractions /\ result'.frame <= Len(video)
    BY <2>1, <2>2
  <2>4. scan' \in Scans /\ scan'.next \in {scan.next, 1} /\ scan'.best \in {scan.best, Nothing}
    <3>1. CASE scan' = [scan EXCEPT !.at = "done"]
      <4> DEFINE s == [scan EXCEPT !.at = "done"]
      <4>1. s \in Scans /\ s.next = scan.next /\ s.best = scan.best
        BY <2>2 DEF Scans
      <4> HIDE DEF s
      <4> QED  BY <3>1, <4>1 DEF s
    <3>2. CASE scan' = [scan EXCEPT !.full = TRUE, !.next = 1, !.examined = 0, !.best = Nothing]
      <4> DEFINE s == [scan EXCEPT !.full = TRUE, !.next = 1, !.examined = 0, !.best = Nothing]
      <4>1. s \in Scans /\ s.next = 1 /\ s.best = Nothing
        BY <2>2, NothingType DEF Scans
      <4> HIDE DEF s
      <4> QED  BY <3>2, <4>1 DEF s
    <3> QED  BY <2>1, <3>1, <3>2
  <2>5. scan'.next >= 1 /\ scan'.best.frame <= Len(video)
    BY <2>2, <2>4, NothingType
  <2> QED  BY <2>1, <2>2, <2>3, <2>4, <2>5 DEF OcrTypes, OcrKinds
<1>3. CASE UNCHANGED ocrVars
  BY <1>3 DEF ocrVars, OcrTypes, OcrKinds
<1> QED  BY <1>1, <1>2, <1>3 DEF OcrNext

-----------------------------------------------------------------------------
(* JobDiscovery: a match is of a row that is there. *)

MatchesFit(d) == d.matches \in Seq(1..Len(d.jobs))

\* A matching run takes rows that are committed.
RunFits(s, n) ==
  s.kind = "match" => s.todo \subseteq 1..n /\ (s.at = "save" => s.item \in 1..n)

JobsFit ==
  /\ MatchesFit(db) /\ MatchesFit(draft)
  /\ writer # NoBatch => Len(db.jobs) <= Len(draft.jobs)
  /\ \A b \in Batches : RunFits(batch[b], Len(db.jobs))

BatchCounters ==
  /\ batches \in 0..MaxBatches /\ batchFaults \in 0..MaxBatchFaults /\ changes \in 0..MaxChanges
  /\ overlapped \in BOOLEAN

BatchFit == StoreInv /\ SingleInv /\ JobsFit /\ BatchCounters

LEMMA BatchTypesFit == BatchFit => BatchTypeOK
<1> SUFFICES ASSUME BatchFit PROVE BatchTypeOK
  OBVIOUS
<1>1. /\ BatchTypes /\ JobsFit /\ BatchCounters /\ writer \in Batches \cup {NoBatch}
  BY DEF BatchFit, StoreInv
<1>2. board \in [Offers -> Contents]
  BY <1>1 DEF BatchTypes
<1>3. ASSUME NEW d \in {db, draft}
      PROVE  /\ d.source \in BOOLEAN /\ d.companies \in Nat
             /\ d.jobs \in Seq([posting : Offers, says : Contents])
             /\ d.matches \in Seq(1..Len(d.jobs))
  <2>1. d \in Databases /\ MatchesFit(d)
    BY <1>1 DEF BatchTypes, JobsFit
  <2> QED  BY <2>1 DEF Databases, JobRows, MatchesFit
<1>4. ASSUME NEW b \in Batches
      PROVE  /\ batch[b].at \in {"idle", "source", "search", "next", "company", "addCompany", "select",
                                 "insert", "update", "save", "commit", "poisoned", "returned", "raised"}
             /\ batch[b].kind \in {"scan", "match"} /\ batch[b].item \in Items
             /\ batch[b].todo \subseteq Items /\ batch[b].good \subseteq Items
             /\ batch[b].says \in [Offers -> Contents]
  <2>1. batch[b] \in RunStates
    BY <1>1 DEF BatchTypes
  <2> QED  BY <2>1 DEF RunStates, LiveSteps, Writable
<1> QED  BY <1>1, <1>2, <1>3, <1>4 DEF BatchTypeOK, BatchCounters

LEMMA NewDatabaseFits == MatchesFit(NewDatabase) /\ Len(NewDatabase.jobs) = 0
BY DEF NewDatabase, MatchesFit

LEMMA BatchFitInit == BatchInit => BatchFit
<1> SUFFICES ASSUME BatchInit PROVE BatchFit
  OBVIOUS
<1>1. StoreInv /\ SingleInv
  BY BatchInvInit
<1>2. BatchCounters
  <2>1. MaxBatches \in Nat /\ MaxBatchFaults \in Nat /\ MaxChanges \in Nat
    BY DiscoveryAssumption
  <2>2. batches \in 0..MaxBatches /\ batchFaults \in 0..MaxBatchFaults /\ changes \in 0..MaxChanges
    BY <2>1 DEF BatchInit
  <2>3. overlapped \in BOOLEAN
    BY DEF BatchInit
  <2> QED  BY <2>2, <2>3 DEF BatchCounters
<1>3. \A b \in Batches : batch[b].kind = "scan"
  BY DEF BatchInit, NoBatchRun
<1>4. JobsFit
  BY <1>3, NewDatabaseFits DEF BatchInit, JobsFit, RunFits
<1> QED  BY <1>1, <1>2, <1>4 DEF BatchFit

LEMMA JobsFitAfter ==
  ASSUME BatchTypes, JobsFit, NEW b \in Batches, NEW s \in RunStates, batch' = [batch EXCEPT ![b] = s],
         RunFits(s, Len(db.jobs)), db' \in Databases, Len(db.jobs) <= Len(db'.jobs),
         MatchesFit(db'), MatchesFit(draft'),
         writer' # NoBatch => Len(db'.jobs) <= Len(draft'.jobs)
  PROVE  JobsFit'
<1>1. Len(db.jobs) \in Nat /\ Len(db'.jobs) \in Nat
  BY DatabaseDomains DEF BatchTypes
<1>2. 1..Len(db.jobs) \subseteq 1..Len(db'.jobs)
  BY <1>1
<1>3. \A t : RunFits(t, Len(db.jobs)) => RunFits(t, Len(db'.jobs))
  BY <1>2 DEF RunFits
<1>4. \A c \in Batches : RunFits(batch'[c], Len(db.jobs))
  BY DEF BatchTypes, JobsFit
<1> QED  BY <1>3, <1>4 DEF JobsFit, MatchesFit

\* What becomes of the run.
LEMMA RunProceeds ==
  ASSUME BatchTypes, JobsFit, NEW b \in Batches,
         NEW at \in (LiveSteps \cup {"returned", "raised"}) \ {"save"}, Proceed(b, at)
  PROVE  \E s \in RunStates : batch' = [batch EXCEPT ![b] = s] /\ RunFits(s, Len(db.jobs))
<1>1. batch[b] \in RunStates /\ RunFits(batch[b], Len(db.jobs))
  BY DEF BatchTypes, JobsFit
<1>2. PICK s : s = [batch[b] EXCEPT !.at = at]
  OBVIOUS
<1>3. s \in RunStates /\ s.kind = batch[b].kind /\ s.todo = batch[b].todo /\ s.at # "save"
  BY <1>1, <1>2 DEF RunStates
<1>4. RunFits(s, Len(db.jobs))
  BY <1>1, <1>3 DEF RunFits
<1> QED  BY <1>2, <1>3, <1>4 DEF Proceed

LEMMA RunTakesNext ==
  ASSUME BatchTypes, JobsFit, NEW b \in Batches, SkipItem(b) \/ FinishItem(b)
  PROVE  \E s \in RunStates : batch' = [batch EXCEPT ![b] = s] /\ RunFits(s, Len(db.jobs))
<1>1. batch[b] \in RunStates /\ RunFits(batch[b], Len(db.jobs))
  BY DEF BatchTypes, JobsFit
<1>2. PICK good \in {batch[b].good, batch[b].good \cup {batch[b].item}} :
        batch' = [batch EXCEPT ![b] = [batch[b] EXCEPT !.at = "next", !.todo = @ \ {batch[b].item}, !.good = good]]
  <2>1. CASE SkipItem(b)
    <3>1. [batch[b] EXCEPT !.at = "next", !.todo = @ \ {batch[b].item}]
            = [batch[b] EXCEPT !.at = "next", !.todo = @ \ {batch[b].item}, !.good = batch[b].good]
      BY <1>1 DEF RunStates
    <3>2. batch' = [batch EXCEPT ![b] = [batch[b] EXCEPT !.at = "next", !.todo = @ \ {batch[b].item}]]
      BY <2>1 DEF SkipItem, BatchTypes
    <3> QED  BY <3>1, <3>2
  <2>2. CASE FinishItem(b)
    BY <2>2 DEF FinishItem, BatchTypes
  <2> QED  BY <2>1, <2>2
<1>3. PICK s : s = [batch[b] EXCEPT !.at = "next", !.todo = @ \ {batch[b].item}, !.good = good]
  OBVIOUS
<1>4. good \in SUBSET Items
  BY <1>1 DEF RunStates
<1>5. s \in RunStates /\ s.kind = batch[b].kind /\ s.todo \subseteq batch[b].todo /\ s.at = "next"
  BY <1>1, <1>3, <1>4 DEF RunStates, LiveSteps, Writable
<1>6. RunFits(s, Len(db.jobs))
  BY <1>1, <1>5 DEF RunFits
<1> QED  BY <1>2, <1>3, <1>5, <1>6

\* A step that leaves the database alone.
LEMMA QuietFits ==
  ASSUME BatchTypes, JobsFit, NEW b \in Batches, UNCHANGED <<db, draft, writer>>,
         NEW s \in RunStates, batch' = [batch EXCEPT ![b] = s], RunFits(s, Len(db.jobs))
  PROVE  JobsFit'
<1>1. db' \in Databases /\ Len(db.jobs) <= Len(db'.jobs)
  BY DatabaseDomains DEF BatchTypes
<1>2. MatchesFit(db') /\ MatchesFit(draft') /\ (writer' # NoBatch => Len(db'.jobs) <= Len(draft'.jobs))
  BY DEF JobsFit
<1> QED  BY <1>1, <1>2, JobsFitAfter

LEMMA ReadsFit ==
  ASSUME BatchTypes, JobsFit, NEW b \in Batches,
         \/ SourceExists(b) \/ SearchFails(b) \/ FindCompany(b) \/ FindJob(b) \/ Handled(b)
         \/ CommitRaises(b) \/ MatchRaises(b) \/ Search(b) \/ NextPosting(b) \/ NextJob(b)
         \/ BeginScan(b) \/ BeginMatch(b)
  PROVE  JobsFit'
<1>0. batch[b] \in RunStates /\ RunFits(batch[b], Len(db.jobs)) /\ Sorted(batch[b]) /\ board \in [Offers -> Contents]
  BY DEF BatchTypes, JobsFit
<1>1. UNCHANGED <<db, draft, writer>>
  BY DEF SourceExists, SearchFails, FindCompany, FindJob, Handled, CommitRaises, MatchRaises, Search,
         NextPosting, NextJob, BeginScan, BeginMatch, BeginRun, jobDataVars
<1>2. CASE \E at \in {"raised", "commit", "addCompany", "select", "insert", "update"} : Proceed(b, at)
  <2>1. PICK at \in (LiveSteps \cup {"returned", "raised"}) \ {"save"} : Proceed(b, at)
    BY <1>2 DEF LiveSteps, Writable
  <2> QED  BY <1>1, <2>1, RunProceeds, QuietFits
<1>3. CASE SkipItem(b)
  BY <1>1, <1>3, RunTakesNext, QuietFits
<1>4. CASE Search(b)
  <2>1. PICK s : s = [batch[b] EXCEPT !.at = "next", !.says = board, !.todo = {p \in Offers : board[p] # "absent"}]
    OBVIOUS
  <2>2. batch[b].kind = "scan"
    BY <1>0, <1>4 DEF Search, Sorted
  <2>3. s \in RunStates /\ s.kind = "scan"
    <3>1. {p \in Offers : board[p] # "absent"} \in SUBSET Items
      BY DEF Items
    <3> QED  BY <1>0, <2>1, <2>2, <3>1 DEF RunStates, LiveSteps, Writable
  <2>4. batch' = [batch EXCEPT ![b] = s]
    BY <1>4, <2>1 DEF Search, BatchTypes
  <2>5. RunFits(s, Len(db.jobs))
    BY <2>3 DEF RunFits
  <2> QED  BY <1>1, <2>3, <2>4, <2>5, QuietFits
<1>5. CASE NextPosting(b)
  <2>1. PICK p \in batch[b].todo :
           \/ batch' = [batch EXCEPT ![b].todo = @ \ {p}]
           \/ batch' = [batch EXCEPT ![b].at = "company", ![b].item = p]
    BY <1>5 DEF NextPosting
  <2>2. PICK s \in {[batch[b] EXCEPT !.todo = @ \ {p}], [batch[b] EXCEPT !.at = "company", !.item = p]} :
           batch' = [batch EXCEPT ![b] = s]
    BY <2>1 DEF BatchTypes
  <2>3. batch[b].kind = "scan" /\ p \in Items
    BY <1>0, <1>5 DEF NextPosting, RunStates
  <2>4. s \in RunStates /\ s.kind = "scan"
    BY <1>0, <2>2, <2>3 DEF RunStates, LiveSteps, Writable
  <2>5. RunFits(s, Len(db.jobs))
    BY <2>4 DEF RunFits
  <2> QED  BY <1>1, <2>2, <2>4, <2>5, QuietFits
<1>6. CASE NextJob(b)
  <2>1. PICK k \in batch[b].todo : batch' = [batch EXCEPT ![b].at = "save", ![b].item = k]
    BY <1>6 DEF NextJob
  <2>2. PICK s : s = [batch[b] EXCEPT !.at = "save", !.item = k]
    OBVIOUS
  <2>3. batch' = [batch EXCEPT ![b] = s] /\ batch[b].kind = "match" /\ k \in Items
    BY <1>0, <1>6, <2>1, <2>2 DEF BatchTypes, NextJob, RunStates
  <2>4. s \in RunStates /\ s.kind = "match" /\ s.todo = batch[b].todo /\ s.item = k
    BY <1>0, <2>2, <2>3 DEF RunStates, LiveSteps, Writable
  <2>5. RunFits(s, Len(db.jobs))
    BY <1>0, <2>3, <2>4 DEF RunFits
  <2> QED  BY <1>1, <2>3, <2>4, <2>5, QuietFits
<1>7. CASE BeginScan(b)
  <2>1. PICK s : s = [NoBatchRun EXCEPT !.at = IF db.source THEN "search" ELSE "source"]
    OBVIOUS
  <2>2. batch' = [batch EXCEPT ![b] = s]
    BY <1>7, <2>1 DEF BeginScan, BeginRun
  <2>3. s \in RunStates /\ s.kind = "scan"
    <3>1. NoBatchRun \in RunStates /\ NoBatchRun.kind = "scan"
      BY NoRunType DEF NoBatchRun
    <3> QED  BY <2>1, <3>1 DEF RunStates, LiveSteps, Writable
  <2>4. RunFits(s, Len(db.jobs))
    BY <2>3 DEF RunFits
  <2> QED  BY <1>1, <2>2, <2>3, <2>4, QuietFits
<1>8. CASE BeginMatch(b)
  <2>1. PICK s : s = [NoBatchRun EXCEPT !.at = "next", !.kind = "match", !.todo = DOMAIN db.jobs]
    OBVIOUS
  <2>2. batch' = [batch EXCEPT ![b] = s]
    BY <1>8, <2>1 DEF BeginMatch, BeginRun
  <2>3. DOMAIN db.jobs = 1..Len(db.jobs) /\ DOMAIN db.jobs \in SUBSET Items
    <3>1. Len(db.jobs) \in Nat /\ DOMAIN db.jobs = 1..Len(db.jobs)
      BY DatabaseDomains DEF BatchTypes
    <3> QED  BY <3>1 DEF Items
  <2>4. s \in RunStates /\ s.at = "next" /\ s.todo = DOMAIN db.jobs
    <3>1. NoBatchRun \in RunStates
      BY NoRunType
    <3> QED  BY <2>1, <2>3, <3>1 DEF RunStates, LiveSteps, Writable
  <2>5. RunFits(s, Len(db.jobs))
    BY <2>3, <2>4 DEF RunFits
  <2> QED  BY <1>1, <2>2, <2>4, <2>5, QuietFits
<1> QED
  BY <1>2, <1>3, <1>4, <1>5, <1>6, <1>7, <1>8
  DEF SourceExists, SearchFails, FindCompany, FindJob, Handled, CommitRaises, MatchRaises

LEMMA ViewFits ==
  ASSUME StoreInv, JobsFit, NEW b \in Batches
  PROVE  View(b) \in Databases /\ MatchesFit(View(b)) /\ Len(db.jobs) <= Len(View(b).jobs)
<1>1. View(b) \in Databases /\ BatchTypes
  BY ViewType DEF StoreInv
<1>2. Len(db.jobs) \in Nat
  BY <1>1, DatabaseDomains DEF BatchTypes
<1>3. b # NoBatch
  BY DiscoveryAssumption
<1> QED  BY <1>1, <1>2, <1>3 DEF JobsFit, View

\* A write that takes no row away.
LEMMA WriteFits ==
  ASSUME StoreInv, JobsFit, NEW b \in Batches, NEW d \in Databases, Write(b, d),
         MatchesFit(d), Len(View(b).jobs) <= Len(d.jobs),
         NEW s \in RunStates, batch' = [batch EXCEPT ![b] = s], RunFits(s, Len(db.jobs))
  PROVE  JobsFit'
<1>1. BatchTypes /\ View(b) \in Databases /\ Len(db.jobs) <= Len(View(b).jobs)
  BY ViewFits DEF StoreInv
<1>2. db' = db /\ draft' = d /\ db \in Databases
  BY <1>1 DEF Write, BatchTypes
<1>3. Len(db.jobs) <= Len(d.jobs) /\ Len(db.jobs) <= Len(db.jobs)
  BY <1>1, <1>2, DatabaseDomains
<1>4. MatchesFit(db') /\ MatchesFit(draft') /\ db' \in Databases
      /\ Len(db.jobs) <= Len(db'.jobs) /\ Len(db'.jobs) <= Len(draft'.jobs)
  BY <1>2, <1>3 DEF JobsFit
<1> QED  BY <1>1, <1>4, JobsFitAfter

LEMMA MoreRows ==
  ASSUME NEW d \in Databases, NEW e \in Databases, MatchesFit(d), Len(d.jobs) <= Len(e.jobs), e.matches = d.matches
  PROVE  MatchesFit(e)
<1>1. Len(d.jobs) \in Nat /\ Len(e.jobs) \in Nat
  BY DatabaseDomains
<1>2. 1..Len(d.jobs) \subseteq 1..Len(e.jobs)
  BY <1>1
<1>3. d.matches \in Seq(1..Len(d.jobs))
  BY DEF MatchesFit
<1>4. e.matches \in Seq(1..Len(e.jobs))
  BY <1>2, <1>3
<1> QED  BY <1>4 DEF MatchesFit

LEMMA InsertFits == ASSUME StoreInv, JobsFit, NEW b \in Batches, InsertJob(b) PROVE JobsFit'
<1>1. PICK p, r : p = batch[b].item /\ r = [posting |-> p, says |-> batch[b].says[p]]
  OBVIOUS
<1>2. PICK v : v = View(b)
  OBVIOUS
<1>3. PICK d : d = [v EXCEPT !.jobs = Append(@, r)]
  OBVIOUS
<1>4. Write(b, d) /\ FinishItem(b) /\ batch[b].at = "insert"
  BY <1>1, <1>2, <1>3 DEF InsertJob
<1>5. BatchTypes /\ v \in Databases /\ MatchesFit(v)
  BY <1>2, ViewFits DEF StoreInv
<1>6. r \in JobRows
  <2>1. batch[b] \in RunStates /\ p \in Offers
    BY <1>1, <1>4, <1>5 DEF BatchTypes, Sorted
  <2> QED  BY <1>1, <2>1 DEF JobRows, RunStates
<1>7. v.jobs \in Seq(JobRows) /\ Len(v.jobs) \in Nat
  BY <1>5, DatabaseDomains
<1>8. Append(v.jobs, r) \in Seq(JobRows) /\ Len(Append(v.jobs, r)) = Len(v.jobs) + 1
  BY <1>6, <1>7, AppendProperties
<1>9. d \in Databases /\ d.jobs = Append(v.jobs, r) /\ d.matches = v.matches
  BY <1>3, <1>5, <1>8 DEF Databases
<1>10. Len(v.jobs) <= Len(d.jobs) /\ MatchesFit(d)
  <2>1. Len(v.jobs) <= Len(d.jobs)
    BY <1>7, <1>8, <1>9
  <2> QED  BY <1>5, <1>9, <2>1, MoreRows
<1>11. PICK s \in RunStates : batch' = [batch EXCEPT ![b] = s] /\ RunFits(s, Len(db.jobs))
  BY <1>4, <1>5, RunTakesNext
<1> QED  BY <1>2, <1>4, <1>9, <1>10, <1>11, WriteFits

LEMMA UpdateFits == ASSUME StoreInv, JobsFit, NEW b \in Batches, UpdateJob(b) PROVE JobsFit'
<1>1. PICK v, p, k : v = View(b) /\ p = batch[b].item /\ k = CHOOSE r \in RowsFor(View(b), p) : TRUE
  OBVIOUS
<1>2. PICK d : d = [v EXCEPT !.jobs[k].says = batch[b].says[p]]
  OBVIOUS
<1>3. Write(b, d) /\ FinishItem(b) /\ batch[b].at = "update"
  BY <1>1, <1>2 DEF UpdateJob
<1>4. BatchTypes /\ v \in Databases /\ MatchesFit(v)
  BY <1>1, ViewFits DEF StoreInv
<1>5. v.jobs \in Seq(JobRows) /\ Len(v.jobs) \in Nat /\ DOMAIN v.jobs = 1..Len(v.jobs)
  BY <1>4, DatabaseDomains
<1>6. k \in 1..Len(v.jobs)
  <2>1. HasJob(v, p)
    BY <1>1, <1>3 DEF StoreInv
  <2>2. k \in RowsFor(v, p)
    BY <1>1, <1>4, <2>1, RowsAreJobs
  <2> QED  BY <1>5, <2>2 DEF RowsFor
<1>7. batch[b].says[p] \in Contents
  <2>1. batch[b] \in RunStates /\ p \in Offers
    BY <1>1, <1>3, <1>4 DEF BatchTypes, Sorted
  <2> QED  BY <2>1 DEF RunStates
<1>8. PICK r : r = [v.jobs[k] EXCEPT !.says = batch[b].says[p]]
  OBVIOUS
<1>9. r \in JobRows
  <2>1. v.jobs[k] \in JobRows
    BY <1>5, <1>6, ElementOfSeq
  <2> QED  BY <1>7, <1>8, <2>1 DEF JobRows
<1>10. [v.jobs EXCEPT ![k] = r] \in Seq(JobRows) /\ Len([v.jobs EXCEPT ![k] = r]) = Len(v.jobs)
  BY <1>5, <1>6, <1>9, ExceptSeq
<1>11. d = [v EXCEPT !.jobs = [v.jobs EXCEPT ![k] = r]]
  BY <1>2, <1>8
<1>12. d \in Databases /\ d.jobs = [v.jobs EXCEPT ![k] = r] /\ d.matches = v.matches
  BY <1>4, <1>10, <1>11 DEF Databases
<1>13. Len(v.jobs) <= Len(d.jobs) /\ MatchesFit(d)
  <2>1. Len(v.jobs) <= Len(d.jobs)
    BY <1>5, <1>10, <1>12
  <2> QED  BY <1>4, <1>12, <2>1, MoreRows
<1>14. PICK s \in RunStates : batch' = [batch EXCEPT ![b] = s] /\ RunFits(s, Len(db.jobs))
  BY <1>3, <1>4, RunTakesNext
<1> QED  BY <1>1, <1>3, <1>12, <1>13, <1>14, WriteFits

LEMMA SaveFits == ASSUME StoreInv, JobsFit, NEW b \in Batches, SaveMatch(b) PROVE JobsFit'
<1>1. PICK v, k : v = View(b) /\ k = batch[b].item
  OBVIOUS
<1>2. PICK d : d = [v EXCEPT !.matches = Append(@, k)]
  OBVIOUS
<1>3. Write(b, d) /\ FinishItem(b) /\ batch[b].at = "save"
  BY <1>1, <1>2 DEF SaveMatch
<1>4. BatchTypes /\ v \in Databases /\ MatchesFit(v) /\ Len(db.jobs) <= Len(v.jobs)
  BY <1>1, ViewFits DEF StoreInv
<1>5. /\ Len(v.jobs) \in Nat /\ Len(db.jobs) \in Nat
      /\ v.matches \in Seq(Nat) /\ v.matches \in Seq(1..Len(v.jobs))
  BY <1>4, DatabaseDomains DEF BatchTypes, MatchesFit
<1>6. k \in 1..Len(v.jobs) /\ k \in Nat
  <2>1. batch[b].kind = "match" /\ RunFits(batch[b], Len(db.jobs))
    BY <1>3, <1>4 DEF BatchTypes, Sorted, JobsFit
  <2>2. k \in 1..Len(db.jobs)
    BY <1>1, <1>3, <2>1 DEF RunFits
  <2> QED  BY <1>4, <1>5, <2>2
<1>7. Append(v.matches, k) \in Seq(Nat) /\ Append(v.matches, k) \in Seq(1..Len(v.jobs))
  BY <1>5, <1>6, AppendProperties
<1>8. d \in Databases /\ d.jobs = v.jobs /\ d.matches = Append(v.matches, k)
  BY <1>2, <1>4, <1>7 DEF Databases
<1>9. Len(v.jobs) <= Len(d.jobs) /\ MatchesFit(d)
  <2>1. Len(v.jobs) <= Len(d.jobs)
    BY <1>5, <1>8
  <2> QED  BY <1>7, <1>8, <2>1 DEF MatchesFit
<1>10. PICK s \in RunStates : batch' = [batch EXCEPT ![b] = s] /\ RunFits(s, Len(db.jobs))
  BY <1>3, <1>4, RunTakesNext
<1> QED  BY <1>1, <1>3, <1>8, <1>9, <1>10, WriteFits

LEMMA AddsFit ==
  ASSUME StoreInv, JobsFit, NEW b \in Batches, AddSource(b) \/ AddCompany(b)
  PROVE  JobsFit'
<1>1. PICK v : v = View(b)
  OBVIOUS
<1>2. BatchTypes /\ v \in Databases /\ MatchesFit(v)
  BY <1>1, ViewFits DEF StoreInv
<1>3. v.companies + 1 \in Nat
  BY <1>2 DEF Databases
<1>4. PICK m : m = v.companies + 1
  OBVIOUS
<1>5. PICK d \in {[v EXCEPT !.source = TRUE], [v EXCEPT !.companies = m]}, at \in {"search", "select"} :
        Write(b, d) /\ Proceed(b, at)
  <2>1. CASE AddSource(b)
    BY <1>1, <2>1 DEF AddSource
  <2>2. CASE AddCompany(b)
    BY <1>1, <1>4, <2>2 DEF AddCompany
  <2> QED  BY <2>1, <2>2
<1>6. d \in Databases /\ d.jobs = v.jobs /\ d.matches = v.matches
  BY <1>2, <1>3, <1>4, <1>5 DEF Databases
<1>7. Len(v.jobs) <= Len(d.jobs) /\ MatchesFit(d)
  <2>1. Len(v.jobs) <= Len(d.jobs)
    BY <1>2, <1>6, DatabaseDomains
  <2> QED  BY <1>2, <1>6, <2>1, MoreRows
<1>8. at \in (LiveSteps \cup {"returned", "raised"}) \ {"save"}
  BY <1>5 DEF LiveSteps, Writable
<1>9. PICK s \in RunStates : batch' = [batch EXCEPT ![b] = s] /\ RunFits(s, Len(db.jobs))
  BY <1>2, <1>5, <1>8, RunProceeds
<1> QED  BY <1>1, <1>5, <1>6, <1>7, <1>9, WriteFits

LEMMA EndsFit ==
  ASSUME StoreInv, JobsFit, NEW b \in Batches, FlushFails(b) \/ BatchDies(b) \/ Commit(b)
  PROVE  JobsFit'
<1>1. BatchTypes /\ View(b) \in Databases /\ MatchesFit(View(b)) /\ Len(db.jobs) <= Len(View(b).jobs)
  BY ViewFits DEF StoreInv
<1>2. PICK at \in {"raised", "poisoned", "returned"} : Proceed(b, at)
  BY DEF FlushFails, BatchDies, Commit
<1>3. at \in (LiveSteps \cup {"returned", "raised"}) \ {"save"}
  BY <1>2 DEF LiveSteps, Writable
<1>4. PICK s \in RunStates : batch' = [batch EXCEPT ![b] = s] /\ RunFits(s, Len(db.jobs))
  BY <1>1, <1>2, <1>3, RunProceeds
<1>5. Release(b) /\ (db' = db \/ db' = View(b)) /\ db \in Databases
  BY <1>1 DEF FlushFails, BatchDies, Commit, BatchTypes
<1>6. db' \in Databases /\ MatchesFit(db') /\ Len(db.jobs) <= Len(db'.jobs)
  BY <1>1, <1>5, DatabaseDomains DEF JobsFit
<1>7. MatchesFit(draft')
  BY <1>5, NewDatabaseFits DEF Release, JobsFit
<1>8. writer' # NoBatch => Len(db'.jobs) <= Len(draft'.jobs)
  BY <1>5 DEF Release, JobsFit, View
<1> QED  BY <1>1, <1>4, <1>6, <1>7, <1>8, JobsFitAfter

LEMMA BatchCountersStep == ASSUME BatchCounters, [BatchNext]_batchVars PROVE BatchCounters'
<1>1. /\ MaxBatches \in Nat /\ MaxBatchFaults \in Nat /\ MaxChanges \in Nat
      /\ batches \in 0..MaxBatches /\ batchFaults \in 0..MaxBatchFaults /\ changes \in 0..MaxChanges
  BY DiscoveryAssumption DEF BatchCounters
<1>2. /\ batches' = batches \/ (batches < MaxBatches /\ batches' = batches + 1)
      /\ batchFaults' = batchFaults \/ (batchFaults < MaxBatchFaults /\ batchFaults' = batchFaults + 1)
      /\ changes' = changes \/ (changes < MaxChanges /\ changes' = changes + 1)
  BY DEF BatchNext, BeginScan, AddSource, SourceExists, Search, SearchFails, NextPosting, FindCompany,
         AddCompany, FindJob, InsertJob, UpdateJob, BeginMatch, NextJob, MatchRaises, SaveMatch, FlushFails,
         Handled, Commit, CommitRaises, BatchDies, BoardChanges, BeginRun, Write, batchVars, batchBounds
<1>3. overlapped' \in BOOLEAN
  <2>1. \/ overlapped' = overlapped
        \/ \E b \in Batches : overlapped' = (overlapped \/ \E c \in Batches \ {b} : batch[c].at \notin {"idle", "returned", "raised"})
    BY DEF BatchNext, BeginScan, AddSource, SourceExists, Search, SearchFails, NextPosting, FindCompany,
           AddCompany, FindJob, InsertJob, UpdateJob, BeginMatch, NextJob, MatchRaises, SaveMatch, FlushFails,
           Handled, Commit, CommitRaises, BatchDies, BoardChanges, BeginRun, Write, batchVars
  <2> QED  BY <2>1 DEF BatchCounters
<1>4. batches' \in 0..MaxBatches /\ batchFaults' \in 0..MaxBatchFaults /\ changes' \in 0..MaxChanges
  BY <1>1, <1>2
<1> QED  BY <1>3, <1>4 DEF BatchCounters

LEMMA BatchFitStep == BatchFit /\ [BatchNext]_batchVars => BatchFit'
<1> SUFFICES ASSUME BatchFit, [BatchNext]_batchVars PROVE BatchFit'
  OBVIOUS
<1>1. StoreInv /\ JobsFit /\ BatchTypes /\ BatchCounters
  BY DEF BatchFit, StoreInv
<1>2. ASSUME UNCHANGED <<db, draft, writer, batch>> PROVE JobsFit'
  BY <1>1, <1>2 DEF JobsFit, MatchesFit, RunFits
<1>3. JobsFit'
  <2>1. ASSUME NEW p \in Offers, NEW c \in Contents, BoardChanges(p, c) PROVE JobsFit'
    BY <1>2, <2>1 DEF BoardChanges
  <2>2. CASE UNCHANGED batchVars
    BY <1>2, <2>2 DEF batchVars, jobDataVars
  <2> QED
    BY <1>1, <2>1, <2>2, ReadsFit, InsertFits, UpdateFits, SaveFits, AddsFit, EndsFit DEF BatchNext
<1>4. StoreInv' /\ SingleInv'
  BY BatchInvStep DEF BatchFit
<1>5. BatchCounters'
  BY <1>1, BatchCountersStep
<1> QED  BY <1>3, <1>4, <1>5 DEF BatchFit

-----------------------------------------------------------------------------
(* JobMatching: an overall score is one of a hundred, whatever the weights. *)

Attempts ==
  [at : {"idle", "scoring", "asking", "finalizing", "done"}, attempt : 0..2,
   opinion : {<<>>} \cup Opinions,
   decision : {"none", "SKIP", "SAVE", "REVIEW", "APPLY", "HUMAN_REQUIRED"}, overall : 0..100]

MatchTypes == ad \in JobPostings \cup {NoAd} /\ match \in Attempts /\ MatchInv

LEMMA ProductNat == ASSUME NEW a \in Nat, NEW b \in Nat PROVE a * b \in Nat
BY SMTT(30)

LEMMA PostingType == ASSUME NEW p \in JobPostings PROVE IsPosting(p)
<1>1. PICK e \in Evidences :
        p \in [evidence : {e}, inProjects : 0..Len(e),
               title : {"excluded", "primary", "secondary", "exploratory", "other"},
               degree : {"none", "bachelors", "advanced"},
               where : {"remote", "current", "unstated", "elsewhere"},
               senior : BOOLEAN, junior : BOOLEAN, papers : BOOLEAN, years : Years]
  BY DEF JobPostings
<1>2. /\ p.evidence = e /\ p.inProjects \in 0..Len(e)
      /\ p.title \in {"excluded", "primary", "secondary", "exploratory", "other"}
      /\ p.degree \in {"none", "bachelors", "advanced"}
      /\ p.where \in {"remote", "current", "unstated", "elsewhere"}
      /\ p.senior \in BOOLEAN /\ p.junior \in BOOLEAN /\ p.papers \in BOOLEAN /\ p.years \in Years
  BY <1>1
<1>3. Years \subseteq {-1} \cup 0..40
  BY DEF Years
<1> QED  BY <1>2, <1>3 DEF IsPosting

LEMMA BlendNat ==
  ASSUME NEW d, NEW k, d[k] \in Nat, NEW o \in Opinions \cup {<<>>}
  PROVE  Blend(d, o, k) \in Nat
<1>1. CASE o = <<>> \/ k \notin Refined
  BY <1>1 DEF Blend
<1>2. CASE o # <<>> /\ k \in Refined
  <2>1. o \in [Refined -> 0..100] /\ BlendWeight \in 0..100
    BY <1>2, MatchingAssumption
  <2>2. PICK a, b, x, y : a = d[k] /\ b = 100 - BlendWeight /\ x = o[k] /\ y = BlendWeight
    OBVIOUS
  <2>3. a \in Nat /\ b \in Nat /\ x \in Nat /\ y \in Nat
    <3>1. x \in 0..100 /\ y \in 0..100
      BY <1>2, <2>1, <2>2
    <3>2. \A m \in 0..100 : m \in Nat /\ 100 - m \in Nat
      OBVIOUS
    <3> QED  BY <2>2, <3>1, <3>2
  <2>4. a * b \in Nat /\ x * y \in Nat
    BY <2>3, ProductNat
  <2>5. a * b + x * y \in Nat
    BY <2>4
  <2>6. Rounded(a * b + x * y, 100) \in Nat
    BY <2>5, RoundedHundredth
  <2> QED  BY <1>2, <2>2, <2>6 DEF Blend
<1> QED  BY <1>1, <1>2

LEMMA CappedScore == ASSUME NEW n \in Nat PROVE Min({100, n}) \in 0..100
<1>1. CASE n <= 100
  <2>1. {100, n} \in SUBSET Int /\ n \in {100, n} /\ \A k \in {100, n} : n <= k
    BY <1>1
  <2>2. Min({100, n}) = n
    BY <2>1, MinIs
  <2> QED  BY <1>1, <2>2
<1>2. CASE ~(n <= 100)
  <2>1. {100, n} \in SUBSET Int /\ 100 \in {100, n} /\ \A k \in {100, n} : 100 <= k
    BY <1>2
  <2>2. Min({100, n}) = 100
    BY <2>1, MinIs
  <2> QED  BY <2>2
<1> QED  BY <1>1, <1>2

LEMMA OverallType ==
  ASSUME NEW p \in JobPostings, NEW o \in Opinions \cup {<<>>}
  PROVE  Overall(Deterministic(p), o) \in 0..100
<1> DEFINE d == Deterministic(p)
           weighed(k) == Blend(d, o, k) * Weights[k]
<1>1. \A k \in Scored : d[k] \in Nat
  BY KeywordScores DEF Deterministic, Scored
<1>2. ASSUME NEW k \in Scored PROVE weighed(k) \in Nat
  <2> HIDE DEF d
  <2>1. Blend(d, o, k) \in Nat
    BY <1>1, BlendNat
  <2>2. Weights[k] \in Nat
    <3>1. Weights[k] \in 0..100
      BY MatchingAssumption
    <3>2. \A m \in 0..100 : m \in Nat
      OBVIOUS
    <3> QED  BY <3>1, <3>2
  <2> QED  BY <2>1, <2>2, ProductNat
<1> DEFINE sum == weighed("skills") + weighed("experience") + weighed("role") + weighed("project")
                    + weighed("education") + weighed("location") + weighed("seniority") + weighed("eligibility")
<1>3. Overall(d, o) = Min({100, Rounded(sum, 100)})
  BY DEF Overall
<1>4. sum \in Nat
  <2>1. /\ weighed("skills") \in Nat /\ weighed("experience") \in Nat /\ weighed("role") \in Nat
        /\ weighed("project") \in Nat /\ weighed("education") \in Nat /\ weighed("location") \in Nat
        /\ weighed("seniority") \in Nat /\ weighed("eligibility") \in Nat
    BY <1>2 DEF Scored
  <2> HIDE DEF weighed
  <2> QED  BY <2>1
<1> HIDE DEF sum
<1>5. Min({100, Rounded(sum, 100)}) \in 0..100
  BY <1>4, RoundedHundredth, CappedScore
<1> HIDE DEF d
<1> QED  BY <1>3, <1>5 DEF d

LEMMA DecideType ==
  ASSUME NEW p, NEW o
  PROVE  Decide(p, o) \in {"SKIP", "SAVE", "REVIEW", "APPLY", "HUMAN_REQUIRED"}
BY DEF Decide

LEMMA MatchTypesFit == MatchTypes => MatchingTypeOK
BY PostingType DEF MatchTypes, Attempts, MatchingTypeOK

LEMMA NoMatchType == NoMatch \in Attempts /\ NoMatch.at = "idle"
BY DEF NoMatch, Attempts

LEMMA MatchTypesInit == MatchingInit => MatchTypes
BY NoMatchType DEF MatchingInit, MatchTypes, MatchInv

LEMMA MatchTypesStep == MatchTypes /\ [MatchingNext]_matchingVars => MatchTypes'
<1> SUFFICES ASSUME MatchTypes, [MatchingNext]_matchingVars PROVE MatchTypes'
  OBVIOUS
<1>0. ad \in JobPostings \cup {NoAd} /\ match \in Attempts /\ MatchInv
  BY DEF MatchTypes
<1>1. MatchInv'
  BY <1>0, MatchInvStep
<1>2. CASE BeginJob
  <2>1. PICK p \in JobPostings : ad' = p
    BY <1>2 DEF BeginJob
  <2>2. match' \in Attempts
    BY <1>2, NoMatchType DEF BeginJob, Attempts
  <2> QED  BY <1>1, <2>1, <2>2 DEF MatchTypes
<1>3. CASE ScoreJob \/ Unavailable \/ InvalidAnswer
  <2>1. ad' = ad
    BY <1>3 DEF ScoreJob, Unavailable, InvalidAnswer
  <2>2. match' \in Attempts
    <3>1. /\ [match EXCEPT !.at = "finalizing"] \in Attempts /\ [match EXCEPT !.attempt = 2] \in Attempts
          /\ [match EXCEPT !.at = "asking", !.attempt = 1] \in Attempts
      <4> DEFINE tries == 0..2
      <4>1. match \in Attempts /\ 1 \in tries /\ 2 \in tries
        BY <1>0
      <4>2. [match EXCEPT !.at = "finalizing"] \in Attempts
        BY <4>1 DEF Attempts
      <4>3. [match EXCEPT !.attempt = 2] \in Attempts
        <5>1. Attempts = [at : {"idle", "scoring", "asking", "finalizing", "done"}, attempt : tries,
                          opinion : {<<>>} \cup Opinions,
                          decision : {"none", "SKIP", "SAVE", "REVIEW", "APPLY", "HUMAN_REQUIRED"},
                          overall : 0..100]
          BY DEF Attempts
        <5> HIDE DEF tries
        <5> QED  BY <4>1, <5>1
      <4>4. [match EXCEPT !.at = "asking"] \in Attempts
        BY <4>1 DEF Attempts
      <4>5. \A m \in Attempts : [m EXCEPT !.attempt = 1] \in Attempts
        <5>1. Attempts = [at : {"idle", "scoring", "asking", "finalizing", "done"}, attempt : tries,
                          opinion : {<<>>} \cup Opinions,
                          decision : {"none", "SKIP", "SAVE", "REVIEW", "APPLY", "HUMAN_REQUIRED"},
                          overall : 0..100]
          BY DEF Attempts
        <5> HIDE DEF tries
        <5> QED  BY <4>1, <5>1
      <4> QED  BY <4>2, <4>3, <4>4, <4>5
    <3>2. match' \in {[match EXCEPT !.at = "finalizing"], [match EXCEPT !.attempt = 2],
                      [match EXCEPT !.at = "asking", !.attempt = 1]}
      <4>1. CASE ScoreJob
        BY <4>1, Zenon DEF ScoreJob
      <4>2. CASE Unavailable
        BY <4>2, Zenon DEF Unavailable
      <4>3. CASE InvalidAnswer
        BY <4>3, Zenon DEF InvalidAnswer
      <4> QED  BY <1>3, <4>1, <4>2, <4>3
    <3> QED  BY <3>1, <3>2, Zenon
  <2> QED  BY <1>0, <1>1, <2>1, <2>2 DEF MatchTypes
<1>4. ASSUME NEW o \in Opinions, Answered(o) PROVE MatchTypes'
  <2>1. ad' = ad /\ match' \in Attempts
    BY <1>0, <1>4 DEF Answered, Attempts
  <2> QED  BY <1>0, <1>1, <2>1 DEF MatchTypes
<1>5. CASE FinalizeJob
  <2>1. PICK o, v, w : o = match.opinion /\ v = Decide(ad, o) /\ w = Overall(Deterministic(ad), o)
    OBVIOUS
  <2>2. ad \in JobPostings /\ o \in Opinions \cup {<<>>}
    BY <1>0, <1>5, <2>1 DEF FinalizeJob, MatchInv, Attempts
  <2>3. w \in 0..100 /\ v \in {"SKIP", "SAVE", "REVIEW", "APPLY", "HUMAN_REQUIRED"}
    BY <2>1, <2>2, OverallType, DecideType
  <2>4. match' = [match EXCEPT !.at = "done", !.decision = v, !.overall = w] /\ ad' = ad
    BY <1>5, <2>1 DEF FinalizeJob
  <2>5. match' \in Attempts
    BY <1>0, <2>3, <2>4 DEF Attempts
  <2> QED  BY <1>0, <1>1, <2>4, <2>5 DEF MatchTypes
<1>6. CASE UNCHANGED matchingVars
  BY <1>0, <1>1, <1>6 DEF matchingVars, MatchTypes
<1> QED  BY <1>2, <1>3, <1>4, <1>5, <1>6 DEF MatchingNext

-----------------------------------------------------------------------------
(* AnswerEngine. *)

\* An answer that is given has a source, and a text unless it is left to a human.
GoodAnswer(a) ==
  /\ a.source \in {"hard_block", "fact", "no_fact", "employer", "bank", "unavailable", "invalid", "llm",
                   "human_input"}
  /\ a.human \in BOOLEAN /\ a.claims \subseteq Claims
  /\ a.human = (a.text = "none")

AnswerTypes ==
  /\ AnswerInv /\ attempt \in 0..2
  /\ engine \in {"asking", "answering", "drafting", "done"}
  /\ \A i \in 1..Len(generated) : GoodAnswer(generated[i])
  /\ \A i \in DOMAIN given : GoodAnswer(given[i])

LEMMA AnswerTypesFit == AnswerTypes => AnswerTypeOK
<1> SUFFICES ASSUME AnswerTypes PROVE AnswerTypeOK
  OBVIOUS
<1>1. form \in Seq(Questions) /\ DOMAIN generated = 1..Len(generated)
  BY LenProperties DEF AnswerTypes, AnswerInv
<1>2. AnswersIn(generated) /\ AnswersIn(given)
  BY <1>1 DEF AnswerTypes, AnswersIn, GoodAnswer
<1> QED  BY <1>1, <1>2 DEF AnswerTypes, AnswerTypeOK

LEMMA AnswerTypesInit == AnswerInit => AnswerTypes
<1> SUFFICES ASSUME AnswerInit PROVE AnswerTypes
  OBVIOUS
<1>1. AnswerInv
  BY AnswerInvInit
<1>2. 1..Len(generated) = {} /\ DOMAIN given = {}
  BY EmptySeq DEF AnswerInit
<1> QED  BY <1>1, <1>2 DEF AnswerInit, AnswerTypes

LEMMA HumanIsGood ==
  ASSUME NEW src \in Sources \ {"none"}
  PROVE  GoodAnswer(Human(src)) /\ Human(src).source = src
BY DEF GoodAnswer, Human, Sources

LEMMA PhraseIsGood ==
  ASSUME NEW src \in Sources \ {"none"}, NEW text \in Phrases \cup {"draft", "typed"}
  PROVE  GoodAnswer(Answer(src, text))
BY AnswerAssumption DEF GoodAnswer, Answer, Sources

LEMMA TiersAreGood ==
  ASSUME NEW q, Tiers(q).source # "none"
  PROVE  GoodAnswer(Tiers(q))
<1>1. PICK fact, slug : fact = FirstOf(FactPhrases, q) /\ slug = FirstOf(SlugPhrases, q)
  OBVIOUS
<1>2. /\ fact \in VerifiedFacts => GoodAnswer(Answer("fact", fact))
      /\ slug \in BankEntries => GoodAnswer(Answer("bank", slug))
  <2>1. VerifiedFacts \subseteq Phrases /\ BankEntries \subseteq Phrases
    BY AnswerAssumption DEF Phrases
  <2> QED  BY <2>1, PhraseIsGood DEF Sources
<1>3. /\ GoodAnswer(Human("hard_block")) /\ GoodAnswer(Human("no_fact"))
      /\ GoodAnswer(Human("employer")) /\ GoodAnswer(Human("bank"))
  BY HumanIsGood DEF Sources
<1>4. Human("none").source = "none"
  BY DEF Human
<1>5. \/ Tiers(q) \in {Human("hard_block"), Human("no_fact"), Human("employer"), Human("bank"), Human("none")}
      \/ Tiers(q) = Answer("fact", fact) /\ fact \in VerifiedFacts
      \/ Tiers(q) = Answer("bank", slug) /\ slug \in BankEntries
  BY <1>1 DEF Tiers
<1> QED  BY <1>2, <1>3, <1>4, <1>5

LEMMA GiveTypes ==
  ASSUME AnswerTypes, AnswerInv', NEW a, GoodAnswer(a), Give(a), given' = given
  PROVE  AnswerTypes'
<1>1. generated \in Seq(Answers) /\ Len(generated) \in Nat
  BY LenProperties DEF AnswerTypes, AnswerInv
<1>2. generated' = Append(generated, a) /\ engine' = "answering" /\ attempt' = 0
  BY DEF Give
<1>3. /\ Len(generated') = Len(generated) + 1 /\ generated'[Len(generated) + 1] = a
      /\ \A i \in 1..Len(generated) : generated'[i] = generated[i]
  BY <1>1, <1>2
<1>4. ASSUME NEW i \in 1..Len(generated') PROVE GoodAnswer(generated'[i])
  <2>1. i = Len(generated) + 1 \/ i \in 1..Len(generated)
    BY <1>1, <1>3
  <2> QED  BY <1>3, <2>1 DEF AnswerTypes
<1>5. \A i \in DOMAIN given' : GoodAnswer(given'[i])
  BY DEF AnswerTypes
<1> QED  BY <1>2, <1>4, <1>5 DEF AnswerTypes

LEMMA AnswerTypesStep == AnswerTypes /\ [AnswerNext]_answerVars => AnswerTypes'
<1> SUFFICES ASSUME AnswerTypes, [AnswerNext]_answerVars PROVE AnswerTypes'
  OBVIOUS
<1>0. AnswerInv /\ AnswerInv'
  BY AnswerInvStep DEF AnswerTypes
<1>1. ASSUME UNCHANGED <<generated, given>>, attempt' \in 0..2,
             engine' \in {"asking", "answering", "drafting", "done"}
      PROVE  AnswerTypes'
  BY <1>0, <1>1 DEF AnswerTypes
<1>2. ASSUME NEW q \in Questions, AskQuestion(q) PROVE AnswerTypes'
  BY <1>1, <1>2 DEF AskQuestion, AnswerTypes
<1>3. CASE FormRead
  BY <1>1, <1>3 DEF FormRead, AnswerTypes
<1>4. CASE AnswerFromTables
  <2>1. CASE Tiers(Question).source = "none"
    BY <1>1, <1>4, <2>1 DEF AnswerFromTables
  <2>2. CASE Tiers(Question).source # "none"
    BY <1>0, <1>4, <2>2, TiersAreGood, GiveTypes DEF AnswerFromTables
  <2> QED  BY <2>1, <2>2
<1>5. ASSUME NEW claims \in SUBSET Claims, Draft(claims) PROVE AnswerTypes'
  <2>1. PICK a : a = IF Validated(claims) THEN [Answer("llm", "draft") EXCEPT !.claims = claims] ELSE Human("llm")
    OBVIOUS
  <2>2. GoodAnswer(a)
    <3>1. GoodAnswer(Human("llm"))
      BY HumanIsGood DEF Sources
    <3>2. GoodAnswer([Answer("llm", "draft") EXCEPT !.claims = claims])
      BY DEF GoodAnswer, Answer
    <3> QED  BY <2>1, <3>1, <3>2
  <2> QED  BY <1>0, <1>5, <2>1, <2>2, GiveTypes DEF Draft
<1>6. CASE NoModel
  <2>1. GoodAnswer(Human("unavailable"))
    BY HumanIsGood DEF Sources
  <2> QED  BY <1>0, <1>6, <2>1, GiveTypes DEF NoModel
<1>7. CASE DraftInvalid
  <2>1. GoodAnswer(Human("invalid"))
    BY HumanIsGood DEF Sources
  <2>2. CASE attempt = 2
    BY <1>0, <1>7, <2>1, <2>2, GiveTypes DEF DraftInvalid
  <2>3. CASE attempt # 2
    BY <1>1, <1>7, <2>3 DEF DraftInvalid, AnswerTypes
  <2> QED  BY <2>2, <2>3
<1>8. ASSUME NEW named \in SUBSET ToSet(form), LayOver(named) PROVE AnswerTypes'
  <2>1. DOMAIN generated = 1..Len(generated)
    BY <1>0, LenProperties DEF AnswerInv
  <2>2. GoodAnswer(Answer("human_input", "typed"))
    BY PhraseIsGood DEF Sources
  <2>3. \A i \in DOMAIN given' : GoodAnswer(given'[i])
    BY <1>8, <2>1, <2>2 DEF LayOver, Overridden, AnswerTypes
  <2> QED  BY <1>0, <1>8, <2>3 DEF LayOver, AnswerTypes
<1>9. CASE UNCHANGED answerVars
  BY <1>1, <1>9 DEF answerVars, AnswerTypes
<1> QED  BY <1>2, <1>3, <1>4, <1>5, <1>6, <1>7, <1>8, <1>9 DEF AnswerNext

-----------------------------------------------------------------------------
(* BrowserFill: the approvals that the commands and the fills refer to. *)

BrowserFit ==
  /\ FillInv
  /\ \A p \in Runs : command[p].approval \in 0..Len(formApprovals)
  /\ collided \subseteq 1..Len(formApprovals)

LEMMA PreparedShape == ASSUME NEW s \in PreparedStates PROVE DOMAIN s = DOMAIN NoState
<1>1. \A page, answers, b :
        DOMAIN PreparedState(page, answers, b) = {"fields", "consents", "unresolved", "emptyFiles"}
  BY DEF PreparedState
<1>2. DOMAIN NoState = {"fields", "consents", "unresolved", "emptyFiles"}
  BY DEF NoState
<1>3. s = NoState \/ \E page \in Pages, answers \in AnswerMaps, b \in BOOLEAN : s = PreparedState(page, answers, b)
  BY DEF PreparedStates
<1> QED  BY <1>1, <1>2, <1>3

LEMMA AnswersShape == ASSUME NEW a \in AnswerMaps PROVE DOMAIN a \subseteq DOMAIN AnswersTo
<1>1. CASE a = <<>>
  BY <1>1
<1>2. ASSUME NEW page \in Pages, a \in [QuestionsOf(page) -> AllAnswers] PROVE DOMAIN a \subseteq DOMAIN AnswersTo
  BY <1>2, AnswersAssumption
<1> QED  BY <1>1, <1>2 DEF AnswerMaps

LEMMA BrowserTypesFit == BrowserFit => BrowserTypeOK
<1> SUFFICES ASSUME BrowserFit PROVE BrowserTypeOK
  OBVIOUS
<1>1. /\ BrowserTypes /\ Len(formApprovals) \in Nat /\ DOMAIN formApprovals = 1..Len(formApprovals)
      /\ DOMAIN fills = 1..Len(fills)
  BY BrowserDomains DEF BrowserFit, FillInv
<1>2. ASSUME NEW k \in DOMAIN formApprovals
      PROVE  /\ formApprovals[k].posting \in RowContents
             /\ DOMAIN formApprovals[k].prepared = DOMAIN NoState
             /\ formApprovals[k].state \in {"valid", "consumed", "lapsed"}
  <2>1. formApprovals[k] \in ApprovalRows
    BY <1>1, ElementOfSeq DEF BrowserTypes
  <2> QED  BY <2>1, PreparedShape DEF ApprovalRows
<1>3. ASSUME NEW p \in Runs
      PROVE  /\ command[p].name \in {"none", "browser-preview", "browser-approve", "browser-fill"}
             /\ command[p].at \in {"idle", "inspect", "questions", "fill", "filled", "consume"}
             /\ command[p].row \in RowContents /\ command[p].page \in Pages \cup {NoPage}
             /\ DOMAIN command[p].answers \subseteq DOMAIN AnswersTo
             /\ command[p].approval \in 0..Len(formApprovals)
  <2>1. command[p] \in CommandStates /\ command[p].approval \in 0..Len(formApprovals)
    BY <1>1 DEF BrowserTypes, BrowserFit
  <2> QED  BY <2>1, AnswersShape DEF CommandStates, CommandNames, CommandSteps
<1>4. \A n \in DOMAIN fills : fills[n].approval \in DOMAIN formApprovals
  BY <1>1 DEF BrowserFit, FillInv, Pays
<1>5. site \in Pages /\ jobRow \in RowContents /\ collided \subseteq DOMAIN formApprovals
  BY <1>1 DEF BrowserTypes, BrowserFit
<1> QED  BY <1>2, <1>3, <1>4, <1>5 DEF BrowserTypeOK

LEMMA BrowserFitInit == BrowserInit => BrowserFit
<1> SUFFICES ASSUME BrowserInit PROVE BrowserFit
  OBVIOUS
<1>1. NoCommand.approval = 0
  BY DEF NoCommand
<1>2. Len(formApprovals) = 0 /\ collided = {} /\ \A p \in Runs : command[p] = NoCommand
  BY DEF BrowserInit
<1> QED  BY <1>1, <1>2, FillInvInit DEF BrowserFit

\* One command goes on, and refers to no approval that is not there.
LEMMA BrowserFits ==
  ASSUME BrowserFit, FillInv', NEW p \in Runs, \A q \in Runs \ {p} : command'[q] = command[q],
         Len(formApprovals') \in {Len(formApprovals), Len(formApprovals) + 1},
         command'[p].approval \in {0, command[p].approval} \cup 1..Len(formApprovals),
         collided' \subseteq collided \cup 1..Len(formApprovals)
  PROVE  BrowserFit'
<1>1. Len(formApprovals) \in Nat
  BY BrowserDomains DEF BrowserFit, FillInv
<1>2. \A k \in 0..Len(formApprovals) : k \in 0..Len(formApprovals')
  BY <1>1
<1>3. ASSUME NEW q \in Runs PROVE command'[q].approval \in 0..Len(formApprovals')
  <2>1. CASE q = p
    BY <1>1, <1>2, <2>1 DEF BrowserFit
  <2>2. CASE q # p
    BY <1>2, <2>2 DEF BrowserFit
  <2> QED  BY <2>1, <2>2
<1>4. collided' \subseteq 1..Len(formApprovals')
  BY <1>1 DEF BrowserFit
<1> QED  BY <1>3, <1>4 DEF BrowserFit

LEMMA AdvanceKeeps ==
  ASSUME BrowserFit, FillInv', NEW p \in Runs, NEW c \in CommandStates, Advance(p, c),
         c.approval \in {0, command[p].approval}, UNCHANGED collided,
         Len(formApprovals') \in {Len(formApprovals), Len(formApprovals) + 1}
  PROVE  BrowserFit'
<1>1. command'[p] = c /\ \A q \in Runs \ {p} : command'[q] = command[q]
  BY AdvanceFacts DEF BrowserFit, FillInv, BrowserTypes
<1> QED  BY <1>1, BrowserFits

LEMMA BrowserFitStep == BrowserFit /\ [BrowserNext]_browserVars => BrowserFit'
<1> SUFFICES ASSUME BrowserFit, [BrowserNext]_browserVars PROVE BrowserFit'
  OBVIOUS
<1>0. /\ FillInv /\ FillInv' /\ BrowserTypes
      /\ DOMAIN formApprovals = 1..Len(formApprovals)
      /\ NoCommand \in CommandStates
  BY FillInvStep, BrowserDomains, NoCommandType DEF BrowserFit, FillInv
<1>1. NoCommand.approval = 0
  BY DEF NoCommand
<1>2. \A p \in Runs : command[p] \in CommandStates
  BY <1>0 DEF BrowserTypes
<1>3. ASSUME NEW p \in Runs, \A q \in Runs \ {p} : command'[q] = command[q],
             command'[p].approval \in {0, command[p].approval}, UNCHANGED <<formApprovals, collided>>
      PROVE  BrowserFit'
  BY <1>0, <1>3, BrowserFits
<1>4. ASSUME NEW p \in Runs, NEW name \in {"browser-preview", "browser-approve", "browser-fill"},
             BeginCommand(p, name)
      PROVE BrowserFit'
  <2> DEFINE c == [NoCommand EXCEPT !.name = name, !.at = "inspect", !.row = jobRow]
  <2>1. c \in CommandStates /\ c.approval = 0
    BY <1>0, <1>1 DEF CommandStates, CommandNames, CommandSteps, BrowserTypes
  <2>2. Advance(p, c) /\ UNCHANGED <<formApprovals, collided>>
    BY <1>4 DEF BeginCommand
  <2> HIDE DEF c
  <2> QED  BY <1>0, <2>1, <2>2, AdvanceKeeps
<1>5. ASSUME NEW p \in Runs, InspectForm(p) PROVE BrowserFit'
  <2> DEFINE c == IF HumanRequired(site) THEN NoCommand ELSE [command[p] EXCEPT !.at = "questions"]
  <2>1. c \in CommandStates /\ c.approval \in {0, command[p].approval}
    BY <1>0, <1>1, <1>2 DEF CommandStates, CommandSteps
  <2>2. Advance(p, c) /\ UNCHANGED <<formApprovals, collided>>
    BY <1>5 DEF InspectForm
  <2> HIDE DEF c
  <2> QED  BY <1>0, <2>1, <2>2, AdvanceKeeps
<1>6. ASSUME NEW p \in Runs, AnswerForm(p) PROVE BrowserFit'
  <2>1. PICK answers \in [QuestionsOf(site) -> AllAnswers] :
          Advance(p, [command[p] EXCEPT !.at = "fill", !.answers = answers])
    BY <1>6 DEF AnswerForm, AllAnswers
  <2>2. answers \in AnswerMaps
    BY <1>0, <2>1 DEF AnswerMaps, BrowserTypes
  <2> DEFINE c == [command[p] EXCEPT !.at = "fill", !.answers = answers]
  <2>3. c \in CommandStates /\ c.approval = command[p].approval
    BY <1>2, <2>2 DEF CommandStates, CommandSteps
  <2>4. Advance(p, c) /\ UNCHANGED <<formApprovals, collided>>
    BY <1>6, <2>1 DEF AnswerForm
  <2> HIDE DEF c
  <2> QED  BY <1>0, <2>3, <2>4, AdvanceKeeps
<1>7. ASSUME NEW p \in Runs, FillForm(p) PROVE BrowserFit'
  <2> DEFINE s == PreparedState(site, command[p].answers, site.challenge # "no")
             c == [command[p] EXCEPT !.at = "filled", !.page = site, !.prepared = s]
  <2>1. s \in PreparedStates
    <3>1. (site.challenge # "no") \in BOOLEAN /\ site \in Pages /\ command[p].answers \in AnswerMaps
      BY <1>0, <1>2 DEF BrowserTypes, CommandStates
    <3> QED  BY <3>1, PreparedStateType, Zenon
  <2>2. Advance(p, c) /\ UNCHANGED <<formApprovals, collided>>
    BY <1>7 DEF FillForm
  <2> HIDE DEF s
  <2>3. c \in CommandStates /\ c.approval = command[p].approval
    BY <1>0, <1>2, <2>1 DEF CommandStates, CommandSteps, BrowserTypes
  <2> HIDE DEF c
  <2> QED  BY <1>0, <2>2, <2>3, AdvanceKeeps
<1>8. ASSUME NEW p \in Runs, CommandEnds(p) PROVE BrowserFit'
  BY <1>0, <1>1, <1>8, AdvanceKeeps DEF CommandEnds
<1>9. ASSUME NEW p \in Runs, ApproveForm(p) PROVE BrowserFit'
  <2>1. Advance(p, NoCommand) /\ UNCHANGED collided
    BY <1>9 DEF ApproveForm
  <2>2. Len(formApprovals') = Len(formApprovals) + 1
    BY <1>0, <1>9, ApproveTypes
  <2> QED  BY <1>0, <1>1, <2>1, <2>2, AdvanceKeeps
<1>10. ASSUME NEW p \in Runs, FindApproval(p) PROVE BrowserFit'
  <2>1. /\ UNCHANGED formApprovals /\ command'[p].approval \in Matching(p)
        /\ \A q \in Runs \ {p} : command'[q] = command[q]
        /\ collided' \subseteq collided \cup {command'[p].approval}
    BY <1>0, <1>10, FindTypes
  <2>2. command'[p].approval \in 1..Len(formApprovals)
    BY <1>0, <2>1 DEF Matching
  <2> QED  BY <1>0, <2>1, <2>2, BrowserFits
<1>11. ASSUME NEW p \in Runs, ConsumeApproval(p) PROVE BrowserFit'
  <2>1. command[p].approval \in DOMAIN formApprovals
    BY <1>0, <1>11 DEF FillInv, Waits, Pays, ConsumeApproval
  <2>2. Len(formApprovals') = Len(formApprovals)
    BY <1>0, <1>11, <2>1, ConsumeTypes
  <2>3. Advance(p, NoCommand) /\ UNCHANGED collided
    BY <1>11 DEF ConsumeApproval
  <2> QED  BY <1>0, <1>1, <2>2, <2>3, AdvanceKeeps
<1>12. ASSUME NEW k \in DOMAIN formApprovals, ApprovalEnds(k) PROVE BrowserFit'
  <2>1. Len(formApprovals') = Len(formApprovals) /\ UNCHANGED <<command, collided>>
    BY <1>0, <1>12, EndTypes
  <2> QED  BY <1>0, <2>1 DEF BrowserFit
<1>13. CASE SiteChanges \/ RowChanges \/ UNCHANGED browserVars
  <2>1. UNCHANGED <<formApprovals, command, collided>>
    BY <1>13 DEF SiteChanges, RowChanges, browserVars
  <2> QED  BY <1>0, <2>1 DEF BrowserFit
<1> QED
  BY <1>4, <1>5, <1>6, <1>7, <1>8, <1>9, <1>10, <1>11, <1>12, <1>13 DEF BrowserNext

-----------------------------------------------------------------------------
(* All of them, side by side. *)

TypesInv ==
  /\ WatchInv /\ ThreadTypeOK /\ DriveTypes /\ SheetInv /\ SignInInv /\ BackupTypeOK
  /\ OcrTypes /\ BatchFit /\ MatchTypes /\ AnswerTypes /\ BrowserFit /\ ReportInv

LEMMA TypesFit == TypesInv => ComponentsTypeOK
<1> SUFFICES ASSUME TypesInv PROVE ComponentsTypeOK
  OBVIOUS
<1>1. WatcherTypeOK /\ SheetTypeOK /\ SignInTypeOK /\ ProfileTypeOK
  BY DEF TypesInv, WatchInv, SheetInv, SignInInv, ReportInv
<1>2. DriveTypeOK /\ OcrTypeOK /\ BatchTypeOK /\ MatchingTypeOK /\ AnswerTypeOK /\ BrowserTypeOK
  BY DriveTypesFit, OcrTypesFit, BatchTypesFit, MatchTypesFit, AnswerTypesFit, BrowserTypesFit DEF TypesInv
<1> QED  BY <1>1, <1>2 DEF TypesInv, ComponentsTypeOK

LEMMA TypesInit == ComponentsInit => TypesInv
<1> SUFFICES ASSUME ComponentsInit PROVE TypesInv
  OBVIOUS
<1>1. WatchInv
  BY OnceInvInit DEF ComponentsInit, OnceInv
<1>2. SheetInv
  BY RowsInvInit DEF ComponentsInit, RowsInv
<1>3. OcrTypes
  BY OcrTypesInit, OcrTypesRest DEF ComponentsInit
<1>4. ThreadTypeOK /\ DriveTypes /\ SignInInv /\ BackupTypeOK
  BY ThreadTypeInit, DriveTypesInit, SignInInvInit, BackupTypeInit DEF ComponentsInit
<1>5. BatchFit /\ MatchTypes /\ AnswerTypes /\ BrowserFit /\ ReportInv
  BY BatchFitInit, MatchTypesInit, AnswerTypesInit, BrowserFitInit, ReportInvInit DEF ComponentsInit
<1> QED  BY <1>1, <1>2, <1>3, <1>4, <1>5 DEF TypesInv

\* A step is a step of every component, or leaves it as it is.
LEMMA StepsOfEach ==
  ASSUME [ComponentsNext]_componentsVars
  PROVE  /\ [DiscoveryNext]_discoveryVars /\ [DriveNext]_driveVars /\ [SheetNext]_sheetVars
         /\ [SignInNext]_signInVars /\ [BackupNext]_backupVars /\ [OcrNext]_ocrVars
         /\ [BatchNext]_batchVars /\ [MatchingNext]_matchingVars /\ [AnswerNext]_answerVars
         /\ [BrowserNext]_browserVars /\ [ProfileNext]_profileVars
<1>1. CASE UNCHANGED componentsVars
  BY <1>1 DEF componentsVars
<1>2. CASE ComponentsNext
  BY <1>2 DEF ComponentsNext, OthersRest, Rest
<1> QED  BY <1>1, <1>2

LEMMA TypesStep == TypesInv /\ [ComponentsNext]_componentsVars => TypesInv'
<1> SUFFICES ASSUME TypesInv, [ComponentsNext]_componentsVars PROVE TypesInv'
  OBVIOUS
<1>1. /\ [DiscoveryNext]_discoveryVars /\ [DriveNext]_driveVars /\ [SheetNext]_sheetVars
      /\ [SignInNext]_signInVars /\ [BackupNext]_backupVars /\ [OcrNext]_ocrVars
      /\ [BatchNext]_batchVars /\ [MatchingNext]_matchingVars /\ [AnswerNext]_answerVars
      /\ [BrowserNext]_browserVars /\ [ProfileNext]_profileVars
  BY StepsOfEach
<1>2. WatchInv' /\ ThreadTypeOK' /\ DriveTypes'
  BY <1>1, WatchInvStep, ThreadTypeStep, DriveTypesStep DEF TypesInv
<1>3. SheetInv' /\ SignInInv' /\ BackupTypeOK' /\ OcrTypes'
  BY <1>1, SheetInvStep, SignInInvStep, BackupTypeStep, OcrTypesStep DEF TypesInv
<1>4. BatchFit' /\ MatchTypes' /\ AnswerTypes'
  BY <1>1, BatchFitStep, MatchTypesStep, AnswerTypesStep DEF TypesInv
<1>5. BrowserFit' /\ ReportInv'
  BY <1>1, BrowserFitStep, ReportInvStep DEF TypesInv
<1> QED  BY <1>2, <1>3, <1>4, <1>5 DEF TypesInv

\* Every variable of every component holds what it is meant to hold: no index
\* points beyond its table (a job saved by scan_company, an approval that a fill is
\* recorded for, a folder that _resolve_folder has found), no score leaves its scale
\* (combine_match), no answer of AnswerEngine lacks its source, and no file name
\* of create_backup is later than its clock.
THEOREM ComponentsAreTyped == ComponentsSpec => []ComponentsTypeOK
<1> QED  BY TypesFit, TypesInit, TypesStep, PTL DEF ComponentsSpec
=============================================================================
