----------------------------- MODULE DriveFolders -----------------------------
(***************************************************************************)
(* The folders that several installations share on one Google Drive        *)
(* (services/drive/drive_client.py): a folder per day under the root, and  *)
(* in it a folder per device.  Drive has no "create if absent", so that    *)
(* two installations may create a folder twice; each looks again after it  *)
(* has created one, and clears the duplicates away.                        *)
(*                                                                         *)
(* One day and one device.  The place of a folder in the sequence stands   *)
(* for its createdTime and its id.  That a folder in the trash still       *)
(* answers files.get, takes uploads and hides what is in it from a query   *)
(* with "trashed = false" is the behaviour of Drive.                       *)
(***************************************************************************)
EXTENDS Integers, Sequences, FiniteSets, FiniteSetsExt

CONSTANTS
  Installations,  \* the copies of the application
  MaxUploads,     \* bound: videos for which a folder is asked
  MaxDriveFaults, \* bound: calls that fail, and installations that crash
  MaxUserActs     \* bound: folders a person trashes, or deletes for good

ASSUME DriveAssumption == {MaxUploads, MaxDriveFaults, MaxUserActs} \subseteq Nat

VARIABLES
  folders,     \* the folders, in the order of their creation
  cached,      \* cached[i]: drive_folder_cache of installation i, by level; 0: no row
  call,        \* call[i]: the call in progress
  asked, driveFaults, userActs   \* what the bounds count

driveBounds == <<asked, driveFaults, userActs>>
driveVars   == <<folders, cached, call, driveBounds>>

Root   == 0
Levels == {"date", "device"}

\* level and parent: the folder looked for; made: the one this call has created;
\* target: the one it has chosen; losers: the duplicates it has yet to clear.
NoCall == [at |-> "idle", level |-> "device", parent |-> Root, made |-> 0,
           target |-> 0, losers |-> {}]

DriveTypeOK ==
  /\ \A k \in DOMAIN folders :
        folders[k] \in [level : Levels, parent : 0..Len(folders),
                        state : {"live", "trashed", "deleted"}, files : 0..MaxUploads]
  /\ cached \in [Installations -> [Levels -> 0..Len(folders)]]
  /\ call \in [Installations ->
       [at : {"idle", "lookup", "list", "create", "relist", "resolve", "trash", "upload"},
        level : Levels, parent : 0..Len(folders), made : 0..Len(folders),
        target : 0..Len(folders), losers : SUBSET DOMAIN folders]]
  /\ asked \in 0..MaxUploads /\ driveFaults \in 0..MaxDriveFaults /\ userActs \in 0..MaxUserActs

DriveInit ==
  /\ folders = <<>>
  /\ cached = [i \in Installations |-> [l \in Levels |-> 0]]
  /\ call = [i \in Installations |-> NoCall]
  /\ asked = 0 /\ driveFaults = 0 /\ userActs = 0

-----------------------------------------------------------------------------

\* What a query with "trashed = false" sees.
Visible(k) ==
  /\ folders[k].state = "live"
  /\ folders[k].parent # Root => folders[folders[k].parent].state = "live"

\* _list_folders_by_name.
Named(level, parent) ==
  {k \in DOMAIN folders : folders[k].level = level /\ folders[k].parent = parent /\ Visible(k)}

HasChildren(k) ==
  \/ folders[k].files > 0
  \/ \E c \in DOMAIN folders : folders[c].parent = k /\ Visible(c)

Go(i, c) == call' = [call EXCEPT ![i] = c]

Stay(i, at) == Go(i, [call[i] EXCEPT !.at = at])

\* The folder of a level is known: the cache row is written; the day's folder
\* leads on to the device's, the device's to the upload.
Found(i, k) ==
  /\ cached' = [cached EXCEPT ![i][call[i].level] = k]
  /\ Go(i, IF call[i].level = "date" THEN [NoCall EXCEPT !.at = "list", !.parent = k]
           ELSE [NoCall EXCEPT !.at = "upload", !.target = k])

-----------------------------------------------------------------------------
(* get_or_create_device_folder and get_or_create_date_folder. *)

AskFolder(i) ==
  /\ call[i].at = "idle" /\ asked < MaxUploads
  /\ Stay(i, "lookup")
  /\ asked' = asked + 1
  /\ UNCHANGED <<folders, cached, driveFaults, userActs>>

\* Only a 404 tells that a cached folder is gone.
Usable(k) == IF k = 0 THEN FALSE ELSE folders[k].state # "deleted"

UseCached(i) ==
  /\ call[i].at = "lookup" /\ Usable(cached[i][call[i].level])
  /\ Found(i, cached[i][call[i].level])
  /\ UNCHANGED <<folders, driveBounds>>

\* No row, or one that is evicted: the device's folder needs the day's first.
Miss(i) ==
  /\ call[i].at = "lookup" /\ ~Usable(cached[i][call[i].level])
  /\ cached' = [cached EXCEPT ![i][call[i].level] = 0]
  /\ Go(i, IF call[i].level = "device" THEN [call[i] EXCEPT !.level = "date"]
           ELSE [call[i] EXCEPT !.at = "list"])
  /\ UNCHANGED <<folders, driveBounds>>

-----------------------------------------------------------------------------
(* _find_or_create_folder. *)

MutantResolve(i, found) ==
  /\ Go(i, [call[i] EXCEPT !.at = "resolve", !.target = Max(found), !.losers = found \ {Max(found)}])
  /\ UNCHANGED cached

\* The oldest is the one that everybody keeps.
Resolve(i, found) ==
  /\ Go(i, [call[i] EXCEPT !.at = "resolve", !.target = Min(found), !.losers = found \ {Min(found)}])
  /\ UNCHANGED cached

ListFolders(i) ==
  /\ call[i].at = "list"
  /\ LET found == Named(call[i].level, call[i].parent)
     IN CASE found = {}              -> Stay(i, "create") /\ UNCHANGED cached
          [] Cardinality(found) = 1  -> Found(i, Min(found))
          [] OTHER                   -> Resolve(i, found)
  /\ UNCHANGED <<folders, driveBounds>>

NewFolder(i) ==
  folders' = Append(folders, [level |-> call[i].level, parent |-> call[i].parent,
                              state |-> "live", files |-> 0])

CreateFolder(i) ==
  /\ call[i].at = "create"
  /\ NewFolder(i)
  /\ Go(i, [call[i] EXCEPT !.at = "relist", !.made = Len(folders) + 1])
  /\ UNCHANGED <<cached, driveBounds>>

\* The folder is made, but the answer is an error that is_transient_google_api_error
\* accepts: google_api_retry begins again with the listing.
CreateUnanswered(i) ==
  /\ call[i].at = "create" /\ driveFaults < MaxDriveFaults
  /\ NewFolder(i)
  /\ Stay(i, "list")
  /\ driveFaults' = driveFaults + 1
  /\ UNCHANGED <<cached, asked, userActs>>

MutantRelistFolders(i) ==
  /\ call[i].at = "relist"
  /\ Found(i, call[i].made)
  /\ UNCHANGED <<folders, driveBounds>>

\* The listing after the creation; a single folder in it need not be this one.
RelistFolders(i) ==
  /\ call[i].at = "relist"
  /\ LET found == Named(call[i].level, call[i].parent)
     IN IF Cardinality(found) > 1 THEN Resolve(i, found) ELSE Found(i, call[i].made)
  /\ UNCHANGED <<folders, driveBounds>>

-----------------------------------------------------------------------------
(* _resolve_duplicate_folders and _trash_empty_duplicate_folder. *)

DropLoser(i) == Go(i, [call[i] EXCEPT !.at = "resolve", !.losers = @ \ {Min(@)}])

\* A duplicate with something in it stays.
CheckLoser(i) ==
  /\ call[i].at = "resolve" /\ call[i].losers # {}
  /\ IF HasChildren(Min(call[i].losers)) THEN DropLoser(i) ELSE Stay(i, "trash")
  /\ UNCHANGED <<folders, cached, driveBounds>>

TrashLoser(i) ==
  /\ call[i].at = "trash"
  /\ LET k == Min(call[i].losers)
     IN folders' = [folders EXCEPT ![k].state = IF @ = "live" THEN "trashed" ELSE @]
  /\ DropLoser(i)
  /\ UNCHANGED <<cached, driveBounds>>

\* The clean-up is best effort.
CleanupFails(i) ==
  /\ call[i].at \in {"resolve", "trash"} /\ call[i].losers # {} /\ driveFaults < MaxDriveFaults
  /\ DropLoser(i)
  /\ driveFaults' = driveFaults + 1
  /\ UNCHANGED <<folders, cached, asked, userActs>>

Resolved(i) ==
  /\ call[i].at = "resolve" /\ call[i].losers = {}
  /\ Found(i, call[i].target)
  /\ UNCHANGED <<folders, driveBounds>>

-----------------------------------------------------------------------------

\* upload_file: 404 for a folder deleted for good; the trash takes the file.
UploadFile(i) ==
  /\ call[i].at = "upload"
  /\ LET k == call[i].target
     IN folders' = IF folders[k].state = "deleted" THEN folders
                   ELSE [folders EXCEPT ![k].files = @ + 1]
  /\ Go(i, NoCall)
  /\ UNCHANGED <<cached, driveBounds>>

\* The call raises for good, or the installation crashes: the cache stays.
CallEnds(i) ==
  /\ call[i].at # "idle" /\ driveFaults < MaxDriveFaults
  /\ Go(i, NoCall)
  /\ driveFaults' = driveFaults + 1
  /\ UNCHANGED <<folders, cached, asked, userActs>>

\* A person trashes a folder, or deletes it for good with all that is in it.
UserRemoves(k) ==
  /\ userActs < MaxUserActs
  /\ \E s \in {"trashed", "deleted"} \ {folders[k].state} :
        folders' = [c \in DOMAIN folders |->
          IF c = k \/ (s = "deleted" /\ folders[c].parent = k) THEN [folders[c] EXCEPT !.state = s]
          ELSE folders[c]]
  /\ userActs' = userActs + 1
  /\ UNCHANGED <<cached, call, asked, driveFaults>>

DriveNext ==
  \/ \E i \in Installations :
        \/ AskFolder(i) \/ UseCached(i) \/ Miss(i) \/ ListFolders(i) \/ CreateFolder(i)
        \/ CreateUnanswered(i) \/ RelistFolders(i) \/ CheckLoser(i) \/ TrashLoser(i)
        \/ CleanupFails(i) \/ Resolved(i) \/ UploadFile(i) \/ CallEnds(i)
  \/ \E k \in DOMAIN folders : UserRemoves(k)

DriveSpec == DriveInit /\ [][DriveNext]_driveVars

-----------------------------------------------------------------------------
(* Properties. *)

Undisturbed == driveFaults = 0 /\ userActs = 0

\* Clearing duplicates away never trashes a folder with something in it ("we
\* must never destroy someone's uploaded video"), as long as no person removes
\* the folder that everybody keeps: between the check and the trashing nobody
\* can be told to upload there.
NeverTrashesContent ==
  [][\A k \in DOMAIN folders :
       (folders'[k].state = "trashed" /\ folders[k].state = "live" /\ userActs' = 0)
         => /\ folders[k].files = 0
            /\ \A c \in DOMAIN folders : folders[c].parent = k => folders[c].state # "live"]_driveVars

\* Once every call is over, and none has failed, one visible folder is left of
\* each name, whoever created how many: the day's videos are not scattered.
OneVisibleFolder ==
  (Undisturbed /\ \A i \in Installations : call[i] = NoCall) =>
     \A level \in Levels, parent \in 0..Len(folders) : Cardinality(Named(level, parent)) <= 1

\* What the comment of _find_or_create_folder says ("all concurrent callers
\* converge on one folder", each trashing only "the folder it itself just
\* created"): a folder that an undisturbed call is given can be seen.
GivenFolderIsVisible ==
  Undisturbed => \A i \in Installations : call[i].at = "upload" => Visible(call[i].target)

=============================================================================
