--------------------- MODULE UploadPipelineDeliveryProofs ---------------------
(***************************************************************************)
(* What the pipeline says of a video is true, and it implements the        *)
(* delivery contract: IndexIsOnDrive, CompletedIsDelivered,                *)
(* DuplicateIsOnDrive and DeliversAsPromised, proved together, since a     *)
(* duplicate is recognised by an index that must be right.  Then what a    *)
(* row says of a job that waits, and of the file of a settled one          *)
(* (WaitingSurvivesRestart, SettledFileIsFound).                           *)
(***************************************************************************)
EXTENDS UploadPipelineProofs

Truthful == IndexIsOnDrive /\ CompletedIsDelivered /\ DuplicateIsOnDrive

DeliveryInv == RowsExist /\ AttemptsDeliver /\ Truthful

-----------------------------------------------------------------------------
\* What an attempt does to Drive, the sheet, the index and the disk.

Cloud(o) ==
  /\ drive \subseteq drive' /\ sheet \subseteq sheet'
  /\ hashes' = hashes \/ (hashes' = hashes \cup {Digest(o)} /\ OnDrive(Digest(o)))
  /\ \A j \in Jobs : disk'[j] = "absent" => disk[j] = "absent"
  /\ \/ UNCHANGED cloud
     \/ drive' = drive \cup {job[o]} /\ UNCHANGED <<sheet, db>>
     \/ job[o] \in drive /\ sheet' = sheet \cup {job[o]} /\ UNCHANGED <<drive, db>>

\* Drive and the sheet only grow, one at a time; a digest is indexed when it is
\* on Drive, and a video listed when it is.
LEMMA AttemptCloud ==
  ASSUME TypeInv, AttemptsDeliver, NEW o \in Objects, Attempt(o)
  PROVE  Cloud(o)
<1>a. /\ pc[o] = "record" => OnDrive(Digest(o))
      /\ pc[o] = "sheet" => job[o] \in drive
  BY DEF AttemptsDeliver, Live, OnDrive, Digest
<1> USE DEF Cloud, TypeInv, TypeOK, cloud
<1>1. CASE Stabilize(o)
  BY <1>1 DEF Stabilize
<1>2. CASE HashFile(o)
  BY <1>2 DEF HashFile
<1>3. CASE HashUnchecked(o)
  BY <1>3 DEF HashUnchecked, BeginExtraction
<1>4. CASE FindOnDrive(o)
  BY <1>4 DEF FindOnDrive
<1>5. CASE NotFoundOnDrive(o)
  BY <1>5 DEF NotFoundOnDrive
<1>6. CASE SkipDuplicate(o)
  BY <1>6 DEF SkipDuplicate, Move, Folders
<1>7. CASE ClaimHash(o)
  BY <1>7 DEF ClaimHash, BeginExtraction
<1>8. CASE LoseClaim(o)
  BY <1>8 DEF LoseClaim
<1>9. CASE ReadDeviceId(o)
  BY <1>9 DEF ReadDeviceId
<1>10. CASE SendToReview(o)
  BY <1>10 DEF SendToReview, Move, Folders
<1>11. CASE CannotReadVideo(o)
  BY <1>11 DEF CannotReadVideo
<1>12. CASE UploadFile(o)
  BY <1>12 DEF UploadFile
<1>13. CASE RecordUpload(o)
  BY <1>13, <1>a DEF RecordUpload
<1>14. CASE UpdateSheet(o)
  BY <1>14, <1>a DEF UpdateSheet
<1>15. CASE Complete(o)
  BY <1>15 DEF Complete, Move, Folders
<1>16. CASE StepFails(o)
  BY <1>16 DEF StepFails
<1>17. CASE AnswerLost(o)
  BY <1>17, <1>a DEF AnswerLost
<1>18. CASE MoveAside(o)
  BY <1>18 DEF MoveAside, Move, Folders
<1>19. CASE Finalize(o)
  BY <1>19 DEF Finalize
<1>20. CASE AppendLog(o)
  BY <1>20 DEF AppendLog, Release
<1> QED  BY <1>1, <1>2, <1>3, <1>4, <1>5, <1>6, <1>7, <1>8, <1>9, <1>10,
             <1>11, <1>12, <1>13, <1>14, <1>15, <1>16, <1>17, <1>18, <1>19,
             <1>20 DEF Attempt

Place(o) ==
  /\ pc'[o] = "dup" => OnDrive(Digest(o))
  /\ pc'[o] \in {"record", "sheet", "complete"} => job[o] \in drive'
  /\ pc'[o] = "complete" => (SheetConfigured => job[o] \in sheet')

\* Nobody gets past a step of an attempt that has not had its effect.
LEMMA AttemptPlace ==
  ASSUME TypeInv, AttemptsDeliver, IndexIsOnDrive, NEW o \in Objects, Attempt(o)
  PROVE  Place(o)
<1>a. pc[o] \in {"record", "sheet", "complete"} => job[o] \in drive
  BY DEF AttemptsDeliver, Live
<1>b. Digest(o) \in hashes => OnDrive(Digest(o))
  BY DEF IndexIsOnDrive
<1> USE DEF Place, TypeInv, TypeOK, Goto, cloud
<1>1. CASE Stabilize(o)
  BY <1>1 DEF Stabilize
<1>2. CASE HashFile(o)
  BY <1>2, <1>b DEF HashFile
<1>3. CASE HashUnchecked(o)
  BY <1>3 DEF HashUnchecked
<1>4. CASE FindOnDrive(o)
  BY <1>4 DEF FindOnDrive
<1>5. CASE NotFoundOnDrive(o)
  BY <1>5 DEF NotFoundOnDrive
<1>6. CASE SkipDuplicate(o)
  BY <1>6 DEF SkipDuplicate
<1>7. CASE ClaimHash(o)
  BY <1>7 DEF ClaimHash
<1>8. CASE LoseClaim(o)
  BY <1>8 DEF LoseClaim
<1>9. CASE ReadDeviceId(o)
  BY <1>9 DEF ReadDeviceId
<1>10. CASE SendToReview(o)
  BY <1>10 DEF SendToReview
<1>11. CASE CannotReadVideo(o)
  BY <1>11 DEF CannotReadVideo
<1>12. CASE UploadFile(o)
  BY <1>12 DEF UploadFile
<1>13. CASE RecordUpload(o)
  BY <1>13, <1>a DEF RecordUpload
<1>14. CASE UpdateSheet(o)
  BY <1>14, <1>a DEF UpdateSheet
<1>15. CASE Complete(o)
  BY <1>15 DEF Complete
<1>16. CASE StepFails(o)
  BY <1>16 DEF StepFails
<1>17. CASE AnswerLost(o)
  BY <1>17 DEF AnswerLost
<1>18. CASE MoveAside(o)
  BY <1>18 DEF MoveAside
<1>19. CASE Finalize(o)
  BY <1>19 DEF Finalize
<1>20. CASE AppendLog(o)
  BY <1>20 DEF AppendLog
<1> QED  BY <1>1, <1>2, <1>3, <1>4, <1>5, <1>6, <1>7, <1>8, <1>9, <1>10,
             <1>11, <1>12, <1>13, <1>14, <1>15, <1>16, <1>17, <1>18, <1>19,
             <1>20 DEF Attempt

Says(o) ==
  \/ mem'[o].status = mem[o].status
  \/ mem'[o].status \notin Done
  \/ pc[o] = "dup" /\ mem'[o].status = "DUPLICATE"
  \/ pc[o] = "complete" /\ mem'[o].status = "COMPLETED"

\* A good result is said only by the two steps that establish it.
LEMMA AttemptSays ==
  ASSUME TypeInv, NEW o \in Objects, Attempt(o)
  PROVE  Says(o)
<1>a. \A s \in Statuses : Status(o, s).status = s
  BY StatusRow DEF TypeInv, Becomes
<1>b. \A s \in Statuses, f \in Folders : [Status(o, s) EXCEPT !.path = f].status = s
  BY StatusPathRow DEF TypeInv, Becomes
<1>c. [mem[o] EXCEPT !.hashed = TRUE].status = mem[o].status
  BY DEF TypeInv, TypeOK, Rows
<1>d. /\ \A f \in Folders : [mem[o] EXCEPT !.path = f].status = mem[o].status
      /\ [mem[o] EXCEPT !.status = "EXTRACTING"].status = "EXTRACTING"
      /\ [[mem[o] EXCEPT !.hashed = TRUE] EXCEPT !.status = "EXTRACTING"].status = "EXTRACTING"
  BY DEF TypeInv, TypeOK, Rows
<1> USE DEF Says, TypeInv, TypeOK, Save
<1>1. CASE Stabilize(o)
  BY <1>1, <1>a DEF Stabilize, Statuses, Active, Terminal, Done
<1>2. CASE HashFile(o)
  BY <1>2, <1>c DEF HashFile
<1>3. CASE HashUnchecked(o)
  BY <1>3, <1>a, <1>c, <1>d DEF HashUnchecked, BeginExtraction, Statuses, Active, Terminal, Done
<1>4. CASE FindOnDrive(o)
  BY <1>4 DEF FindOnDrive
<1>5. CASE NotFoundOnDrive(o)
  BY <1>5 DEF NotFoundOnDrive
<1>6. CASE SkipDuplicate(o)
  BY <1>6, <1>b DEF SkipDuplicate, Move, Folders, Statuses, Active, Terminal, Done
<1>7. CASE ClaimHash(o)
  BY <1>7, <1>a, <1>c, <1>d DEF ClaimHash, BeginExtraction, Statuses, Active, Terminal, Done
<1>8. CASE LoseClaim(o)
  BY <1>8, <1>a DEF LoseClaim, Statuses, Active, Terminal, Done
<1>9. CASE ReadDeviceId(o)
  BY <1>9, <1>a DEF ReadDeviceId, Statuses, Active, Terminal, Done
<1>10. CASE SendToReview(o)
  BY <1>10, <1>b DEF SendToReview, Move, Folders, Statuses, Active, Terminal, Done
<1>11. CASE CannotReadVideo(o)
  BY <1>11, <1>a DEF CannotReadVideo, Statuses, Active, Terminal, Done
<1>12. CASE UploadFile(o)
  BY <1>12 DEF UploadFile
<1>13. CASE RecordUpload(o)
  BY <1>13, <1>a DEF RecordUpload, Statuses, Active, Terminal, Done
<1>14. CASE UpdateSheet(o)
  BY <1>14 DEF UpdateSheet
<1>15. CASE Complete(o)
  BY <1>15, <1>b DEF Complete, Move, Folders, Statuses, Active, Terminal, Done
<1>16. CASE StepFails(o)
  BY <1>16, <1>a DEF StepFails, Statuses, Active, Terminal, Done
<1>17. CASE AnswerLost(o)
  BY <1>17, <1>a DEF AnswerLost, Statuses, Active, Terminal, Done
<1>18. CASE MoveAside(o)
  BY <1>18, <1>d DEF MoveAside, Move, Folders
<1>19. CASE Finalize(o)
  BY <1>19 DEF Finalize
<1>20. CASE AppendLog(o)
  BY <1>20 DEF AppendLog, Release
<1> QED  BY <1>1, <1>2, <1>3, <1>4, <1>5, <1>6, <1>7, <1>8, <1>9, <1>10,
             <1>11, <1>12, <1>13, <1>14, <1>15, <1>16, <1>17, <1>18, <1>19,
             <1>20 DEF Attempt

\* Hence an attempt keeps the truth.
LEMMA AttemptDelivery ==
  ASSUME TypeInv, DeliveryInv, NEW o \in Objects, Attempt(o)
  PROVE  DeliveryInv'
<1>1. /\ Frame(o) /\ RowWrite(o) /\ Result(o) /\ Cloud(o) /\ Place(o) /\ Says(o)
  BY AttemptFrame, AttemptRow, AttemptResult, AttemptCloud, AttemptPlace, AttemptSays
  DEF TypeInv, DeliveryInv, Truthful
<1>2. TypeInv'
  BY AttemptType
<1>3. Live(o) /\ job[o] \in Jobs
  BY <1>1 DEF Result, Attempting, Settling, Settled, TypeInv, ObjectsOK, Live
<1>4. /\ job' = job /\ backlog' = backlog
      /\ \A p \in Objects \ {o} : pc'[p] = pc[p] /\ mem'[p] = mem[p]
      /\ \A j \in Jobs : db'[j] = db[j] \/ (j = job[o] /\ db'[j] = mem'[o])
  BY <1>1, <1>3 DEF Frame, RowWrite, TypeInv, TypeOK, pool
<1>5. mem'[o].status # "ABSENT"
  BY <1>1 DEF Result, Statuses, Active, Terminal, Done
<1>6. RowsExist'
  <2>1. \A j \in Jobs : db'[j].status = "ABSENT" => db[j].status = "ABSENT"
    BY <1>4, <1>5
  <2>2. \A p \in Objects : Live(p)' => Live(p) /\ job'[p] = job[p] /\ job[p] \in Jobs
    BY <1>3, <1>4 DEF Live, TypeInv, ObjectsOK
  <2>3. \A j \in Jobs : disk'[j] = "absent" => disk[j] = "absent" /\ db'[j] = db[j]
    BY <1>1, <1>3, <1>4 DEF Cloud, DeliveryInv, RowsExist
  <2> QED  BY <1>4, <2>1, <2>2, <2>3, ZenonT(40) DEF DeliveryInv, RowsExist, TypeInv, TypeOK
<1>7. /\ \A j : Delivered(j) => Delivered(j)'
      /\ \A c : OnDrive(c) => OnDrive(c)'
  BY <1>1 DEF Cloud, Delivered, OnDrive
<1>8. AttemptsDeliver'
  <2>1. ASSUME NEW p \in Objects \ {o}, Live(p)'
        PROVE  /\ pc'[p] \in {"record", "sheet", "complete"} => job'[p] \in drive'
               /\ pc'[p] = "complete" => Delivered(job[p])'
               /\ mem'[p].status = "COMPLETED" => Delivered(job[p])'
               /\ pc'[p] = "dup" \/ mem'[p].status = "DUPLICATE" => OnDrive(Digest(p))'
    BY <1>1, <1>4, <1>7, <2>1 DEF DeliveryInv, AttemptsDeliver, Live, Digest, Cloud
  <2>2. pc'[o] \in {"record", "sheet", "complete"} => job'[o] \in drive'
    BY <1>1, <1>4 DEF Place
  <2>3. pc'[o] = "complete" => Delivered(job[o])'
    BY <1>1, <1>4 DEF Place, Delivered
  <2>4. mem'[o].status = "COMPLETED" => Delivered(job[o])'
    BY <1>1, <1>3, <1>4, <1>7 DEF Says, Done, DeliveryInv, AttemptsDeliver
  <2>5. pc'[o] = "dup" \/ mem'[o].status = "DUPLICATE" => OnDrive(Digest(o))'
    <3>1. pc'[o] = "dup" \/ mem'[o].status = "DUPLICATE" => OnDrive(Digest(o))
      BY <1>1, <1>3 DEF Place, Says, Done, DeliveryInv, AttemptsDeliver
    <3>2. Digest(o)' = Digest(o)
      BY <1>4 DEF Digest
    <3> QED  BY <1>7, <3>1, <3>2
  <2> QED  BY <2>1, <2>2, <2>3, <2>4, <2>5 DEF AttemptsDeliver
<1>9. Truthful'
  <2>1. IndexIsOnDrive'
    BY <1>1, <1>7 DEF Cloud, DeliveryInv, Truthful, IndexIsOnDrive
  <2>2. Live(o)' /\ job'[o] = job[o]
    BY <1>1, <1>4 DEF Result, Attempting, Settling, Settled, Live
  <2>3. /\ mem'[o].status = "COMPLETED" => Delivered(job[o])'
        /\ mem'[o].status = "DUPLICATE" => OnDrive(Content[job[o]])'
    BY <1>8, <2>2 DEF AttemptsDeliver, Digest
  <2>4. CompletedIsDelivered'
    BY <1>4, <1>7, <2>3 DEF DeliveryInv, Truthful, CompletedIsDelivered
  <2>5. DuplicateIsOnDrive'
    BY <1>4, <1>7, <2>3 DEF DeliveryInv, Truthful, DuplicateIsOnDrive
  <2> QED  BY <2>1, <2>4, <2>5 DEF Truthful
<1> QED  BY <1>6, <1>8, <1>9 DEF DeliveryInv

-----------------------------------------------------------------------------
\* The other steps do nothing at Drive and say nothing new.

Quiet ==
  /\ UNCHANGED <<drive, sheet, hashes>>
  /\ \A p \in Objects : pc'[p] # "free" =>
       /\ db'[job'[p]].status # "ABSENT"
       /\ mem'[p].status \in Done =>
            Live(p) /\ job'[p] = job[p] /\ mem'[p].status = mem[p].status
       /\ pc'[p] \in {"dup", "record", "sheet", "complete"} =>
            Live(p) /\ job'[p] = job[p] /\ pc'[p] = pc[p]
  /\ \A j \in Jobs : db'[j].status \in Done => db'[j].status = db[j].status
  /\ \A j \in Jobs : disk'[j] = "absent" => disk[j] = "absent" /\ db'[j] = db[j]
  /\ \A j \in backlog' : db'[j].status # "ABSENT"

\* A quiet step keeps the truth.
LEMMA QuietDelivery ==
  ASSUME TypeInv, DeliveryInv, Quiet
  PROVE  DeliveryInv'
<1>1. RowsExist'
  BY DEF Quiet, DeliveryInv, RowsExist, Live
<1>2. AttemptsDeliver'
  <2>1. ASSUME NEW p \in Objects, Live(p)'
        PROVE  /\ pc'[p] \in {"record", "sheet", "complete"} => job'[p] \in drive'
               /\ pc'[p] = "complete" => Delivered(job[p])'
               /\ mem'[p].status = "COMPLETED" => Delivered(job[p])'
               /\ pc'[p] = "dup" \/ mem'[p].status = "DUPLICATE" => OnDrive(Digest(p))'
    BY <2>1 DEF Quiet, Done, DeliveryInv, AttemptsDeliver, Live, Delivered, OnDrive, Digest
  <2> QED  BY <2>1 DEF AttemptsDeliver
<1>3. Truthful'
  BY DEF Quiet, Done, DeliveryInv, Truthful, IndexIsOnDrive, CompletedIsDelivered, DuplicateIsOnDrive,
     Delivered, OnDrive
<1> QED  BY <1>1, <1>2, <1>3 DEF DeliveryInv

\* Every step but those of an attempt is quiet.
LEMMA OthersQuiet ==
  ASSUME TypeInv, DeliveryInv, Next, \A o \in Objects : ~Attempt(o)
  PROVE  Quiet
<1>a. /\ \A s \in Statuses \cup NoRow : Blank(s).status = s
      /\ "DISCOVERED" \in Statuses /\ "ABSENT" \in NoRow /\ "PRUNED" \in NoRow
  BY BlankRow DEF Statuses, Active, NoRow
<1>b. /\ \A p \in Objects : Live(p) =>
           job[p] \in Jobs /\ db[job[p]].status # "ABSENT" /\ mem[p].status # "ABSENT"
      /\ \A j \in Jobs : disk[j] = "absent" => db[j].status = "ABSENT"
      /\ \A j \in backlog : db[j].status # "ABSENT"
  BY DEF DeliveryInv, RowsExist, TypeInv, ObjectsOK, Live, Active, Terminal, Done
<1>c. /\ "QUEUED" \notin Done /\ "QUEUED" # "ABSENT"
      /\ "DISCOVERED" \notin Done /\ "FAILED" \notin Done /\ "PRUNED" \notin Done /\ "ABSENT" \notin Done
  BY DEF Done
<1>d. ASSUME NEW j \in Jobs, db'[j].status \notin Done, db'[j].status # "ABSENT",
             \A k \in Jobs \ {j} : db'[k] = db[k]
      PROVE  /\ \A k \in Jobs : db'[k].status \in Done => db'[k].status = db[k].status
             /\ \A k \in Jobs : db[k].status # "ABSENT" => db'[k].status # "ABSENT"
  BY <1>d
<1>e. backlog \subseteq Jobs
  BY DEF TypeInv, TypeOK
<1>1. ASSUME NEW j \in Jobs, Discover(j) PROVE Quiet
  <2>1. PICK o \in Objects : /\ pc[o] = "free"
                             /\ Goto(o, "sched")
                             /\ job' = [job EXCEPT ![o] = j]
                             /\ mem' = [mem EXCEPT ![o] = Blank("DISCOVERED")]
    BY <1>1 DEF Discover
  <2>2. /\ pc'[o] = "sched" /\ mem'[o].status = "DISCOVERED" /\ job'[o] = j
        /\ \A p \in Objects \ {o} : pc'[p] = pc[p] /\ mem'[p] = mem[p] /\ job'[p] = job[p]
    BY <1>a, <2>1 DEF Goto, TypeInv, TypeOK
  <2>3. /\ db'[j].status = "DISCOVERED" /\ \A k \in Jobs \ {j} : db'[k] = db[k]
        /\ disk'[j] = "watch" /\ \A k \in Jobs \ {j} : disk'[k] = disk[k]
        /\ UNCHANGED <<backlog, drive, sheet, hashes>>
    BY <1>1, <1>a DEF Discover, TypeInv, TypeOK, pool, cloud
  <2>4. /\ \A k \in Jobs : db'[k].status \in Done => db'[k].status = db[k].status
        /\ \A k \in Jobs : db[k].status # "ABSENT" => db'[k].status # "ABSENT"
    BY <1>c, <1>d, <2>3
  <2> QED  BY <1>b, <1>c, <1>e, <2>2, <2>3, <2>4 DEF Quiet, Live
<1>2. ASSUME NEW o \in Objects, NEW row, row.status = "QUEUED", Live(o),
             NEW place \in Waiting \cup {"stabilize"},
             Save(o, row), Goto(o, place), UNCHANGED <<backlog, job, disk, drive, sheet, hashes>>
      PROVE  Quiet
  <2>1. /\ pc'[o] = place /\ mem'[o].status = "QUEUED"
        /\ \A p \in Objects \ {o} : pc'[p] = pc[p] /\ mem'[p] = mem[p]
    BY <1>2 DEF Save, Goto, TypeInv, TypeOK
  <2>2. /\ job[o] \in Jobs /\ db'[job[o]].status = "QUEUED"
        /\ \A k \in Jobs \ {job[o]} : db'[k] = db[k]
    BY <1>b, <1>2 DEF Save, TypeInv, TypeOK
  <2>3. place \notin {"free", "dup", "record", "sheet", "complete"}
    BY DEF Waiting
  <2>4. \A j \in Jobs : disk[j] = "absent" => j # job[o]
    BY <1>b, <1>2
  <2>5. /\ \A k \in Jobs : db'[k].status \in Done => db'[k].status = db[k].status
        /\ \A k \in Jobs : db[k].status # "ABSENT" => db'[k].status # "ABSENT"
    BY <1>c, <1>d, <2>2
  <2> QED  BY <1>b, <1>c, <1>e, <1>2, <2>1, <2>2, <2>3, <2>4, <2>5 DEF Quiet, Live
<1>3. ASSUME NEW o \in Objects, Drop(o), UNCHANGED <<backlog, db, disk, drive, sheet, hashes>>
      PROVE  Quiet
  <2>1. /\ pc'[o] = "free"
        /\ \A p \in Objects \ {o} : pc'[p] = pc[p] /\ mem'[p] = mem[p] /\ job'[p] = job[p]
    BY <1>3 DEF Drop, TypeInv, TypeOK
  <2> QED  BY <1>b, <1>3, <2>1 DEF Quiet, Live
<1>4. ASSUME NEW o \in Objects, Loop(o) PROVE Quiet
  <2>a. Status(o, "QUEUED").status = "QUEUED"
    BY StatusRow DEF TypeInv, Statuses, Active, Becomes
  <2>1. CASE Enqueue(o)
    BY <1>2, <2>1, <2>a DEF Enqueue, Live, Waiting, pool, cloud
  <2>2. CASE TakeJob(o)
    <3> DEFINE row == [Status(o, "QUEUED") EXCEPT !.attempts = @ + 1]
    <3>1. row.status = "QUEUED"
      BY <2>a, StatusRow DEF TypeInv, Statuses, Active, Becomes, Rows
    <3>2. Save(o, row) /\ Goto(o, "stabilize") /\ Live(o) /\ UNCHANGED <<backlog, job, disk, drive, sheet, hashes>>
      BY <2>2 DEF TakeJob, Live, cloud
    <3> HIDE DEF row
    <3> QED  BY <1>2, <3>1, <3>2
  <2>3. CASE Report(o)
    BY <1>3, <2>3 DEF Report, WorkerIdle, cloud
  <2>4. CASE ScheduleRetry(o)
    BY <1>2, <2>4, <2>a DEF ScheduleRetry, WorkerIdle, Live, Waiting, cloud
  <2>5. CASE Requeue(o)
    <3>1. pc'[o] = "queued" /\ \A p \in Objects \ {o} : pc'[p] = pc[p]
      BY <2>5 DEF Requeue, Goto, TypeInv, TypeOK
    <3>2. Live(o) /\ UNCHANGED <<backlog, job, mem, db, disk, drive, sheet, hashes>>
      BY <2>5 DEF Requeue, Live, pool, cloud
    <3> QED  BY <1>b, <3>1, <3>2 DEF Quiet, Live
  <2>6. CASE Abandon(o)
    BY <1>3, <2>6 DEF Abandon, pool, cloud
  <2> QED  BY <1>4, <2>1, <2>2, <2>3, <2>4, <2>5, <2>6 DEF Loop
<1>5. ASSUME NEW o \in Objects, DbWriteFails(o) PROVE Quiet
  <2>a. UNCHANGED <<backlog, db, disk, drive, sheet, hashes>>
    BY <1>5 DEF DbWriteFails, cloud
  <2>1. CASE pc[o] \in {"finalize", "log"}
    <3>1. /\ mem' = [mem EXCEPT ![o] = Status(o, "FAILED")] /\ Goto(o, "failing") /\ job' = job
      BY <1>5, <2>1 DEF DbWriteFails
    <3>2. Status(o, "FAILED").status = "FAILED"
      BY StatusRow DEF TypeInv, Statuses, Terminal, Becomes
    <3>3. /\ pc'[o] = "failing" /\ mem'[o].status = "FAILED"
          /\ \A p \in Objects \ {o} : pc'[p] = pc[p] /\ mem'[p] = mem[p]
      BY <3>1, <3>2 DEF Goto, TypeInv, TypeOK
    <3> QED  BY <1>b, <1>c, <2>a, <2>1, <3>1, <3>3 DEF Quiet, Live
  <2>2. CASE pc[o] \in {"failsave", "faillog", "returned"}
    BY <1>3, <1>5, <2>a, <2>2 DEF DbWriteFails
  <2> QED  BY <1>5, <2>1, <2>2 DEF DbWriteFails
<1>6. ASSUME NEW o \in Objects, NEW j \in Jobs, NEW row, row.status = "QUEUED", disk[j] # "absent",
             EnqueueNew(o, j, row), backlog' \subseteq backlog, UNCHANGED <<disk, drive, sheet, hashes>>
      PROVE  Quiet
  <2>1. /\ pc'[o] = "queued" /\ mem'[o].status = "QUEUED" /\ job'[o] = j
        /\ \A p \in Objects \ {o} : pc'[p] = pc[p] /\ mem'[p] = mem[p] /\ job'[p] = job[p]
    BY <1>6 DEF EnqueueNew, TypeInv, TypeOK
  <2>2. db'[j].status = "QUEUED" /\ \A k \in Jobs \ {j} : db'[k] = db[k]
    BY <1>6 DEF EnqueueNew, TypeInv, TypeOK
  <2>3. /\ \A k \in Jobs : db'[k].status \in Done => db'[k].status = db[k].status
        /\ \A k \in Jobs : db[k].status # "ABSENT" => db'[k].status # "ABSENT"
    BY <1>c, <1>d, <2>2
  <2> QED  BY <1>b, <1>c, <1>e, <1>6, <2>1, <2>2, <2>3 DEF Quiet, Live
<1>7. \A j \in Jobs : db[j].path # "absent"
  BY DEF TypeInv, TypeOK, Rows, Folders
<1>8. CASE Operator
  <2>a. \A j \in Jobs : db[j] \in Rows
    BY DEF TypeInv, TypeOK
  <2>1. ASSUME NEW j \in Jobs, RetryJob(j) PROVE Quiet
    <3>1. PICK o \in Objects : EnqueueNew(o, j, [db[j] EXCEPT !.status = "QUEUED", !.attempts = 0])
      BY <2>1 DEF RetryJob
    <3>2. disk[j] # "absent" /\ UNCHANGED <<backlog, disk, drive, sheet, hashes>>
      BY <1>7, <2>1 DEF RetryJob, pool, cloud
    <3> QED  BY <1>6, <2>a, <3>1, <3>2, FreshRow
  <2>2. ASSUME NEW j \in Jobs, ResolveNeedsReview(j) PROVE Quiet
    <3>1. PICK o \in Objects :
            EnqueueNew(o, j, [db[j] EXCEPT !.status = "QUEUED", !.attempts = 0, !.manual = TRUE])
      BY <2>2 DEF ResolveNeedsReview
    <3>2. disk[j] # "absent" /\ UNCHANGED <<backlog, disk, drive, sheet, hashes>>
      BY <1>7, <2>2 DEF ResolveNeedsReview, pool, cloud
    <3> QED  BY <1>6, <2>a, <3>1, <3>2, FreshRow
  <2>3. CASE ToggleDuplicateCheck \/ Pause \/ Resume
    <3>1. UNCHANGED <<backlog, pc, job, mem, db, disk, drive, sheet, hashes>>
      BY <2>3 DEF ToggleDuplicateCheck, Pause, Resume, pool, object, cloud
    <3> QED  BY <1>b, <3>1 DEF Quiet, Live
  <2> QED  BY <1>8, <2>1, <2>2, <2>3 DEF Operator
<1>9. ASSUME NEW S \in SUBSET Objects, Discard(S), UNCHANGED <<db, disk, drive, sheet, hashes>>
      PROVE  Quiet
  <2>1. \A p \in Objects : pc'[p] = "free" \/ (pc'[p] = pc[p] /\ mem'[p] = mem[p] /\ job'[p] = job[p])
    BY <1>9 DEF Discard, TypeInv, TypeOK
  <2> QED  BY <1>b, <1>9, <2>1 DEF Quiet, Live, Discard
<1>10. CASE Lifecycle
  <2>1. CASE Boot \/ Exit
    <3>1. UNCHANGED <<backlog, pc, job, mem, db, disk, drive, sheet, hashes>>
      BY <2>1 DEF Boot, Exit, object, cloud
    <3> QED  BY <1>b, <3>1 DEF Quiet, Live
  <2>2. CASE LoadBacklog
    <3>1. /\ UNCHANGED <<pc, job, mem, db, disk, drive, sheet, hashes>>
          /\ \A j \in backlog' : db[j].status # "ABSENT"
      BY <2>2 DEF LoadBacklog, ListActive, Active, object, cloud
    <3> QED  BY <1>b, <3>1 DEF Quiet, Live
  <2>3. CASE StartPool
    <3>1. PICK old \in SUBSET {j \in Jobs : db[j].status \in Done} :
            db' = [j \in Jobs |-> IF j \in old THEN Blank("PRUNED") ELSE db[j]]
      BY <2>3 DEF StartPool
    <3>2. UNCHANGED <<backlog, pc, job, mem, disk, drive, sheet, hashes>>
      BY <2>3 DEF StartPool, object, cloud
    <3>3. \A j \in Jobs : \/ db'[j] = db[j]
                          \/ db'[j].status = "PRUNED" /\ db[j].status \in Done
      BY <1>a, <3>1
    <3> QED  BY <1>b, <1>c, <3>2, <3>3 DEF Quiet, Live, TypeInv, TypeOK
  <2>4. ASSUME NEW j \in Jobs, RequeueIncomplete(j) PROVE Quiet
    <3>1. CASE disk[j] = db[j].path
      <4>1. PICK o \in Objects : EnqueueNew(o, j, [db[j] EXCEPT !.status = "QUEUED", !.attempts = 0])
        BY <2>4, <3>1 DEF RequeueIncomplete
      <4>2. disk[j] # "absent" /\ backlog' \subseteq backlog /\ UNCHANGED <<disk, drive, sheet, hashes>>
        BY <1>7, <2>4, <3>1 DEF RequeueIncomplete, cloud
      <4>3. db[j] \in Rows
        BY DEF TypeInv, TypeOK
      <4> QED  BY <1>6, <4>1, <4>2, <4>3, FreshRow
    <3>2. CASE disk[j] # db[j].path
      <4>1. db' = [db EXCEPT ![j] = [db[j] EXCEPT !.status = "FAILED"]]
        BY <2>4, <3>2 DEF RequeueIncomplete
      <4>2. [db[j] EXCEPT !.status = "FAILED"].status = "FAILED"
        BY DEF TypeInv, TypeOK, Rows
      <4>3. db'[j].status = "FAILED" /\ \A k \in Jobs \ {j} : db'[k] = db[k]
        BY <4>1, <4>2 DEF TypeInv, TypeOK
      <4>4. j \in backlog /\ backlog' \subseteq backlog /\ UNCHANGED <<pc, job, mem, disk, drive, sheet, hashes>>
        BY <2>4, <3>2 DEF RequeueIncomplete, object, cloud
      <4>5. /\ \A k \in Jobs : db'[k].status \in Done => db'[k].status = db[k].status
            /\ \A k \in Jobs : db[k].status # "ABSENT" => db'[k].status # "ABSENT"
        BY <1>c, <1>d, <4>3
      <4> QED  BY <1>b, <1>c, <1>e, <4>3, <4>4, <4>5 DEF Quiet, Live
    <3> QED  BY <3>1, <3>2
  <2>5. CASE Stop
    BY <1>9, <2>5 DEF Stop, cloud
  <2>6. CASE Crash
    BY <1>9, <2>6 DEF Crash, cloud
  <2> QED  BY <1>10, <2>1, <2>2, <2>3, <2>4, <2>5, <2>6 DEF Lifecycle
<1> QED  BY <1>1, <1>4, <1>5, <1>8, <1>10 DEF Next

\* The invariant holds at first ...
LEMMA DeliveryInit == Init => DeliveryInv
  BY BlankRow DEF Init, DeliveryInv, RowsExist, AttemptsDeliver, Truthful, IndexIsOnDrive,
     CompletedIsDelivered, DuplicateIsOnDrive, Live, NoRow

\* ... and every step keeps it.
LEMMA DeliveryStep == TypeInv /\ DeliveryInv /\ [Next]_vars => DeliveryInv'
<1> SUFFICES ASSUME TypeInv, DeliveryInv, [Next]_vars PROVE DeliveryInv'
  OBVIOUS
<1>1. CASE UNCHANGED vars
  BY <1>1 DEF vars, pool, object, cloud, DeliveryInv, RowsExist, AttemptsDeliver, Truthful,
     IndexIsOnDrive, CompletedIsDelivered, DuplicateIsOnDrive, Live, Delivered, OnDrive, Digest
<1>2. ASSUME NEW o \in Objects, Attempt(o) PROVE DeliveryInv'
  BY <1>2, AttemptDelivery
<1>3. CASE Next /\ \A o \in Objects : ~Attempt(o)
  BY <1>3, OthersQuiet, QuietDelivery
<1> QED  BY <1>1, <1>2, <1>3

\* The index, COMPLETED and DUPLICATE are true in every reachable state.
THEOREM DeliveryInvariant == Spec => [](TypeInv /\ DeliveryInv)
  BY TypeInit, TypeStep, DeliveryInit, DeliveryStep, PTL DEF Spec

\* The index is right.  (video_processor.py, _upload and _find_remote_duplicate)
THEOREM IndexCorrect == Spec => []IndexIsOnDrive
<1>1. DeliveryInv => IndexIsOnDrive
  BY DEF DeliveryInv, Truthful
<1> QED  BY <1>1, DeliveryInvariant, PTL

\* COMPLETED is only said of a video on Drive and in the sheet.
\* (video_processor.py, process)
THEOREM CompletedCorrect == Spec => []CompletedIsDelivered
<1>1. DeliveryInv => CompletedIsDelivered
  BY DEF DeliveryInv, Truthful
<1> QED  BY <1>1, DeliveryInvariant, PTL

\* DUPLICATE is only said of a video whose content is on Drive.
\* (video_processor.py, _hash_and_dedup_check)
THEOREM DuplicateCorrect == Spec => []DuplicateIsOnDrive
<1>1. DeliveryInv => DuplicateIsOnDrive
  BY DEF DeliveryInv, Truthful
<1> QED  BY <1>1, DeliveryInvariant, PTL

-----------------------------------------------------------------------------
\* The refinement.

Phases == [j \in Jobs |-> Phase(db[j].status)]

\* What a status means to the operator.
LEMMA PhaseOf ==
  /\ Phase("ABSENT") = "unseen" /\ Phase("PRUNED") = "forgotten"
  /\ Phase("COMPLETED") = "completed" /\ Phase("DUPLICATE") = "duplicate"
  /\ \A s \in Active : Phase(s) = "open"
  /\ \A s \in {"FAILED", "NEEDS_REVIEW"} : Phase(s) = "attention"
  BY DEF Phase, Active

\* ... and what it cannot mean.
LEMMA PhaseOfStatus ==
  ASSUME NEW s \in Statuses \cup NoRow
  PROVE  /\ s # "ABSENT" <=> Phase(s) # "unseen"
         /\ s \in Statuses => Phase(s) \in {"open", "completed", "duplicate", "attention"}
         /\ Phase(s) = "completed" => s = "COMPLETED"
         /\ Phase(s) = "duplicate" => s = "DUPLICATE"
  BY DEF Phase, Statuses, NoRow, Active, Terminal, Done

\* A new result for one job is a report that the contract allows.
LEMMA RowReports ==
  ASSUME TypeInv, TypeInv', DeliveryInv', NEW j \in Jobs, db[j].status # "ABSENT",
         \A k \in Jobs \ {j} : db'[k] = db[k], db'[j].status \in Statuses,
         UNCHANGED cloud
  PROVE  Contract!Next
<1> DEFINE result == Phase(db'[j].status)
<1>1. db[j].status \in Statuses \cup NoRow
  BY DEF TypeInv, TypeOK, Rows, Statuses
<1>2. Phases[j] # "unseen"
  BY <1>1, PhaseOfStatus DEF Phases
<1>3. result \in Contract!Phases \ {"unseen", "forgotten"}
  BY PhaseOfStatus DEF Contract!Phases
<1>4. result = "completed" => Contract!Delivered(j)
  BY PhaseOfStatus DEF DeliveryInv, Truthful, CompletedIsDelivered, Delivered, Contract!Delivered, cloud
<1>5. result = "duplicate" => Contract!Copied(j)
  BY PhaseOfStatus DEF DeliveryInv, Truthful, DuplicateIsOnDrive, OnDrive, Contract!Copied, cloud
<1>6. Phases' = [Phases EXCEPT ![j] = result]
  BY DEF Phases
<1>7. Contract!Report(j, result)
  BY <1>2, <1>4, <1>5, <1>6 DEF Contract!Report, Phases, cloud
<1> QED  BY <1>3, <1>7 DEF Contract!Next

\* Every step of an attempt is allowed by the contract.
LEMMA AttemptRefines ==
  ASSUME TypeInv, TypeInv', DeliveryInv, DeliveryInv', NEW o \in Objects, Attempt(o)
  PROVE  [Contract!Next]_(Contract!vars)
<1>1. /\ RowWrite(o) /\ Result(o) /\ Cloud(o)
  BY AttemptRow, AttemptResult, AttemptCloud DEF TypeInv, DeliveryInv
<1>2. job[o] \in Jobs /\ db[job[o]].status # "ABSENT"
  BY <1>1 DEF Result, Attempting, Settling, Settled, TypeInv, ObjectsOK, Live, DeliveryInv, RowsExist
<1>3. Phases[job[o]] # "unseen"
  BY <1>2, PhaseOfStatus DEF Phases, TypeInv, TypeOK, Rows, Statuses
<1>4. CASE UNCHANGED cloud /\ db' = db
  BY <1>4 DEF Contract!vars, cloud
<1>5. CASE UNCHANGED cloud /\ db' = [db EXCEPT ![job[o]] = mem'[o]]
  <2>1. db'[job[o]].status \in Statuses /\ \A k \in Jobs \ {job[o]} : db'[k] = db[k]
    BY <1>1, <1>2, <1>5 DEF Result, TypeInv, TypeOK
  <2> QED  BY <1>2, <1>5, <2>1, RowReports
<1>6. CASE drive' = drive \cup {job[o]} /\ UNCHANGED <<sheet, db>>
  <2>1. Contract!Store(job[o])
    BY <1>3, <1>6 DEF Contract!Store, Phases
  <2> QED  BY <1>2, <2>1 DEF Contract!Next
<1>7. CASE job[o] \in drive /\ sheet' = sheet \cup {job[o]} /\ UNCHANGED <<drive, db>>
  <2>1. Contract!List(job[o])
    BY <1>7 DEF Contract!List
  <2> QED  BY <1>2, <2>1 DEF Contract!Next
<1> QED  BY <1>1, <1>4, <1>5, <1>6, <1>7 DEF RowWrite, Cloud

Rewrites(j, row) == db' = [db EXCEPT ![j] = row]

\* ... and so is every other step.
LEMMA OthersRefine ==
  ASSUME TypeInv, TypeInv', DeliveryInv, DeliveryInv', Next, \A o \in Objects : ~Attempt(o)
  PROVE  [Contract!Next]_(Contract!vars)
<1>a. UNCHANGED cloud
  BY OthersQuiet DEF Quiet, cloud
<1>b. ASSUME db' = db PROVE UNCHANGED Contract!vars
  BY <1>a, <1>b DEF Contract!vars, cloud
<1>c. ASSUME NEW j \in Jobs, db[j].status # "ABSENT", NEW row, row.status \in {"QUEUED", "FAILED"},
             Rewrites(j, row)
      PROVE  Contract!Next
  <2>1. db'[j].status \in Statuses /\ \A k \in Jobs \ {j} : db'[k] = db[k]
    BY <1>c DEF Rewrites, TypeInv, TypeOK, Statuses, Active, Terminal
  <2> QED  BY <1>a, <1>c, <2>1, RowReports
<1>d. \A o \in Objects : Live(o) => job[o] \in Jobs /\ db[job[o]].status # "ABSENT"
  BY DEF DeliveryInv, RowsExist, TypeInv, ObjectsOK
<1>1. ASSUME NEW j \in Jobs, Discover(j) PROVE Contract!Next
  <2>1. db[j].status = "ABSENT"
    BY <1>1 DEF Discover, DeliveryInv, RowsExist
  <2>2. Blank("DISCOVERED").status \in Active
    BY BlankRow DEF Statuses, Active
  <2>3. Phases' = [Phases EXCEPT ![j] = "open"]
    BY <1>1, <2>2, PhaseOf DEF Discover, Phases, TypeInv, TypeOK
  <2>4. Contract!Arrive(j)
    BY <1>a, <2>1, <2>3, PhaseOf DEF Contract!Arrive, Phases, cloud
  <2> QED  BY <2>4 DEF Contract!Next
<1>2. ASSUME NEW o \in Objects, Loop(o) PROVE [Contract!Next]_(Contract!vars)
  <2>a. Status(o, "QUEUED").status = "QUEUED"
    BY StatusRow DEF TypeInv, Statuses, Active, Becomes
  <2>1. CASE Enqueue(o)
    <3>1. Rewrites(job[o], Status(o, "QUEUED")) /\ Live(o)
      BY <2>1 DEF Enqueue, Save, Live, Rewrites
    <3> QED  BY <1>c, <1>d, <2>a, <3>1
  <2>2. CASE TakeJob(o)
    <3> DEFINE row == [Status(o, "QUEUED") EXCEPT !.attempts = @ + 1]
    <3>1. row.status = "QUEUED"
      BY <2>a, StatusRow DEF TypeInv, Statuses, Active, Becomes, Rows
    <3>2. Rewrites(job[o], row) /\ Live(o)
      BY <2>2 DEF TakeJob, Save, Live, Rewrites
    <3> HIDE DEF row
    <3> QED  BY <1>c, <1>d, <3>1, <3>2
  <2>3. CASE ScheduleRetry(o)
    <3>1. Rewrites(job[o], Status(o, "QUEUED")) /\ Live(o)
      BY <2>3 DEF ScheduleRetry, Save, Live, Rewrites
    <3> QED  BY <1>c, <1>d, <2>a, <3>1
  <2>4. CASE Report(o) \/ Requeue(o) \/ Abandon(o)
    BY <1>b, <2>4 DEF Report, Requeue, Abandon
  <2> QED  BY <1>2, <2>1, <2>2, <2>3, <2>4 DEF Loop
<1>3. ASSUME NEW o \in Objects, DbWriteFails(o) PROVE UNCHANGED Contract!vars
  BY <1>b, <1>3 DEF DbWriteFails
<1>4. CASE Operator
  <2>1. ASSUME NEW j \in Jobs, RetryJob(j) PROVE Contract!Next
    <3> DEFINE row == [db[j] EXCEPT !.status = "QUEUED", !.attempts = 0]
    <3>1. Rewrites(j, row)
      BY <2>1 DEF RetryJob, EnqueueNew, Rewrites
    <3>2. db[j].status # "ABSENT" /\ db[j] \in Rows
      BY <2>1 DEF RetryJob, TypeInv, TypeOK
    <3>3. row.status = "QUEUED"
      BY <3>2, FreshRow
    <3> HIDE DEF row
    <3> QED  BY <1>c, <3>1, <3>2, <3>3
  <2>2. ASSUME NEW j \in Jobs, ResolveNeedsReview(j) PROVE Contract!Next
    <3> DEFINE row == [db[j] EXCEPT !.status = "QUEUED", !.attempts = 0, !.manual = TRUE]
    <3>1. Rewrites(j, row)
      BY <2>2 DEF ResolveNeedsReview, EnqueueNew, Rewrites
    <3>2. db[j].status # "ABSENT" /\ db[j] \in Rows
      BY <2>2 DEF ResolveNeedsReview, TypeInv, TypeOK
    <3>3. row.status = "QUEUED"
      BY <3>2, FreshRow
    <3> HIDE DEF row
    <3> QED  BY <1>c, <3>1, <3>2, <3>3
  <2>3. CASE ToggleDuplicateCheck \/ Pause \/ Resume
    BY <1>b, <2>3 DEF ToggleDuplicateCheck, Pause, Resume
  <2> QED  BY <1>4, <2>1, <2>2, <2>3 DEF Operator
<1>5. CASE Lifecycle
  <2>1. CASE Boot \/ LoadBacklog \/ Stop \/ Exit \/ Crash
    BY <1>b, <2>1 DEF Boot, LoadBacklog, Stop, Exit, Crash
  <2>2. CASE StartPool
    <3>1. PICK old \in SUBSET {j \in Jobs : db[j].status \in Done} :
            db' = [j \in Jobs |-> IF j \in old THEN Blank("PRUNED") ELSE db[j]]
      BY <2>2 DEF StartPool
    <3>2. Blank("PRUNED").status = "PRUNED"
      BY BlankRow DEF NoRow
    <3>3. \A j \in old : Phases[j] \in {"completed", "duplicate"}
      BY PhaseOf DEF Phases, Done
    <3>4. Phases' = [j \in Jobs |-> IF j \in old THEN "forgotten" ELSE Phases[j]]
      BY <3>1, <3>2, PhaseOf DEF Phases
    <3>5. Contract!Forget(old)
      BY <1>a, <3>3, <3>4 DEF Contract!Forget, Phases, cloud
    <3> QED  BY <3>5 DEF Contract!Next
  <2>3. ASSUME NEW j \in Jobs, RequeueIncomplete(j) PROVE Contract!Next
    <3>1. db[j].status # "ABSENT" /\ db[j] \in Rows
      BY <2>3 DEF RequeueIncomplete, TypeInv, TypeOK, DeliveryInv, RowsExist
    <3>2. CASE disk[j] = db[j].path
      <4> DEFINE row == [db[j] EXCEPT !.status = "QUEUED", !.attempts = 0]
      <4>1. Rewrites(j, row)
        BY <2>3, <3>2 DEF RequeueIncomplete, EnqueueNew, Rewrites
      <4>2. row.status = "QUEUED"
        BY <3>1, FreshRow
      <4> HIDE DEF row
      <4> QED  BY <1>c, <3>1, <4>1, <4>2
    <3>3. CASE disk[j] # db[j].path
      <4> DEFINE row == [db[j] EXCEPT !.status = "FAILED"]
      <4>1. Rewrites(j, row)
        BY <2>3, <3>3 DEF RequeueIncomplete, Rewrites
      <4>2. row.status = "FAILED"
        BY <3>1 DEF Rows
      <4> HIDE DEF row
      <4> QED  BY <1>c, <3>1, <4>1, <4>2
    <3> QED  BY <3>2, <3>3
  <2> QED  BY <1>5, <2>1, <2>2, <2>3 DEF Lifecycle
<1> QED  BY <1>1, <1>2, <1>3, <1>4, <1>5 DEF Next

\* The pipeline, with its threads, retries, crashes, operator and refused
\* writes, implements the contract.
THEOREM PipelineDelivers == Spec => DeliversAsPromised
<1>1. Init => Contract!Init
  <2> SUFFICES ASSUME Init PROVE Contract!Init
    OBVIOUS
  <2>1. Blank("ABSENT").status = "ABSENT"
    BY BlankRow DEF NoRow
  <2>2. Phases = [j \in Jobs |-> "unseen"]
    BY <2>1, PhaseOf DEF Init, Phases
  <2> QED  BY <2>2 DEF Init, Phases, Contract!Init
<1>2. TypeInv /\ TypeInv' /\ DeliveryInv /\ DeliveryInv' /\ [Next]_vars => [Contract!Next]_(Contract!vars)
  <2> SUFFICES ASSUME TypeInv, TypeInv', DeliveryInv, DeliveryInv', [Next]_vars
               PROVE  [Contract!Next]_(Contract!vars)
    OBVIOUS
  <2>1. CASE UNCHANGED vars
    BY <2>1 DEF vars, cloud, Contract!vars
  <2>2. ASSUME NEW o \in Objects, Attempt(o) PROVE [Contract!Next]_(Contract!vars)
    BY <2>2, AttemptRefines
  <2>3. CASE Next /\ \A o \in Objects : ~Attempt(o)
    BY <2>3, OthersRefine
  <2> QED  BY <2>1, <2>2, <2>3
<1> QED  BY <1>1, <1>2, DeliveryInvariant, PTL DEF Spec, DeliversAsPromised, Contract!Spec

-----------------------------------------------------------------------------
\* One object per job, as long as the operator gives no order.

Sole == OneObjectPerJob /\ WaitingSurvivesRestart

\* Object o moves on, or is let go; no other object, and no other row, changes.
Alone(o) ==
  /\ Live(o) /\ UNCHANGED <<up, backlog>>
  /\ \A p \in Objects \ {o} : pc'[p] = pc[p] /\ job'[p] = job[p]
  /\ pc'[o] # "free" => job'[o] = job[o]
  /\ \A k \in Jobs \ {job[o]} : db'[k] = db[k]
  /\ pc'[o] \in Waiting => db'[job[o]].status \in Active

\* ... which leaves it the only one of its job, and its row fit for a restart.
LEMMA AloneStep ==
  ASSUME TypeInv, Sole, interventions' = interventions, NEW o \in Objects, Alone(o)
  PROVE  Sole'
<1> SUFFICES ASSUME interventions = 0 PROVE Sole'
  BY DEF Sole, OneObjectPerJob, WaitingSurvivesRestart
<1>1. \A p \in Objects : Live(p)' => Live(p) /\ job'[p] = job[p] /\ job[p] \in Jobs
  BY DEF Alone, Live, TypeInv, ObjectsOK
<1>2. OneObjectPerJob'
  BY <1>1 DEF Sole, OneObjectPerJob, Alone
<1>3. ASSUME NEW p \in Objects, pc'[p] \in Waiting PROVE db'[job'[p]].status \in Active
  <2>1. Live(p)' /\ "free" \notin Waiting
    BY <1>3 DEF Live, Waiting
  <2>2. CASE p = o
    BY <1>1, <1>3, <2>1, <2>2 DEF Alone
  <2>3. CASE p # o
    <3>1. job[p] # job[o]
      BY <1>1, <2>1, <2>3 DEF Sole, OneObjectPerJob, Alone
    <3>2. db[job[p]].status \in Active
      BY <1>3, <2>3 DEF Alone, Sole, WaitingSurvivesRestart
    <3> QED  BY <1>1, <2>1, <3>1, <3>2 DEF Alone
  <2> QED  BY <2>2, <2>3
<1> QED  BY <1>2, <1>3 DEF Sole, WaitingSurvivesRestart

\* A new object for a job that nobody has.
Arrives(o, j) ==
  /\ up \notin {"down", "starting"} /\ up' = up
  /\ pc[o] = "free" /\ pc'[o] # "free" /\ job'[o] = j
  /\ \A p \in Objects \ {o} : pc'[p] = pc[p] /\ job'[p] = job[p]
  /\ \A p \in Objects : Live(p) => job[p] # j
  /\ backlog' \subseteq backlog \ {j}
  /\ db'[j].status \in Active
  /\ \A k \in Jobs \ {j} : db'[k] = db[k]

\* ... is the only one of its job, too.
LEMMA ArrivesStep ==
  ASSUME TypeInv, Sole, interventions' = interventions,
         NEW o \in Objects, NEW j \in Jobs, Arrives(o, j)
  PROVE  Sole'
<1> SUFFICES ASSUME interventions = 0 PROVE Sole'
  BY DEF Sole, OneObjectPerJob, WaitingSurvivesRestart
<1>1. \A p \in Objects \ {o} : Live(p)' => Live(p) /\ job'[p] = job[p] /\ job[p] \in Jobs \ {j}
  BY DEF Arrives, Live, TypeInv, ObjectsOK
<1>2. OneObjectPerJob'
  BY <1>1 DEF Sole, OneObjectPerJob, Arrives
<1>3. \A p \in Objects : pc'[p] \in Waiting => db'[job'[p]].status \in Active
  <2>1. "free" \notin Waiting
    BY DEF Waiting
  <2> QED  BY <1>1, <2>1 DEF Arrives, Live, Sole, WaitingSurvivesRestart
<1> QED  BY <1>2, <1>3 DEF Sole, WaitingSurvivesRestart

\* A step of an attempt is one of its object alone.
LEMMA AttemptAlone ==
  ASSUME TypeInv, NEW o \in Objects, Attempt(o)
  PROVE  Alone(o) /\ UNCHANGED bounds
<1>1. Frame(o) /\ RowWrite(o) /\ Result(o)
  BY AttemptFrame, AttemptRow, AttemptResult DEF TypeInv
<1>2. Live(o) /\ pc'[o] \notin Waiting
  BY <1>1 DEF Result, Live, Attempting, Settling, Settled, Waiting
<1>3. job[o] \in Jobs
  BY <1>2 DEF TypeInv, ObjectsOK
<1>4. \A k \in Jobs \ {job[o]} : db'[k] = db[k]
  BY <1>1, <1>3 DEF RowWrite, TypeInv, TypeOK
<1> QED  BY <1>1, <1>2, <1>4 DEF Frame, Alone, pool, TypeInv, TypeOK

\* So is a step of the loop on its behalf: what is put in the queue, or to wait,
\* has a row that says so.
LEMMA LoopAlone ==
  ASSUME TypeInv, Sole, interventions = 0, NEW o \in Objects, Loop(o)
  PROVE  Alone(o) /\ UNCHANGED bounds
<1>a. Status(o, "QUEUED").status = "QUEUED" /\ "QUEUED" \in Active
  BY StatusRow DEF Becomes, TypeInv, Statuses, Active
<1>1. Live(o) /\ UNCHANGED <<up, backlog, bounds>>
  BY DEF Loop, Enqueue, TakeJob, Report, ScheduleRetry, Requeue, Abandon, WorkerIdle, Live, pool
<1>2. job[o] \in Jobs
  BY <1>1 DEF TypeInv, ObjectsOK
<1>3. /\ \A p \in Objects \ {o} : pc'[p] = pc[p] /\ job'[p] = job[p]
      /\ pc'[o] # "free" => job'[o] = job[o]
      /\ \A k \in Jobs \ {job[o]} : db'[k] = db[k]
  BY <1>2 DEF Loop, Enqueue, TakeJob, Report, ScheduleRetry, Requeue, Abandon, Goto, Save, Drop, TypeInv, TypeOK
<1>4. pc'[o] \in Waiting => db'[job[o]].status \in Active
  <2>1. CASE Enqueue(o) \/ ScheduleRetry(o)
    BY <1>2, <1>a, <2>1 DEF Enqueue, ScheduleRetry, Save, TypeInv, TypeOK
  <2>2. CASE TakeJob(o) \/ Report(o) \/ Abandon(o)
    BY <2>2 DEF TakeJob, Report, Abandon, Goto, Drop, Waiting, TypeInv, TypeOK
  <2>3. CASE Requeue(o)
    BY <2>3 DEF Requeue, Sole, WaitingSurvivesRestart, Waiting
  <2> QED  BY <2>1, <2>2, <2>3 DEF Loop
<1> QED  BY <1>1, <1>3, <1>4 DEF Alone

\* ... and a refused write.
LEMMA DbWriteFailsAlone ==
  ASSUME TypeInv, NEW o \in Objects, DbWriteFails(o)
  PROVE  Alone(o) /\ interventions' = interventions
<1>1. Live(o) /\ UNCHANGED <<up, backlog, db, interventions>>
  BY DEF DbWriteFails, Live
<1>2. /\ \A p \in Objects \ {o} : pc'[p] = pc[p] /\ job'[p] = job[p]
      /\ pc'[o] # "free" => job'[o] = job[o]
      /\ pc'[o] \notin Waiting
  BY DEF DbWriteFails, Goto, Drop, Waiting, TypeInv, TypeOK
<1> QED  BY <1>1, <1>2 DEF Alone

\* A video that comes is new to everybody.
LEMMA DiscoverArrives ==
  ASSUME TypeInv, DeliveryInv, NEW j \in Jobs, Discover(j)
  PROVE  \E o \in Objects :
           /\ Arrives(o, j) /\ UNCHANGED bounds
           /\ pc'[o] = "sched" /\ mem'[o] = Blank("DISCOVERED")
           /\ \A p \in Objects \ {o} : mem'[p] = mem[p]
<1>1. db[j].status = "ABSENT" /\ j \notin backlog /\ \A p \in Objects : Live(p) => job[p] # j
  BY DEF Discover, DeliveryInv, RowsExist
<1>2. Blank("DISCOVERED").status \in Active
  BY BlankRow DEF Statuses, Active
<1>3. PICK o \in Objects : /\ pc[o] = "free"
                           /\ Goto(o, "sched")
                           /\ job' = [job EXCEPT ![o] = j]
                           /\ mem' = [mem EXCEPT ![o] = Blank("DISCOVERED")]
  BY DEF Discover
<1>4. /\ pc'[o] = "sched" /\ mem'[o] = Blank("DISCOVERED") /\ job'[o] = j
      /\ \A p \in Objects \ {o} : pc'[p] = pc[p] /\ mem'[p] = mem[p] /\ job'[p] = job[p]
  BY <1>3 DEF Goto, TypeInv, TypeOK
<1>5. /\ db'[j].status \in Active /\ \A k \in Jobs \ {j} : db'[k] = db[k]
      /\ up = "running" /\ UNCHANGED <<up, backlog, bounds>>
  BY <1>2 DEF Discover, TypeInv, TypeOK, pool
<1> QED  BY <1>1, <1>3, <1>4, <1>5 DEF Arrives

\* A row of the backlog gets one object, or fails; nobody else has the job.
LEMMA RequeueIncompleteSole ==
  ASSUME TypeInv, Sole, NEW j \in Jobs, RequeueIncomplete(j)
  PROVE  Sole'
<1> SUFFICES ASSUME interventions = 0 PROVE Sole'
  BY DEF Sole, OneObjectPerJob, WaitingSurvivesRestart, RequeueIncomplete, bounds
<1>1. /\ up = "requeueing" /\ UNCHANGED <<up, bounds>> /\ backlog' = backlog \ {j}
      /\ \A p \in Objects : Live(p) => job[p] # j
  BY DEF RequeueIncomplete, Sole, OneObjectPerJob
<1>2. CASE disk[j] = db[j].path
  <2> DEFINE row == [db[j] EXCEPT !.status = "QUEUED", !.attempts = 0]
  <2>1. row.status \in Active
    BY FreshRow DEF TypeInv, TypeOK, Active
  <2>2. PICK o \in Objects : EnqueueNew(o, j, row)
    BY <1>2 DEF RequeueIncomplete
  <2> HIDE DEF row
  <2>3. Arrives(o, j)
    BY <1>1, <2>1, <2>2 DEF EnqueueNew, Arrives, TypeInv, TypeOK
  <2> QED  BY <1>1, <2>3, ArrivesStep DEF bounds
<1>3. CASE disk[j] # db[j].path
  <2>1. db' = [db EXCEPT ![j] = [db[j] EXCEPT !.status = "FAILED"]] /\ UNCHANGED <<pc, job>>
    BY <1>3 DEF RequeueIncomplete, object
  <2>2. OneObjectPerJob'
    BY <1>1, <2>1 DEF Sole, OneObjectPerJob, Live
  <2>3. WaitingSurvivesRestart'
    BY <1>1, <2>1 DEF Sole, WaitingSurvivesRestart, Live, Waiting, TypeInv, TypeOK, ObjectsOK
  <2> QED  BY <2>2, <2>3 DEF Sole
<1> QED  BY <1>2, <1>3

\* Every step keeps it.
LEMMA SoleStep == TypeInv /\ DeliveryInv /\ Sole /\ [Next]_vars => Sole'
<1> SUFFICES ASSUME TypeInv, DeliveryInv, Sole, [Next]_vars PROVE Sole'
  OBVIOUS
<1>a. ASSUME interventions' # 0 PROVE Sole'
  BY <1>a DEF Sole, OneObjectPerJob, WaitingSurvivesRestart
<1>b. ASSUME interventions = 0, UNCHANGED <<up, backlog, pc, job, db>> PROVE Sole'
  BY <1>b DEF Sole, OneObjectPerJob, WaitingSurvivesRestart, Live
<1>1. CASE UNCHANGED vars
  BY <1>1, <1>a, <1>b DEF vars, pool, object, bounds
<1>2. ASSUME NEW j \in Jobs, Discover(j) PROVE Sole'
  BY <1>2, DiscoverArrives, ArrivesStep DEF bounds
<1>3. ASSUME NEW o \in Objects, Attempt(o) PROVE Sole'
  BY <1>3, AttemptAlone, AloneStep DEF bounds
<1>4. ASSUME NEW o \in Objects, Loop(o) PROVE Sole'
  <2>1. interventions' = interventions
    BY <1>4 DEF Loop, Enqueue, TakeJob, Report, ScheduleRetry, Requeue, Abandon, bounds
  <2> QED  BY <1>4, <1>a, <2>1, LoopAlone, AloneStep
<1>5. ASSUME NEW o \in Objects, DbWriteFails(o) PROVE Sole'
  BY <1>5, DbWriteFailsAlone, AloneStep
<1>6. CASE Operator
  <2>1. CASE ToggleDuplicateCheck \/ \E j \in Jobs : RetryJob(j) \/ ResolveNeedsReview(j)
    <3>1. interventions' = interventions + 1 /\ interventions \in Nat
      BY <2>1 DEF ToggleDuplicateCheck, RetryJob, ResolveNeedsReview, TypeInv, TypeOK
    <3>2. interventions' # 0
      BY <3>1
    <3> QED  BY <1>a, <3>2
  <2>2. CASE Pause \/ Resume
    BY <1>a, <1>b, <2>2 DEF Pause, Resume, object, bounds
  <2> QED  BY <1>6, <2>1, <2>2 DEF Operator
<1>7. CASE Lifecycle
  <2>1. interventions' = interventions
    BY <1>7 DEF Lifecycle, Boot, LoadBacklog, StartPool, RequeueIncomplete, Stop, Exit, Crash, bounds
  <2> SUFFICES ASSUME interventions = 0 PROVE Sole'
    BY <1>a, <2>1
  <2>2. CASE Boot
    BY <2>1, <2>2 DEF Boot, object, Sole, OneObjectPerJob, WaitingSurvivesRestart, Live
  <2>3. CASE LoadBacklog
    <3>1. up' = "requeueing" /\ UNCHANGED <<pc, job, db>> /\ \A o \in Objects : ~Live(o)
      BY <2>3 DEF LoadBacklog, object, Sole, OneObjectPerJob
    <3> QED  BY <3>1 DEF Sole, OneObjectPerJob, WaitingSurvivesRestart, Live
  <2>4. CASE StartPool
    <3>1. up' = "running" /\ UNCHANGED <<pc, job, backlog>>
      BY <2>4 DEF StartPool, object
    <3>2. \A j \in Jobs : db[j].status \in Active => db'[j] = db[j]
      BY <2>4 DEF StartPool, Active, Done
    <3>3. OneObjectPerJob'
      BY <3>1 DEF Sole, OneObjectPerJob, Live
    <3>4. WaitingSurvivesRestart'
      BY <3>1, <3>2 DEF Sole, WaitingSurvivesRestart, TypeInv, ObjectsOK, Live, Waiting
    <3> QED  BY <3>3, <3>4 DEF Sole
  <2>5. ASSUME NEW j \in Jobs, RequeueIncomplete(j) PROVE Sole'
    BY <2>5, RequeueIncompleteSole
  <2>6. CASE Stop
    <3>1. /\ up' = "stopping" /\ backlog' = {} /\ db' = db
          /\ \A p \in Objects : pc'[p] = "free" \/ (pc'[p] = pc[p] /\ job'[p] = job[p])
      BY <2>6 DEF Stop, Discard
    <3>2. \A p \in Objects : Live(p)' => Live(p) /\ pc'[p] = pc[p] /\ job'[p] = job[p]
      BY <3>1 DEF Live
    <3>3. OneObjectPerJob'
      BY <3>1, <3>2 DEF Sole, OneObjectPerJob
    <3>4. WaitingSurvivesRestart'
      BY <3>1, <3>2 DEF Sole, WaitingSurvivesRestart, Live, Waiting
    <3> QED  BY <3>3, <3>4 DEF Sole
  <2>7. CASE Exit \/ Crash
    <3>1. \A p \in Objects : ~Live(p)' /\ pc'[p] \notin Waiting
      BY <2>7 DEF Exit, Crash, Discard, object, Live, Waiting
    <3> QED  BY <3>1 DEF Sole, OneObjectPerJob, WaitingSurvivesRestart
  <2> QED  BY <1>7, <2>2, <2>3, <2>4, <2>5, <2>6, <2>7 DEF Lifecycle
<1> QED  BY <1>1, <1>2, <1>3, <1>4, <1>5, <1>6, <1>7 DEF Next

LEMMA SoleInvariant == Spec => [](TypeInv /\ DeliveryInv /\ Sole)
<1>1. Init => Sole
  BY DEF Init, Sole, OneObjectPerJob, WaitingSurvivesRestart, Live, Waiting
<1> QED  BY <1>1, SoleStep, DeliveryInvariant, PTL DEF Spec

\* What waits in memory is picked up by a restart, as long as the operator has
\* given no order.  (upload_worker_pool.py, _process_with_retry)
THEOREM WaitingIsSaved == Spec => []WaitingSurvivesRestart
<1>1. Sole => WaitingSurvivesRestart
  BY DEF Sole
<1> QED  BY <1>1, SoleInvariant, PTL

-----------------------------------------------------------------------------
\* Where the file of a job is.

\* What object o says of its file is true; and so is what the row says, once it
\* holds the result.
Knows(o) ==
  /\ disk[job[o]] = mem[o].path
  /\ pc[o] \in Settled => db[job[o]].path = mem[o].path

\* A step of an attempt moves no file but its own, and knows where to.
LEMMA AttemptKnows ==
  ASSUME TypeInv, NEW o \in Objects, Attempt(o), Knows(o)
  PROVE  Knows(o)' /\ \A k \in Jobs \ {job[o]} : disk'[k] = disk[k]
<1>a. \A s \in Statuses : Status(o, s).path = mem[o].path
  BY DEF Status, TypeInv, TypeOK, Rows
<1>b. \A s, f : [Status(o, s) EXCEPT !.path = f].path = f
  BY DEF Status, TypeInv, TypeOK, Rows
<1>c. LET r == [mem[o] EXCEPT !.hashed = TRUE] IN
        r.path = mem[o].path /\ [r EXCEPT !.status = "EXTRACTING"].path = mem[o].path
  BY DEF TypeInv, TypeOK, Rows
<1>d. [mem[o] EXCEPT !.status = "EXTRACTING"].path = mem[o].path
  BY DEF TypeInv, TypeOK, Rows
<1>e. \A f : [mem[o] EXCEPT !.path = f].path = f
  BY DEF TypeInv, TypeOK, Rows
<1>f. {"HASHING", "UPLOADING", "UPDATING_SHEET", "FAILED", "NEEDS_REVIEW"} \subseteq Statuses
  BY DEF Statuses, Active, Terminal
<1>g. pc[o] \notin {"free"} \cup Waiting /\ job[o] \in Jobs
  BY AttemptResult DEF Result, Attempting, Settling, Settled, Waiting, TypeInv, ObjectsOK, Live
<1> USE <1>f, <1>g DEF Knows, TypeInv, TypeOK, Goto, Settled
<1>1. CASE Stabilize(o)
  BY <1>1, <1>a DEF Stabilize, Save
<1>2. CASE HashFile(o)
  BY <1>2, <1>c DEF HashFile
<1>3. CASE HashUnchecked(o)
  BY <1>3, <1>c, <1>d DEF HashUnchecked, BeginExtraction, Save
<1>4. CASE FindOnDrive(o)
  BY <1>4 DEF FindOnDrive
<1>5. CASE NotFoundOnDrive(o)
  BY <1>5 DEF NotFoundOnDrive
<1>6. CASE SkipDuplicate(o)
  BY <1>6, <1>b DEF SkipDuplicate, Move
<1>7. CASE ClaimHash(o)
  BY <1>7, <1>d DEF ClaimHash, BeginExtraction, Save
<1>8. CASE LoseClaim(o)
  BY <1>8, <1>a DEF LoseClaim
<1>9. CASE ReadDeviceId(o)
  BY <1>9, <1>a DEF ReadDeviceId, Save
<1>10. CASE SendToReview(o)
  BY <1>10, <1>b DEF SendToReview, Move
<1>11. CASE CannotReadVideo(o)
  BY <1>11, <1>a DEF CannotReadVideo
<1>12. CASE UploadFile(o)
  BY <1>12 DEF UploadFile
<1>13. CASE RecordUpload(o)
  BY <1>13, <1>a DEF RecordUpload, Save
<1>14. CASE UpdateSheet(o)
  BY <1>14 DEF UpdateSheet
<1>15. CASE Complete(o)
  BY <1>15, <1>b DEF Complete, Move
<1>16. CASE StepFails(o)
  BY <1>16, <1>a DEF StepFails, Attempting
<1>17. CASE AnswerLost(o)
  BY <1>17, <1>a DEF AnswerLost
<1>18. CASE MoveAside(o)
  <2>1. CASE UNCHANGED <<disk, mem>>
    BY <1>18, <2>1 DEF MoveAside
  <2>2. ASSUME NEW f, Move(o, f, mem[o]) PROVE Knows(o)' /\ \A k \in Jobs \ {job[o]} : disk'[k] = disk[k]
    BY <1>18, <1>e, <2>2 DEF MoveAside, Move
  <2> QED  BY <1>18, <2>1, <2>2 DEF MoveAside
<1>19. CASE Finalize(o)
  BY <1>19 DEF Finalize, Save
<1>20. CASE AppendLog(o)
  BY <1>20 DEF AppendLog, Release
<1> QED  BY <1>1, <1>2, <1>3, <1>4, <1>5, <1>6, <1>7, <1>8, <1>9, <1>10,
             <1>11, <1>12, <1>13, <1>14, <1>15, <1>16, <1>17, <1>18, <1>19,
             <1>20 DEF Attempt

\* No other object, and no other row, is touched; and the file of a job that is
\* let go is where its row says.
LEMMA FilesStep ==
  ASSUME TypeInv, DeliveryInv, Sole, FilesKept, NEW o \in Objects, Alone(o), UNCHANGED bounds,
         restarts + interventions + dbErrors = 0,
         \A p \in Objects \ {o} : mem'[p] = mem[p],
         \A k \in Jobs \ {job[o]} : disk'[k] = disk[k],
         pc'[o] # "free" => Knows(o)',
         pc'[o] = "free" => disk'[job[o]] = db'[job[o]].path,
         db'[job[o]].status # "ABSENT"
  PROVE  FilesKept'
<1>1. interventions = 0 /\ restarts' + interventions' + dbErrors' = 0
  BY DEF bounds, TypeInv, TypeOK
<1>2. job[o] \in Jobs /\ db[job[o]].status # "ABSENT"
  BY DEF Alone, TypeInv, ObjectsOK, DeliveryInv, RowsExist
<1>3. up' = "running"
  BY <1>2 DEF FilesKept, Alone
<1>4. \A p \in Objects : Live(p)' => Live(p) /\ job'[p] = job[p] /\ job[p] \in Jobs
  BY DEF Alone, Live, TypeInv, ObjectsOK
<1>5. ASSUME NEW p \in Objects, Live(p)' PROVE Knows(p)'
  <2>1. CASE p = o
    BY <1>5, <2>1 DEF Live
  <2>2. CASE p # o
    <3>1. job[p] # job[o]
      BY <1>1, <1>4, <1>5, <2>2 DEF Sole, OneObjectPerJob, Alone
    <3> QED  BY <1>4, <1>5, <2>2, <3>1 DEF FilesKept, Alone, Knows
  <2> QED  BY <2>1, <2>2
<1>6. ASSUME NEW k \in Jobs, db'[k].status # "ABSENT", \A p \in Objects : Live(p)' => job'[p] # k
      PROVE  disk'[k] = db'[k].path
  <2>1. CASE k = job[o]
    BY <1>6, <2>1 DEF Alone, Live
  <2>2. CASE k # job[o]
    <3>1. \A p \in Objects : Live(p) => job[p] # k
      BY <1>6, <2>2 DEF Alone, Live
    <3> QED  BY <1>6, <2>2, <3>1 DEF FilesKept, Alone
  <2> QED  BY <2>1, <2>2
<1> QED  BY <1>3, <1>5, <1>6 DEF FilesKept, Knows

\* A step of the loop moves no file, and lets an object go only when its row
\* holds the result.
LEMMA LoopKnows ==
  ASSUME TypeInv, DeliveryInv, Sole, FilesKept, restarts + interventions + dbErrors = 0,
         NEW o \in Objects, Loop(o)
  PROVE  FilesKept'
<1>a. interventions = 0
  BY DEF TypeInv, TypeOK
<1>1. Alone(o) /\ UNCHANGED bounds
  BY <1>a, LoopAlone
<1>2. Live(o) /\ job[o] \in Jobs /\ Knows(o) /\ db[job[o]].status # "ABSENT"
  BY <1>1 DEF Alone, TypeInv, ObjectsOK, FilesKept, Knows, DeliveryInv, RowsExist
<1>3. disk' = disk /\ \A p \in Objects \ {o} : mem'[p] = mem[p]
  BY DEF Loop, Enqueue, TakeJob, Report, ScheduleRetry, Requeue, Abandon, Save, Drop, TypeInv, TypeOK
<1>4. CASE Enqueue(o) \/ TakeJob(o) \/ ScheduleRetry(o)
  <2>1. /\ Status(o, "QUEUED").path = mem[o].path
        /\ [Status(o, "QUEUED") EXCEPT !.attempts = @ + 1].path = mem[o].path
        /\ Status(o, "QUEUED").status = "QUEUED"
        /\ [Status(o, "QUEUED") EXCEPT !.attempts = @ + 1].status = "QUEUED"
    BY DEF Status, TypeInv, TypeOK, Rows
  <2>2. /\ mem'[o].path = mem[o].path /\ db'[job[o]].status = "QUEUED" /\ job' = job
        /\ pc'[o] # "free" /\ pc'[o] \notin Settled
    BY <1>2, <1>4, <2>1 DEF Enqueue, TakeJob, ScheduleRetry, Save, Goto, Settled, TypeInv, TypeOK
  <2>3. Knows(o)'
    BY <1>2, <1>3, <2>2 DEF Knows
  <2> QED  BY <1>1, <1>3, <2>2, <2>3, FilesStep
<1>5. CASE Requeue(o)
  <2>1. pc'[o] = "queued" /\ UNCHANGED <<mem, job, db>>
    BY <1>5 DEF Requeue, Goto, TypeInv, TypeOK
  <2>2. Knows(o)'
    BY <1>2, <1>3, <2>1 DEF Knows, Settled
  <2> QED  BY <1>1, <1>2, <1>3, <2>1, <2>2, FilesStep
<1>6. CASE Report(o) \/ Abandon(o)
  <2>1. pc[o] \in Settled /\ pc'[o] = "free" /\ db' = db
    BY <1>6 DEF Report, Abandon, Drop, Settled, TypeInv, TypeOK
  <2> QED  BY <1>1, <1>2, <1>3, <2>1, FilesStep DEF Knows
<1> QED  BY <1>4, <1>5, <1>6 DEF Loop

\* Every step keeps the files known.
LEMMA FilesKeptStep == TypeInv /\ DeliveryInv /\ DeliveryInv' /\ Sole /\ FilesKept /\ [Next]_vars => FilesKept'
<1> SUFFICES ASSUME TypeInv, DeliveryInv, DeliveryInv', Sole, FilesKept, [Next]_vars PROVE FilesKept'
  OBVIOUS
<1>0. restarts \in Nat /\ interventions \in Nat /\ dbErrors \in Nat
  BY DEF TypeInv, TypeOK
<1>a. ASSUME restarts' + interventions' + dbErrors' # 0 PROVE FilesKept'
  BY <1>a DEF FilesKept
<1>b. ASSUME restarts + interventions + dbErrors = 0, UNCHANGED <<up, object, db, disk>>
      PROVE  FilesKept'
  BY <1>b DEF FilesKept, Live, object
<1>c. ASSUME UNCHANGED <<restarts, interventions, dbErrors>>, restarts + interventions + dbErrors # 0
      PROVE  FilesKept'
  BY <1>c DEF FilesKept
<1>1. CASE UNCHANGED vars
  BY <1>1, <1>b, <1>c DEF vars, pool, bounds
<1>2. ASSUME NEW j \in Jobs, Discover(j) PROVE FilesKept'
  <2>1. PICK o \in Objects :
           /\ Arrives(o, j) /\ UNCHANGED bounds
           /\ pc'[o] = "sched" /\ mem'[o] = Blank("DISCOVERED")
           /\ \A p \in Objects \ {o} : mem'[p] = mem[p]
    BY <1>2, DiscoverArrives
  <2> SUFFICES ASSUME restarts + interventions + dbErrors = 0 PROVE FilesKept'
    BY <1>c, <2>1 DEF bounds
  <2>2. disk'[j] = "watch" /\ (\A k \in Jobs \ {j} : disk'[k] = disk[k]) /\ up' = "running"
    BY <1>2 DEF Discover, TypeInv, TypeOK, pool
  <2>3. \A p \in Objects \ {o} : Live(p) => job[p] \in Jobs \ {j}
    BY <2>1 DEF Arrives, TypeInv, ObjectsOK
  <2>4. Blank("DISCOVERED").path = "watch"
    BY DEF Blank
  <2>5. \A p \in Objects : Live(p)' => Knows(p)'
    BY <2>1, <2>2, <2>3, <2>4 DEF Arrives, FilesKept, Knows, Live, Settled
  <2>6. ASSUME NEW k \in Jobs, db'[k].status # "ABSENT", \A p \in Objects : Live(p)' => job'[p] # k
        PROVE  disk'[k] = db'[k].path
    <3>1. k # j
      BY <2>1, <2>6 DEF Arrives, Live
    <3>2. \A p \in Objects : Live(p) => job[p] # k
      BY <2>1, <2>6 DEF Arrives, Live
    <3> QED  BY <2>1, <2>2, <2>6, <3>1, <3>2 DEF Arrives, FilesKept
  <2> QED  BY <2>2, <2>5, <2>6 DEF FilesKept, Knows
<1>3. ASSUME NEW o \in Objects, Attempt(o) PROVE FilesKept'
  <2>1. Alone(o) /\ UNCHANGED bounds
    BY <1>3, AttemptAlone
  <2> SUFFICES ASSUME restarts + interventions + dbErrors = 0 PROVE FilesKept'
    BY <1>c, <2>1 DEF bounds
  <2>2. Frame(o) /\ Result(o)
    BY <1>3, AttemptFrame, AttemptResult DEF TypeInv
  <2>3. Knows(o)' /\ \A k \in Jobs \ {job[o]} : disk'[k] = disk[k]
    BY <1>3, <2>1, AttemptKnows DEF Alone, FilesKept, Knows
  <2>4. pc'[o] # "free" /\ \A p \in Objects \ {o} : mem'[p] = mem[p]
    BY <2>2 DEF Frame, Result, Attempting, Settling, Settled, TypeInv, TypeOK
  <2>5. db'[job[o]].status # "ABSENT"
    BY <2>2, <2>4 DEF Frame, DeliveryInv, RowsExist, Live
  <2> QED  BY <2>1, <2>3, <2>4, <2>5, FilesStep
<1>4. ASSUME NEW o \in Objects, Loop(o) PROVE FilesKept'
  <2>1. UNCHANGED bounds
    BY <1>4 DEF Loop, Enqueue, TakeJob, Report, ScheduleRetry, Requeue, Abandon
  <2> QED  BY <1>4, <1>c, <2>1, LoopKnows DEF bounds
<1>5. ASSUME NEW o \in Objects, DbWriteFails(o) PROVE FilesKept'
  <2>1. dbErrors' = dbErrors + 1 /\ UNCHANGED <<restarts, interventions>>
    BY <1>5 DEF DbWriteFails
  <2> QED  BY <1>0, <1>a, <2>1
<1>6. CASE Operator
  <2>1. CASE ToggleDuplicateCheck \/ \E j \in Jobs : RetryJob(j) \/ ResolveNeedsReview(j)
    <3>1. interventions' = interventions + 1 /\ UNCHANGED <<restarts, dbErrors>>
      BY <2>1 DEF ToggleDuplicateCheck, RetryJob, ResolveNeedsReview
    <3> QED  BY <1>0, <1>a, <3>1
  <2>2. CASE Pause \/ Resume
    BY <1>b, <1>c, <2>2 DEF Pause, Resume, bounds
  <2> QED  BY <1>6, <2>1, <2>2 DEF Operator
<1>7. CASE Stop \/ Crash
  <2>1. restarts' = restarts + 1 /\ UNCHANGED <<interventions, dbErrors>>
    BY <1>7 DEF Stop, Crash
  <2> QED  BY <1>0, <1>a, <2>1
<1>8. CASE Boot \/ LoadBacklog \/ StartPool \/ Exit \/ \E j \in Jobs : RequeueIncomplete(j)
  <2>1. UNCHANGED <<bounds, disk>>
    BY <1>8 DEF Boot, LoadBacklog, StartPool, Exit, RequeueIncomplete
  <2> SUFFICES ASSUME restarts + interventions + dbErrors = 0 PROVE FilesKept'
    BY <1>c, <2>1 DEF bounds
  <2>2. up # "running" /\ up # "stopping"
    BY <1>8 DEF Boot, LoadBacklog, StartPool, Exit, RequeueIncomplete, FilesKept
  <2>3. /\ \A j \in Jobs : db[j].status = "ABSENT"
        /\ \A p \in Objects : ~Live(p)
        /\ backlog = {}
    BY <2>2, SMTT(30) DEF FilesKept, DeliveryInv, RowsExist, TypeInv, TypeOK, ObjectsOK
  <2>4. db' = db
    <3>1. CASE StartPool
      <4>1. \A j \in Jobs : db[j].status \notin Done
        BY <2>3 DEF Done
      <4>2. \A old \in SUBSET {j \in Jobs : db[j].status \in Done} :
              [j \in Jobs |-> IF j \in old THEN Blank("PRUNED") ELSE db[j]] = db
        BY <4>1 DEF TypeInv, TypeOK
      <4> QED  BY <3>1, <4>2 DEF StartPool
    <3> QED  BY <1>8, <2>3, <3>1 DEF Boot, LoadBacklog, Exit, RequeueIncomplete
  <2>5. object' = object /\ up' # "stopping"
    BY <1>8, <2>2, <2>3 DEF Boot, LoadBacklog, StartPool, Exit, RequeueIncomplete
  <2> QED  BY <2>3, <2>4, <2>5 DEF FilesKept, Live, object
<1> QED  BY <1>1, <1>2, <1>3, <1>4, <1>5, <1>6, <1>7, <1>8 DEF Next, Lifecycle

\* The row of a settled job names the folder its file is in, without crashes,
\* refused writes and orders of the operator.  (video_processor.py, _fail, _finalize)
THEOREM SettledIsFound == Spec => []SettledFileIsFound
<1>1. Init => FilesKept
  BY BlankRow DEF Init, FilesKept, Live, NoRow
<1>2. Spec => []FilesKept
  BY <1>1, FilesKeptStep, SoleInvariant, PTL DEF Spec
<1>3. TypeInv /\ DeliveryInv /\ FilesKept => SettledFileIsFound
  <2> SUFFICES ASSUME TypeInv, DeliveryInv, FilesKept, restarts + interventions + dbErrors = 0,
                      NEW j \in Jobs, db[j].status \in Terminal, Carriers(j) = {}
               PROVE  disk[j] = db[j].path
    BY DEF SettledFileIsFound
  <2>1. db[j].status # "ABSENT"
    BY DEF Terminal, Done
  <2>2. ASSUME NEW o \in Objects, Live(o), job[o] = j PROVE pc[o] \in Settled
    BY <2>2 DEF Carriers, Carrying, Live, Places, TypeInv, TypeOK
  <2> QED  BY <2>1, <2>2 DEF FilesKept
<1> QED  BY <1>2, <1>3, SoleInvariant, PTL

=============================================================================
