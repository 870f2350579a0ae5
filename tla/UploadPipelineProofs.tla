------------------------- MODULE UploadPipelineProofs -------------------------
(***************************************************************************)
(* Proofs about UploadPipeline, for any number of jobs, digests, objects,  *)
(* workers, retries, restarts, interventions, refused writes and pauses.   *)
(*                                                                         *)
(* The steps of an attempt are many and alike.  The first part says once   *)
(* what they have in common (Frame, Result, RowWrite); the inductive       *)
(* invariants of the later parts use that, and look at a single step of    *)
(* the attempt only where it matters which one it is.                      *)
(***************************************************************************)
EXTENDS UploadPipelineProperties, TLAPS

Statuses == Active \cup Terminal

-----------------------------------------------------------------------------
\* Rows.  The fields of a row are looked at here and nowhere else.

Becomes(o, r, s) ==
  /\ r \in Rows
  /\ r.status = s
  /\ r.attempts = mem[o].attempts
  /\ mem[o].hashed => r.hashed

\* Setting the status of an object's row gives a row with that status.
LEMMA StatusRow ==
  ASSUME TypeOK, NEW o \in Objects, NEW s \in Statuses
  PROVE  Becomes(o, Status(o, s), s)
  BY DEF Rows, Status, TypeOK, Statuses, Becomes

\* ... and so it does when the file is moved as well.
LEMMA StatusPathRow ==
  ASSUME TypeOK, NEW o \in Objects, NEW s \in Statuses, NEW f \in Folders
  PROVE  Becomes(o, [Status(o, s) EXCEPT !.path = f], s)
  BY DEF Rows, Status, TypeOK, Statuses, Becomes

\* Whether or not OCR is announced, the object keeps a proper row.
LEMMA ExtractionRow ==
  ASSUME TypeOK, NEW o \in Objects, NEW row, BeginExtraction(o, row),
         Becomes(o, row, row.status), row.status \in Statuses
  PROVE  Becomes(o, mem'[o], mem'[o].status) /\ mem'[o].status \in Statuses
<1>1. mem'[o] = row \/ mem'[o] = [row EXCEPT !.status = "EXTRACTING"]
  BY DEF BeginExtraction, Save, TypeOK
<1>2. LET r == [row EXCEPT !.status = "EXTRACTING"] IN
        /\ r \in Rows /\ r.status = "EXTRACTING" /\ r.status \in Statuses
        /\ r.hashed = row.hashed /\ r.attempts = row.attempts
  BY DEF Rows, Statuses, Active, Becomes
<1> QED  BY <1>1, <1>2 DEF Becomes

-----------------------------------------------------------------------------
\* What the steps of an attempt have in common.

Frame(o) ==
  /\ pc' = [pc EXCEPT ![o] = pc'[o]]
  /\ mem' = [mem EXCEPT ![o] = mem'[o]]
  /\ UNCHANGED <<pool, queue, job, bounds>>

Result(o) ==
  /\ pc[o] \in Attempting \cup Settling \cup Settled
  /\ pc'[o] \in Attempting \cup Settling \cup Settled
  /\ Becomes(o, mem'[o], mem'[o].status)
  /\ mem'[o].status \in Statuses
  /\ pc'[o] \in Settling => mem'[o].status \in Terminal

RowWrite(o) ==
  /\ db' = db \/ db' = [db EXCEPT ![job[o]] = mem'[o]]
  /\ \/ pc'[o] \in Carrying
     \/ pc[o] \notin Carrying /\ db' = db
     \/ db' = [db EXCEPT ![job[o]] = mem'[o]] /\ mem'[o].status \in Terminal

\* An attempt touches its own object, and neither the queue nor the pool.
LEMMA AttemptFrame ==
  ASSUME TypeOK, NEW o \in Objects, Attempt(o)
  PROVE  Frame(o)
<1> USE DEF Frame, TypeOK, Goto, Save, object
<1>1. CASE Stabilize(o)
  BY <1>1 DEF Stabilize
<1>2. CASE HashFile(o)
  BY <1>2 DEF HashFile
<1>3. CASE HashUnchecked(o)
  BY <1>3 DEF HashUnchecked, BeginExtraction
<1>4. CASE FindOnDrive(o)
  BY <1>4 DEF FindOnDrive
<1>5. CASE NotFoundOnDrive(o)
  BY <1>5 DEF NotFoundOnDrive
<1>6. CASE SkipDuplicate(o)
  BY <1>6 DEF SkipDuplicate, Move
<1>7. CASE ClaimHash(o)
  BY <1>7 DEF ClaimHash, BeginExtraction
<1>8. CASE LoseClaim(o)
  BY <1>8 DEF LoseClaim
<1>9. CASE ReadDeviceId(o)
  BY <1>9 DEF ReadDeviceId
<1>10. CASE SendToReview(o)
  BY <1>10 DEF SendToReview, Move
<1>11. CASE CannotReadVideo(o)
  BY <1>11 DEF CannotReadVideo
<1>12. CASE UploadFile(o)
  BY <1>12 DEF UploadFile
<1>13. CASE RecordUpload(o)
  BY <1>13 DEF RecordUpload
<1>14. CASE UpdateSheet(o)
  BY <1>14 DEF UpdateSheet
<1>15. CASE Complete(o)
  BY <1>15 DEF Complete, Move
<1>16. CASE StepFails(o)
  BY <1>16 DEF StepFails
<1>17. CASE AnswerLost(o)
  BY <1>17 DEF AnswerLost
<1>18. CASE MoveAside(o)
  BY <1>18 DEF MoveAside, Move
<1>19. CASE Finalize(o)
  BY <1>19 DEF Finalize
<1>20. CASE AppendLog(o)
  BY <1>20 DEF AppendLog, Release
<1> QED  BY <1>1, <1>2, <1>3, <1>4, <1>5, <1>6, <1>7, <1>8, <1>9, <1>10,
             <1>11, <1>12, <1>13, <1>14, <1>15, <1>16, <1>17, <1>18, <1>19,
             <1>20 DEF Attempt

\* The object keeps its number of attempts and its digest, has a status of a
\* job in the system, and a terminal one when it is about to be reported.
LEMMA AttemptResult ==
  ASSUME TypeOK, ObjectsOK, ResultsOK, NEW o \in Objects, Attempt(o)
  PROVE  Result(o)
<1>a. \A s \in Statuses : Becomes(o, Status(o, s), s)
  BY StatusRow
<1>b. \A s \in Statuses, f \in Folders : Becomes(o, [Status(o, s) EXCEPT !.path = f], s)
  BY StatusPathRow
<1>c. Becomes(o, [mem[o] EXCEPT !.hashed = TRUE], mem[o].status)
  BY DEF Becomes, Rows, TypeOK
<1>d. \A f \in Folders : Becomes(o, [mem[o] EXCEPT !.path = f], mem[o].status)
  BY DEF Becomes, Rows, TypeOK
<1>e. Becomes(o, mem[o], mem[o].status) /\ (pc[o] # "free" => mem[o].status \in Statuses)
  BY DEF Becomes, TypeOK, ObjectsOK, Live, Statuses
<1>f. "DUPLICATE" \in Terminal /\ "COMPLETED" \in Terminal
  BY DEF Terminal, Done
<1> USE DEF Result, TypeOK, Goto, Save, Becomes, Statuses
<1>1. CASE Stabilize(o)
  BY <1>1, <1>a, <1>e DEF Stabilize, Attempting, Active, Settling
<1>2. CASE HashFile(o)
  BY <1>2, <1>c, <1>e DEF HashFile, Attempting, Settling
<1>3. CASE HashUnchecked(o)
  BY <1>3, <1>c, ExtractionRow, <1>e DEF HashUnchecked, Attempting, Active, Settling
<1>4. CASE FindOnDrive(o)
  BY <1>4, <1>e DEF FindOnDrive, Attempting, Settling
<1>5. CASE NotFoundOnDrive(o)
  BY <1>5, <1>e DEF NotFoundOnDrive, Attempting, Settling
<1>6. CASE SkipDuplicate(o)
  <2>1. Becomes(o, [Status(o, "DUPLICATE") EXCEPT !.path = "processed"], "DUPLICATE")
    BY <1>b, <1>f DEF Folders
  <2>2. mem'[o] = [Status(o, "DUPLICATE") EXCEPT !.path = "processed"] /\ pc'[o] = "finalize"
    BY <1>6 DEF SkipDuplicate, Move
  <2>3. pc[o] \in Attempting
    BY <1>6 DEF SkipDuplicate, Attempting
  <2> QED  BY <2>1, <2>2, <2>3, <1>f DEF Settling
<1>7. CASE ClaimHash(o)
  BY <1>7, <1>e, ExtractionRow DEF ClaimHash, Attempting, Active, Settling
<1>8. CASE LoseClaim(o)
  BY <1>8, <1>a, <1>e DEF LoseClaim, Attempting, Settling, Terminal
<1>9. CASE ReadDeviceId(o)
  BY <1>9, <1>a, <1>e DEF ReadDeviceId, Attempting, Active, Settling
<1>10. CASE SendToReview(o)
  BY <1>10, <1>b, <1>e DEF SendToReview, Move, Attempting, Settling, Terminal, Folders
<1>11. CASE CannotReadVideo(o)
  BY <1>11, <1>a, <1>e DEF CannotReadVideo, Attempting, Settling, Terminal
<1>12. CASE UploadFile(o)
  BY <1>12, <1>e DEF UploadFile, Attempting, Settling
<1>13. CASE RecordUpload(o)
  BY <1>13, <1>a, <1>e DEF RecordUpload, Attempting, Active, Settling
<1>14. CASE UpdateSheet(o)
  BY <1>14, <1>e DEF UpdateSheet, Attempting, Settling
<1>15. CASE Complete(o)
  <2>1. Becomes(o, [Status(o, "COMPLETED") EXCEPT !.path = "processed"], "COMPLETED")
    BY <1>b, <1>f DEF Folders
  <2>2. mem'[o] = [Status(o, "COMPLETED") EXCEPT !.path = "processed"] /\ pc'[o] = "finalize"
    BY <1>15 DEF Complete, Move
  <2>3. pc[o] \in Attempting
    BY <1>15 DEF Complete, Attempting
  <2> QED  BY <2>1, <2>2, <2>3, <1>f DEF Settling
<1>16. CASE StepFails(o)
  BY <1>16, <1>a, <1>e DEF StepFails, Attempting, Settling, Terminal
<1>17. CASE AnswerLost(o)
  BY <1>17, <1>a, <1>e DEF AnswerLost, Attempting, Settling, Terminal
<1>18. CASE MoveAside(o)
  BY <1>18, <1>d, <1>e, ResultsOK DEF MoveAside, Move, ResultsOK, Terminal, Folders, Settling
<1>19. CASE Finalize(o)
  BY <1>19, <1>e, ResultsOK DEF Finalize, ResultsOK, Settling, Settled
<1>20. CASE AppendLog(o)
  BY <1>20, <1>e DEF AppendLog, Settled, Settling
<1> QED  BY <1>1, <1>2, <1>3, <1>4, <1>5, <1>6, <1>7, <1>8, <1>9, <1>10,
             <1>11, <1>12, <1>13, <1>14, <1>15, <1>16, <1>17, <1>18, <1>19,
             <1>20 DEF Attempt

\* An attempt writes only the row of its job, with what the object says; it
\* ceases to carry the job only when it writes a terminal row.
LEMMA AttemptRow ==
  ASSUME TypeOK, ObjectsOK, ResultsOK, NEW o \in Objects, Attempt(o)
  PROVE  RowWrite(o)
<1> USE ResultsOK DEF RowWrite, ResultsOK, TypeOK, Goto, Save, Carrying, Waiting, Attempting,
      Settling
<1>1. CASE Stabilize(o)
  BY <1>1 DEF Stabilize
<1>2. CASE HashFile(o)
  BY <1>2 DEF HashFile
<1>3. CASE HashUnchecked(o)
  BY <1>3 DEF HashUnchecked, BeginExtraction
<1>4. CASE FindOnDrive(o)
  BY <1>4 DEF FindOnDrive
<1>5. CASE NotFoundOnDrive(o)
  BY <1>5 DEF NotFoundOnDrive
<1>6. CASE SkipDuplicate(o)
  BY <1>6 DEF SkipDuplicate, Move
<1>7. CASE ClaimHash(o)
  BY <1>7 DEF ClaimHash, BeginExtraction
<1>8. CASE LoseClaim(o)
  BY <1>8 DEF LoseClaim
<1>9. CASE ReadDeviceId(o)
  BY <1>9 DEF ReadDeviceId
<1>10. CASE SendToReview(o)
  BY <1>10 DEF SendToReview, Move
<1>11. CASE CannotReadVideo(o)
  BY <1>11 DEF CannotReadVideo
<1>12. CASE UploadFile(o)
  BY <1>12 DEF UploadFile
<1>13. CASE RecordUpload(o)
  BY <1>13 DEF RecordUpload
<1>14. CASE UpdateSheet(o)
  BY <1>14 DEF UpdateSheet
<1>15. CASE Complete(o)
  BY <1>15 DEF Complete, Move
<1>16. CASE StepFails(o)
  BY <1>16 DEF StepFails
<1>17. CASE AnswerLost(o)
  BY <1>17 DEF AnswerLost
<1>18. CASE MoveAside(o)
  BY <1>18 DEF MoveAside, Move
<1>19. CASE Finalize(o)
  BY <1>19 DEF Finalize
<1>20. CASE AppendLog(o)
  BY <1>20 DEF AppendLog, Release
<1> QED  BY <1>1, <1>2, <1>3, <1>4, <1>5, <1>6, <1>7, <1>8, <1>9, <1>10,
             <1>11, <1>12, <1>13, <1>14, <1>15, <1>16, <1>17, <1>18, <1>19,
             <1>20 DEF Attempt

-----------------------------------------------------------------------------
\* Types.

TypeInv == TypeOK /\ ObjectsOK /\ ResultsOK

\* An attempt keeps every variable in its type.
LEMMA AttemptType ==
  ASSUME TypeInv, NEW o \in Objects, Attempt(o)
  PROVE  TypeInv'
<1>1. Frame(o) /\ RowWrite(o) /\ Result(o)
  BY AttemptFrame, AttemptResult, AttemptRow DEF TypeInv
<1>2. Live(o) /\ job[o] \in Jobs /\ Digest(o) \in Contents
  BY <1>1, PipelineAssumption
  DEF Result, Attempting, Settling, Settled, TypeInv, ObjectsOK, Live, TypeOK, Digest
<1>3. /\ disk' \in [Jobs -> Folders \cup {"absent"}]
      /\ hashes' \in SUBSET Contents /\ claims' \in SUBSET Contents
      /\ drive' \in SUBSET Jobs /\ sheet' \in SUBSET Jobs
      /\ logs' \in [Jobs -> 0..LogCap]
  <2> USE <1>2 DEF TypeInv, TypeOK, Goto, Save, Folders, pool, object, cloud, bounds
  <2>1. CASE Stabilize(o)
    BY <2>1 DEF Stabilize
  <2>2. CASE HashFile(o)
    BY <2>2 DEF HashFile
  <2>3. CASE HashUnchecked(o)
    BY <2>3 DEF HashUnchecked, BeginExtraction
  <2>4. CASE FindOnDrive(o)
    BY <2>4 DEF FindOnDrive
  <2>5. CASE NotFoundOnDrive(o)
    BY <2>5 DEF NotFoundOnDrive
  <2>6. CASE SkipDuplicate(o)
    BY <2>6 DEF SkipDuplicate, Move
  <2>7. CASE ClaimHash(o)
    BY <2>7 DEF ClaimHash, BeginExtraction
  <2>8. CASE LoseClaim(o)
    BY <2>8 DEF LoseClaim
  <2>9. CASE ReadDeviceId(o)
    BY <2>9 DEF ReadDeviceId
  <2>10. CASE SendToReview(o)
    BY <2>10 DEF SendToReview, Move
  <2>11. CASE CannotReadVideo(o)
    BY <2>11 DEF CannotReadVideo
  <2>12. CASE UploadFile(o)
    BY <2>12 DEF UploadFile
  <2>13. CASE RecordUpload(o)
    BY <2>13 DEF RecordUpload
  <2>14. CASE UpdateSheet(o)
    BY <2>14 DEF UpdateSheet
  <2>15. CASE Complete(o)
    BY <2>15 DEF Complete, Move
  <2>16. CASE StepFails(o)
    BY <2>16 DEF StepFails
  <2>17. CASE AnswerLost(o)
    BY <2>17 DEF AnswerLost
  <2>18. CASE MoveAside(o)
    BY <2>18 DEF MoveAside, Move
  <2>19. CASE Finalize(o)
    BY <2>19 DEF Finalize
  <2>20. CASE AppendLog(o)
    BY <2>20 DEF AppendLog, Release, LogCap
  <2> QED  BY <2>1, <2>2, <2>3, <2>4, <2>5, <2>6, <2>7, <2>8, <2>9, <2>10,
               <2>11, <2>12, <2>13, <2>14, <2>15, <2>16, <2>17, <2>18, <2>19,
               <2>20 DEF Attempt
<1>4. pc' \in [Objects -> Places] /\ mem' \in [Objects -> Rows]
  BY <1>1 DEF Frame, Result, Becomes, TypeInv, TypeOK, Places
<1>5. db' \in [Jobs -> Rows]
  BY <1>1, <1>2 DEF RowWrite, Result, Becomes, TypeInv, TypeOK
<1>6. UNCHANGED <<pool, queue, job, bounds>>
  BY <1>1 DEF Frame
<1>7. TypeOK'
  BY <1>3, <1>4, <1>5, <1>6 DEF TypeInv, TypeOK, pool, bounds
<1>8. ObjectsOK' /\ ResultsOK'
  BY <1>1, <1>2, <1>6 DEF Frame, Result, TypeInv, TypeOK, ObjectsOK, ResultsOK, Live, Statuses,
     Waiting, Attempting, Settling, Settled
<1> QED  BY <1>7, <1>8 DEF TypeInv

\* A blank row is a row.
LEMMA BlankRow ==
  ASSUME NEW s \in Statuses \cup NoRow
  PROVE  Blank(s) \in Rows /\ Blank(s).status = s /\ Blank(s).attempts = 0
  BY PipelineAssumption DEF Blank, Rows, Statuses, Folders

\* The row an operator or a restart gives a job that is to start afresh.
LEMMA FreshRow ==
  ASSUME NEW r \in Rows
  PROVE  /\ [r EXCEPT !.status = "QUEUED", !.attempts = 0] \in Rows
         /\ [r EXCEPT !.status = "QUEUED", !.attempts = 0].status = "QUEUED"
         /\ [r EXCEPT !.status = "QUEUED", !.attempts = 0].attempts = 0
         /\ [r EXCEPT !.status = "QUEUED", !.attempts = 0, !.manual = TRUE] \in Rows
         /\ [r EXCEPT !.status = "QUEUED", !.attempts = 0, !.manual = TRUE].status = "QUEUED"
         /\ [r EXCEPT !.status = "QUEUED", !.attempts = 0, !.manual = TRUE].attempts = 0
<1> USE DEF Rows
<1>1. 0 \in 0..RetryCount /\ "QUEUED" \in Active
  BY PipelineAssumption DEF Active
<1>2. [r EXCEPT !.status = "QUEUED", !.attempts = 0] \in Rows
  BY <1>1
<1>3. /\ [r EXCEPT !.status = "QUEUED", !.attempts = 0].status = "QUEUED"
      /\ [r EXCEPT !.status = "QUEUED", !.attempts = 0].attempts = 0
  OBVIOUS
<1>4. [r EXCEPT !.status = "QUEUED", !.attempts = 0, !.manual = TRUE] \in Rows
  BY <1>1
<1>5. /\ [r EXCEPT !.status = "QUEUED", !.attempts = 0, !.manual = TRUE].status = "QUEUED"
      /\ [r EXCEPT !.status = "QUEUED", !.attempts = 0, !.manual = TRUE].attempts = 0
  OBVIOUS
<1> QED  BY <1>2, <1>3, <1>4, <1>5

\* Dropping an object keeps the types.
LEMMA DropType ==
  ASSUME TypeInv, NEW o \in Objects, Drop(o)
  PROVE  /\ pc' \in [Objects -> Places] /\ mem' \in [Objects -> Rows]
         /\ job' \in [Objects -> Jobs \cup {NoJob}]
         /\ ObjectsOK' /\ ResultsOK'
<1>1. Blank("ABSENT") \in Rows
  BY BlankRow DEF NoRow
<1>2. pc' \in [Objects -> Places] /\ mem' \in [Objects -> Rows] /\ job' \in [Objects -> Jobs \cup {NoJob}]
  BY <1>1 DEF Drop, TypeInv, TypeOK, Places
<1>3. pc'[o] = "free" /\ \A p \in Objects \ {o} : pc'[p] = pc[p] /\ mem'[p] = mem[p] /\ job'[p] = job[p]
  BY DEF Drop, TypeInv, TypeOK
<1> QED  BY <1>2, <1>3 DEF TypeInv, ObjectsOK, ResultsOK, Live, Settling, Waiting

\* Enqueueing a new object with a fresh row keeps the types.
LEMMA EnqueueNewType ==
  ASSUME TypeInv, NEW o \in Objects, NEW j \in Jobs, NEW row \in Rows,
         row.status = "QUEUED", row.attempts = 0, EnqueueNew(o, j, row)
  PROVE  /\ pc' \in [Objects -> Places] /\ mem' \in [Objects -> Rows]
         /\ job' \in [Objects -> Jobs \cup {NoJob}] /\ db' \in [Jobs -> Rows]
         /\ queue' \in Seq(Objects)
         /\ ObjectsOK' /\ ResultsOK'
<1>1. pc' \in [Objects -> Places] /\ mem' \in [Objects -> Rows] /\ job' \in [Objects -> Jobs \cup {NoJob}]
  BY DEF EnqueueNew, TypeInv, TypeOK, Places, Waiting
<1>2. db' \in [Jobs -> Rows] /\ queue' \in Seq(Objects)
  BY DEF EnqueueNew, TypeInv, TypeOK
<1>3. /\ pc'[o] = "queued" /\ mem'[o] = row /\ job'[o] = j
      /\ \A p \in Objects \ {o} : pc'[p] = pc[p] /\ mem'[p] = mem[p] /\ job'[p] = job[p]
  BY DEF EnqueueNew, TypeInv, TypeOK
<1>4. ObjectsOK' /\ ResultsOK'
  BY <1>3, PipelineAssumption DEF TypeInv, ObjectsOK, ResultsOK, Live, Settling, Active
<1> QED  BY <1>1, <1>2, <1>4

\* A step that writes a row for an object and puts it elsewhere on the loop.
LEMMA SaveType ==
  ASSUME TypeInv, NEW o \in Objects, Live(o), NEW row \in Rows, row.status \in Statuses,
         NEW place \in Waiting \cup {"stabilize"}, row.attempts < RetryCount \/ place = "stabilize",
         Save(o, row), Goto(o, place), job' = job
  PROVE  /\ pc' \in [Objects -> Places] /\ mem' \in [Objects -> Rows] /\ db' \in [Jobs -> Rows]
         /\ ObjectsOK' /\ ResultsOK'
<1>1. pc' \in [Objects -> Places] /\ mem' \in [Objects -> Rows]
  BY DEF Save, Goto, TypeInv, TypeOK, Places, Attempting
<1>2. db' \in [Jobs -> Rows]
  BY DEF Save, TypeInv, TypeOK, ObjectsOK
<1>3. /\ pc'[o] = place /\ mem'[o] = row
      /\ \A p \in Objects \ {o} : pc'[p] = pc[p] /\ mem'[p] = mem[p]
  BY DEF Save, Goto, TypeInv, TypeOK
<1>4. place \notin Settling
  BY DEF Waiting, Settling
<1>5. ObjectsOK' /\ ResultsOK'
  BY <1>3, <1>4 DEF TypeInv, ObjectsOK, ResultsOK, Live, Statuses, Waiting
<1> QED  BY <1>1, <1>2, <1>5

\* The steps of the loop keep every variable in its type.
LEMMA LoopType ==
  ASSUME TypeInv, NEW o \in Objects, Loop(o)
  PROVE  TypeInv'
<1>a. Becomes(o, Status(o, "QUEUED"), "QUEUED") /\ "QUEUED" \in Statuses
  BY StatusRow DEF TypeInv, Statuses, Active
<1> USE DEF TypeInv, TypeOK, pool, cloud, bounds
<1>1. CASE Enqueue(o)
  <2>1. Live(o) /\ mem[o].attempts < RetryCount
    BY <1>1 DEF Enqueue, Live, ObjectsOK, Waiting
  <2>2. queue' \in Seq(Objects)
    BY <1>1 DEF Enqueue
  <2> QED  BY <1>1, <1>a, <2>1, <2>2, SaveType DEF Enqueue, Becomes, Waiting
<1>2. CASE TakeJob(o)
  <2> DEFINE row == [Status(o, "QUEUED") EXCEPT !.attempts = @ + 1]
  <2>1. Live(o) /\ mem[o].attempts < RetryCount
    BY <1>2 DEF TakeJob, Live, ObjectsOK, Waiting
  <2>a. mem[o].attempts + 1 \in 0..RetryCount
    BY <2>1, PipelineAssumption DEF Rows
  <2>2. row \in Rows /\ row.status \in Statuses
    <3> DEFINE r == Status(o, "QUEUED")
    <3>1. r \in Rows /\ r.status \in Statuses /\ r.attempts + 1 \in 0..RetryCount
      BY <1>a, <2>a DEF Becomes
    <3>2. row = [r EXCEPT !.attempts = r.attempts + 1]
      OBVIOUS
    <3> HIDE DEF r, row
    <3> QED  BY <3>1, <3>2 DEF Rows
  <2>3. queue' \in Seq(Objects) /\ armed' \in Nat
    BY <1>2 DEF TakeJob
  <2>4. Save(o, row) /\ Goto(o, "stabilize") /\ job' = job
    BY <1>2 DEF TakeJob
  <2>5. /\ pc' \in [Objects -> Places] /\ mem' \in [Objects -> Rows] /\ db' \in [Jobs -> Rows]
        /\ ObjectsOK' /\ ResultsOK'
    BY <2>1, <2>2, <2>4, SaveType
  <2> QED  BY <1>2, <2>3, <2>5 DEF TakeJob
<1>3. CASE Report(o)
  BY <1>3, DropType DEF Report, WorkerIdle
<1>4. CASE ScheduleRetry(o)
  <2>1. Live(o) /\ mem[o].attempts < RetryCount
    BY <1>4 DEF ScheduleRetry, Live, RetryDue
  <2> QED  BY <1>4, <1>a, <2>1, SaveType DEF ScheduleRetry, WorkerIdle, Becomes, Waiting
<1>5. CASE Requeue(o)
  <2>1. queue' \in Seq(Objects) /\ pc' \in [Objects -> Places]
    BY <1>5 DEF Requeue, Goto, Places, Waiting
  <2>2. ObjectsOK' /\ ResultsOK'
    BY <1>5 DEF Requeue, Goto, ObjectsOK, ResultsOK, Live, Waiting, Settling
  <2> QED  BY <1>5, <2>1, <2>2 DEF Requeue
<1>6. CASE Abandon(o)
  BY <1>6, DropType DEF Abandon
<1> QED  BY <1>1, <1>2, <1>3, <1>4, <1>5, <1>6 DEF Loop

\* A refused write keeps every variable in its type.
LEMMA DbWriteFailsType ==
  ASSUME TypeInv, NEW o \in Objects, DbWriteFails(o)
  PROVE  TypeInv'
<1> USE DEF TypeInv, TypeOK
<1>a. /\ dbErrors' \in Nat
      /\ UNCHANGED <<up, backlog, paused, armed, gated, queue, db, hashes, disk, drive, sheet, logs,
                     dupCheck, restarts, interventions, pauses>>
  BY DEF DbWriteFails, cloud
<1>1. CASE pc[o] \in {"finalize", "log"}
  <2>1. Becomes(o, Status(o, "FAILED"), "FAILED")
    BY StatusRow DEF Statuses, Terminal
  <2>2. /\ mem' = [mem EXCEPT ![o] = Status(o, "FAILED")] /\ Goto(o, "failing")
        /\ UNCHANGED <<lost, job, claims>>
    BY <1>1 DEF DbWriteFails
  <2>3. pc' \in [Objects -> Places] /\ mem' \in [Objects -> Rows]
    BY <2>1, <2>2 DEF Goto, Becomes, Places, Settling
  <2>4. /\ pc'[o] = "failing" /\ mem'[o].status = "FAILED"
        /\ \A p \in Objects \ {o} : pc'[p] = pc[p] /\ mem'[p] = mem[p]
    BY <2>1, <2>2 DEF Goto, Becomes
  <2>5. ObjectsOK' /\ ResultsOK'
    BY <1>1, <2>2, <2>4 DEF ObjectsOK, ResultsOK, Live, Waiting, Terminal
  <2> QED  BY <1>a, <2>2, <2>3, <2>5
<1>2. CASE pc[o] \in {"failsave", "faillog", "returned"}
  <2>1. Drop(o) /\ lost' \in Nat /\ claims' \in SUBSET Contents
    BY <1>2 DEF DbWriteFails, Release
  <2>2. /\ pc' \in [Objects -> Places] /\ mem' \in [Objects -> Rows]
        /\ job' \in [Objects -> Jobs \cup {NoJob}]
        /\ ObjectsOK' /\ ResultsOK'
    BY <2>1, DropType
  <2> QED  BY <1>a, <2>1, <2>2
<1> QED  BY <1>1, <1>2 DEF DbWriteFails

\* An order of the operator keeps every variable in its type.
LEMMA OperatorType ==
  ASSUME TypeInv, Operator
  PROVE  TypeInv'
<1> USE DEF TypeInv, TypeOK, pool, object, cloud, bounds
<1>1. ASSUME NEW j \in Jobs, RetryJob(j) PROVE TypeInv'
  <2>1. PICK o \in Objects : EnqueueNew(o, j, [db[j] EXCEPT !.status = "QUEUED", !.attempts = 0])
    BY <1>1 DEF RetryJob
  <2>2. interventions' \in Nat
    BY <1>1 DEF RetryJob
  <2> QED  BY <1>1, <2>1, <2>2, FreshRow, EnqueueNewType DEF RetryJob
<1>2. ASSUME NEW j \in Jobs, ResolveNeedsReview(j) PROVE TypeInv'
  <2>1. PICK o \in Objects :
          EnqueueNew(o, j, [db[j] EXCEPT !.status = "QUEUED", !.attempts = 0, !.manual = TRUE])
    BY <1>2 DEF ResolveNeedsReview
  <2>2. interventions' \in Nat
    BY <1>2 DEF ResolveNeedsReview
  <2> QED  BY <1>2, <2>1, <2>2, FreshRow, EnqueueNewType DEF ResolveNeedsReview
<1>3. CASE ToggleDuplicateCheck
  BY <1>3 DEF ToggleDuplicateCheck, ObjectsOK, ResultsOK, Live
<1>4. CASE Pause
  BY <1>4 DEF Pause, ObjectsOK, ResultsOK, Live
<1>5. CASE Resume
  <2>1. armed' = armed + gated /\ gated' = 0 /\ paused' = FALSE
    BY <1>5 DEF Resume
  <2>2. armed' \in Nat
    BY <2>1
  <2>3. UNCHANGED <<up, backlog, lost, queue, object, db, hashes, claims, disk, cloud, logs, bounds>>
    BY <1>5 DEF Resume
  <2>4. TypeOK'
    BY <2>1, <2>2, <2>3
  <2>5. ObjectsOK' /\ ResultsOK'
    BY <2>3 DEF ObjectsOK, ResultsOK, Live
  <2> QED  BY <2>4, <2>5
<1> QED  BY <1>1, <1>2, <1>3, <1>4, <1>5 DEF Operator

\* Discarding objects keeps the types.
LEMMA DiscardType ==
  ASSUME TypeInv, NEW S \in SUBSET Objects, Discard(S)
  PROVE  /\ pc' \in [Objects -> Places] /\ mem' \in [Objects -> Rows]
         /\ job' \in [Objects -> Jobs \cup {NoJob}]
         /\ queue' \in Seq(Objects)
         /\ ObjectsOK' /\ ResultsOK'
<1>1. Blank("ABSENT") \in Rows
  BY BlankRow DEF NoRow
<1>2. pc' \in [Objects -> Places] /\ job' \in [Objects -> Jobs \cup {NoJob}] /\ queue' \in Seq(Objects)
  BY DEF Discard, TypeInv, TypeOK, Places
<1>3. mem' \in [Objects -> Rows]
  BY <1>1 DEF Discard, TypeInv, TypeOK
<1>4. \A p \in Objects : pc'[p] = "free" \/ (pc'[p] = pc[p] /\ mem'[p] = mem[p] /\ job'[p] = job[p])
  BY DEF Discard, TypeInv, TypeOK
<1>5. ObjectsOK' /\ ResultsOK'
  BY <1>4 DEF TypeInv, ObjectsOK, ResultsOK, Live, Settling
<1> QED  BY <1>2, <1>3, <1>5

\* The steps of the process keep every variable in its type.
LEMMA LifecycleType ==
  ASSUME TypeInv, Lifecycle
  PROVE  TypeInv'
<1> USE DEF TypeInv, TypeOK, object, cloud, bounds
<1>1. CASE Boot
  BY <1>1 DEF Boot, ObjectsOK, ResultsOK, Live
<1>2. CASE LoadBacklog
  BY <1>2 DEF LoadBacklog, ListActive, ObjectsOK, ResultsOK, Live
<1>3. CASE StartPool
  <2>1. Blank("PRUNED") \in Rows
    BY BlankRow DEF NoRow
  <2>2. db' \in [Jobs -> Rows]
    BY <1>3, <2>1 DEF StartPool
  <2> QED  BY <1>3, <2>2, PipelineAssumption DEF StartPool, ObjectsOK, ResultsOK, Live
<1>4. ASSUME NEW j \in Jobs, RequeueIncomplete(j) PROVE TypeInv'
  <2>1. CASE disk[j] = db[j].path
    <3>1. PICK o \in Objects : EnqueueNew(o, j, [db[j] EXCEPT !.status = "QUEUED", !.attempts = 0])
      BY <1>4, <2>1 DEF RequeueIncomplete
    <3> QED  BY <1>4, <3>1, FreshRow, EnqueueNewType DEF RequeueIncomplete
  <2>2. CASE disk[j] # db[j].path
    <3>1. [db[j] EXCEPT !.status = "FAILED"] \in Rows
      BY DEF Rows, Terminal
    <3>2. db' = [db EXCEPT ![j] = [db[j] EXCEPT !.status = "FAILED"]]
      BY <1>4, <2>2 DEF RequeueIncomplete
    <3>3. db' \in [Jobs -> Rows]
      BY <3>1, <3>2
    <3> QED  BY <1>4, <2>2, <3>3 DEF RequeueIncomplete, ObjectsOK, ResultsOK, Live
  <2> QED  BY <2>1, <2>2
<1>5. CASE Stop
  <2>1. PICK S \in SUBSET Objects : Discard(S)
    BY <1>5 DEF Stop
  <2>2. /\ restarts' \in Nat /\ backlog' = {} /\ paused' = FALSE
        /\ armed' = 0 /\ gated' = 0 /\ lost' = 0
    BY <1>5, <2>1 DEF Stop, Discard
  <2> QED  BY <1>5, <2>1, <2>2, DiscardType DEF Stop
<1>6. CASE Exit
  BY <1>6 DEF Exit, ObjectsOK, ResultsOK, Live
<1>7. CASE Crash
  <2>1. /\ restarts' \in Nat /\ backlog' = {} /\ paused' = FALSE
        /\ armed' = 0 /\ gated' = 0 /\ lost' = 0
    BY <1>7 DEF Crash, Discard
  <2>2. Discard(Objects)
    BY <1>7 DEF Crash
  <2> QED  BY <1>7, <2>1, <2>2, DiscardType DEF Crash
<1> QED  BY <1>1, <1>2, <1>3, <1>4, <1>5, <1>6, <1>7 DEF Lifecycle

\* The arrival of a video keeps every variable in its type.
LEMMA DiscoverType ==
  ASSUME TypeInv, NEW j \in Jobs, Discover(j)
  PROVE  TypeInv'
<1> USE DEF TypeInv, TypeOK
<1>1. Blank("DISCOVERED") \in Rows /\ Blank("DISCOVERED").status = "DISCOVERED" /\ Blank("DISCOVERED").attempts = 0
  BY BlankRow DEF Statuses, Active
<1>2. PICK o \in Objects : /\ pc[o] = "free"
                           /\ Goto(o, "sched")
                           /\ job' = [job EXCEPT ![o] = j]
                           /\ mem' = [mem EXCEPT ![o] = Blank("DISCOVERED")]
  BY DEF Discover
<1>3. /\ pc' \in [Objects -> Places] /\ mem' \in [Objects -> Rows]
      /\ job' \in [Objects -> Jobs \cup {NoJob}] /\ db' \in [Jobs -> Rows]
      /\ disk' \in [Jobs -> Folders \cup {"absent"}]
  BY <1>1, <1>2 DEF Discover, Goto, Places, Waiting, Folders
<1>4. /\ pc'[o] = "sched" /\ mem'[o] = Blank("DISCOVERED") /\ job'[o] = j
      /\ \A p \in Objects \ {o} : pc'[p] = pc[p] /\ mem'[p] = mem[p] /\ job'[p] = job[p]
  BY <1>2 DEF Goto
<1>5. ObjectsOK' /\ ResultsOK'
  <2>1. 0 < RetryCount
    BY PipelineAssumption
  <2> QED  BY <1>1, <1>4, <2>1 DEF ObjectsOK, ResultsOK, Live, Settling, Active
<1> QED  BY <1>3, <1>5 DEF Discover, pool, cloud, bounds

\* The types hold when the application is first started.
LEMMA TypeInit == Init => TypeInv
<1> SUFFICES ASSUME Init PROVE TypeInv
  OBVIOUS
<1>1. Blank("ABSENT") \in Rows
  BY BlankRow DEF NoRow
<1>2. pc \in [Objects -> Places] /\ job \in [Objects -> Jobs \cup {NoJob}]
  BY DEF Init, Places
<1>3. mem \in [Objects -> Rows] /\ db \in [Jobs -> Rows]
  BY <1>1 DEF Init
<1>4. disk \in [Jobs -> Folders \cup {"absent"}] /\ logs \in [Jobs -> 0..LogCap]
  BY DEF Init, LogCap
<1>5. queue \in Seq(Objects)
  BY DEF Init
<1>6. TypeOK
  BY <1>2, <1>3, <1>4, <1>5 DEF Init, TypeOK
<1> QED  BY <1>6 DEF TypeInv, Init, ObjectsOK, ResultsOK, Live, Settling

\* Every step keeps them.
LEMMA TypeStep == TypeInv /\ [Next]_vars => TypeInv'
<1> SUFFICES ASSUME TypeInv, [Next]_vars PROVE TypeInv'
  OBVIOUS
<1>1. CASE UNCHANGED vars
  BY <1>1 DEF vars, pool, object, cloud, bounds, TypeInv, TypeOK, ObjectsOK, ResultsOK, Live
<1>2. CASE Next
  BY <1>2, DiscoverType, AttemptType, LoopType, DbWriteFailsType, OperatorType, LifecycleType DEF Next
<1> QED  BY <1>1, <1>2

\* Every variable keeps its type, and no object exceeds its attempts, in every
\* reachable state.  (upload_worker_pool.py, jobs_repository.py)
THEOREM TypeCorrect == Spec => []TypeOK
<1>1. Spec => []TypeInv
  BY TypeInit, TypeStep, PTL DEF Spec
<1>2. TypeInv => TypeOK
  BY DEF TypeInv
<1> QED  BY <1>1, <1>2, PTL

=============================================================================
