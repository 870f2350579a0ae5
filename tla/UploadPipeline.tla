---------------------------- MODULE UploadPipeline ----------------------------
(***************************************************************************)
(* The ingestion pipeline of InstaCore Sync: PipelineOrchestrator, its     *)
(* UploadQueue and UploadWorkerPool, VideoProcessor and DedupService.      *)
(*                                                                         *)
(* One asyncio loop owns the queue, the pool and the operator's commands;  *)
(* VideoProcessor.process runs on executor threads, so its steps           *)
(* interleave with each other and with the loop.  A job is a row of the    *)
(* jobs table; what travels through the pipeline is a Python object that   *)
(* holds a copy of that row, and every save writes the whole copy back.    *)
(* Two objects of one job can therefore be alive at once.                  *)
(*                                                                         *)
(* A definition named Mutant... is a deliberately wrong version of the one *)
(* that follows it, kept to show that a property can tell the two apart.   *)
(***************************************************************************)
EXTENDS Naturals, Sequences, FiniteSets

CONSTANTS
  Jobs,             \* the videos the watcher reports, one VideoJob id each
  Contents,         \* the SHA-256 digests a video can have
  Content,          \* Content[j]: the digest of the file of job j
  Objects,          \* identities for the in-memory VideoJob objects
  NoJob,            \* what an unused object identity is about
  MaxConcurrent,    \* uploads.max_concurrent: worker coroutines and threads
  RetryCount,       \* uploads.retry_count
  SheetConfigured,  \* sheets.spreadsheet_id is set
  MaxRestarts,      \* bound: crashes and stops of the application
  MaxInterventions, \* bound: commands of the operator other than Pause and Resume
  MaxDbErrors,      \* bound: writes of a settled job that SQLite refuses
  MaxPauses         \* bound: presses of the Pause button

ASSUME PipelineAssumption ==
  /\ Content \in [Jobs -> Contents]
  /\ NoJob \notin Jobs
  /\ IsFiniteSet(Objects)
  /\ MaxConcurrent \in Nat \ {0}
  /\ RetryCount \in Nat \ {0}
  /\ SheetConfigured \in BOOLEAN
  /\ MaxRestarts \in Nat
  /\ MaxInterventions \in Nat
  /\ MaxDbErrors \in Nat
  /\ MaxPauses \in Nat

VARIABLES
  up,      \* the application: down, starting, requeueing, running, stopping
  backlog, \* the rows _requeue_incomplete_jobs has still to handle
  paused,  \* ~_resume_event.is_set()
  armed,   \* workers past the resume gate, in or about to call queue.get()
  gated,   \* workers waiting for the resume event
  lost,    \* workers whose task ended with an exception
  queue,   \* UploadQueue: the objects waiting, in order
  pc,      \* pc[o]: where object o is, or what its thread does next
  job,     \* job[o]: the job that object o is a copy of
  mem,     \* mem[o]: the fields of object o
  db,      \* db[j]: the row of job j in the jobs table
  hashes,  \* the digests in uploaded_hashes
  claims,  \* DedupService._in_flight
  dupCheck, \* uploads.duplicate_check, which the Settings view edits in place
  disk,    \* disk[j]: the folder that holds the file of job j
  drive,   \* the jobs whose upload reached Drive
  sheet,   \* the jobs that have a row in the sheet
  logs,    \* logs[j]: rows of upload_logs for j, counted up to LogCap
  restarts, interventions, dbErrors, pauses   \* what the bounds count

pool   == <<up, backlog, paused, armed, gated, lost>>
object == <<pc, job, mem>>
cloud  == <<drive, sheet>>
bounds == <<dupCheck, restarts, interventions, dbErrors, pauses>>
vars   == <<pool, queue, object, db, hashes, claims, disk, cloud, logs, bounds>>

-----------------------------------------------------------------------------

LogCap == 2

\* JobsRepository.list_active: the statuses a restart picks up again.
Active   == {"DISCOVERED", "QUEUED", "HASHING", "EXTRACTING", "UPLOADING", "UPDATING_SHEET"}
Done     == {"COMPLETED", "DUPLICATE"}
Terminal == Done \cup {"NEEDS_REVIEW", "FAILED"}
NoRow    == {"ABSENT", "PRUNED"}

Folders == {"watch", "processed", "failed", "review"}

\* The columns of a job that steer the pipeline.
Rows == [status : Active \cup Terminal \cup NoRow, attempts : 0..RetryCount,
         path : Folders, hashed : BOOLEAN, manual : BOOLEAN]

Blank(s) == [status |-> s, attempts |-> 0, path |-> "watch", hashed |-> FALSE, manual |-> FALSE]

\* What a thread inside the try block of process() does next ...
Attempting == {"stabilize", "hash", "remote", "dup", "claim", "ocr", "upload", "record", "sheet", "complete"}
\* ... how it settles: _finalize of a result, or _fail and its _finalize ...
Settling   == {"finalize", "failing", "failsave"}
\* ... and what is left once the row holds the result.
Settled    == {"log", "faillog", "returned"}
Waiting    == {"sched", "queued", "backoff"}
Places     == {"free"} \cup Waiting \cup Attempting \cup Settling \cup Settled

\* From claim_for_upload to release_claim.
Holding == {"ocr", "upload", "record", "sheet", "complete", "finalize", "failing", "failsave", "log", "faillog"}

Digest(o)   == Content[job[o]]
InPlace(o)  == disk[job[o]] = mem[o].path
OnDrive(c)  == \E j \in drive : Content[j] = c
Status(o, s) == [mem[o] EXCEPT !.status = s]

Goto(o, place) == pc' = [pc EXCEPT ![o] = place]

\* VideoProcessor._save and JobsRepository.upsert: the whole row is written.
Save(o, row) ==
  /\ mem' = [mem EXCEPT ![o] = row]
  /\ db' = [db EXCEPT ![job[o]] = row]

MutantMove(o, folder, row) ==
  /\ disk' = [disk EXCEPT ![job[o]] = folder]
  /\ mem' = [mem EXCEPT ![o] = row]

\* move_to_folder, with the fields that process() sets around it.
Move(o, folder, row) ==
  /\ disk' = [disk EXCEPT ![job[o]] = folder]
  /\ mem' = [mem EXCEPT ![o] = [row EXCEPT !.path = folder]]

Drop(o) ==
  /\ pc' = [pc EXCEPT ![o] = "free"]
  /\ job' = [job EXCEPT ![o] = NoJob]
  /\ mem' = [mem EXCEPT ![o] = Blank("ABSENT")]

\* A new object for job j, put at the end of the queue by _enqueue.
EnqueueNew(o, j, row) ==
  /\ pc[o] = "free"
  /\ pc' = [pc EXCEPT ![o] = "queued"]
  /\ job' = [job EXCEPT ![o] = j]
  /\ mem' = [mem EXCEPT ![o] = row]
  /\ db' = [db EXCEPT ![j] = row]
  /\ queue' = Append(queue, o)

MutantWorkerIdle ==
  /\ armed' = armed + 1
  /\ UNCHANGED <<up, backlog, paused, gated, lost>>

\* The worker loop comes round: through the gate, or held by it.
WorkerIdle ==
  /\ armed' = IF paused THEN armed ELSE armed + 1
  /\ gated' = IF paused THEN gated + 1 ELSE gated
  /\ UNCHANGED <<up, backlog, paused, lost>>

MutantRelease(o) ==
  claims' = IF mem[o].hashed /\ mem[o].status # "FAILED" THEN claims \ {Digest(o)} ELSE claims

Release(o) == claims' = IF mem[o].hashed THEN claims \ {Digest(o)} ELSE claims

\* _extract_device_id: OCR is announced, unless the operator chose the ID.
BeginExtraction(o, row) ==
  IF row.manual
  THEN /\ mem' = [mem EXCEPT ![o] = row]
       /\ UNCHANGED db
  ELSE Save(o, [row EXCEPT !.status = "EXTRACTING"])

MutantRetryDue(o) == mem[o].status = "FAILED" /\ mem[o].attempts <= RetryCount

RetryDue(o) == mem[o].status = "FAILED" /\ mem[o].attempts < RetryCount

MutantListActive == {j \in Jobs : db[j].status \in Active \ {"HASHING"}}

ListActive == {j \in Jobs : db[j].status \in Active}

-----------------------------------------------------------------------------
(* The watcher's callback and the loop callback it schedules. *)

Discover(j) ==
  /\ up = "running"
  /\ disk[j] = "absent"
  /\ \E o \in Objects :
       /\ pc[o] = "free"
       /\ Goto(o, "sched")
       /\ job' = [job EXCEPT ![o] = j]
       /\ mem' = [mem EXCEPT ![o] = Blank("DISCOVERED")]
  /\ db' = [db EXCEPT ![j] = Blank("DISCOVERED")]
  /\ disk' = [disk EXCEPT ![j] = "watch"]
  /\ UNCHANGED <<pool, queue, hashes, claims, cloud, logs, bounds>>

Enqueue(o) ==
  /\ pc[o] = "sched"
  /\ Save(o, Status(o, "QUEUED"))
  /\ queue' = Append(queue, o)
  /\ Goto(o, "queued")
  /\ UNCHANGED <<pool, job, hashes, claims, disk, cloud, logs, bounds>>

-----------------------------------------------------------------------------
(* One attempt: VideoProcessor.process on an executor thread. *)

TakeJob(o) ==
  /\ up = "running"
  /\ armed > 0
  /\ queue # <<>>
  /\ o = Head(queue)
  /\ pc[o] = "queued"
  /\ queue' = Tail(queue)
  /\ armed' = armed - 1
  /\ Save(o, [Status(o, "QUEUED") EXCEPT !.attempts = @ + 1])
  /\ Goto(o, "stabilize")
  /\ UNCHANGED <<up, backlog, paused, gated, lost, job, hashes, claims, disk, cloud, logs, bounds>>

Stabilize(o) ==
  /\ pc[o] = "stabilize"
  /\ InPlace(o)
  /\ Save(o, Status(o, "HASHING"))
  /\ Goto(o, "hash")
  /\ UNCHANGED <<pool, queue, job, hashes, claims, disk, cloud, logs, bounds>>

\* compute_hash, then the lookup in uploaded_hashes.
HashFile(o) ==
  /\ pc[o] = "hash"
  /\ dupCheck
  /\ InPlace(o)
  /\ mem' = [mem EXCEPT ![o].hashed = TRUE]
  /\ Goto(o, IF Digest(o) \in hashes THEN "dup" ELSE "remote")
  /\ UNCHANGED <<pool, queue, job, db, hashes, claims, disk, cloud, logs, bounds>>

\* uploads.duplicate_check is off: no lookup and no claim.
HashUnchecked(o) ==
  /\ pc[o] = "hash"
  /\ ~dupCheck
  /\ InPlace(o)
  /\ BeginExtraction(o, [mem[o] EXCEPT !.hashed = TRUE])
  /\ Goto(o, "ocr")
  /\ UNCHANGED <<pool, queue, job, hashes, claims, disk, cloud, logs, bounds>>

\* A file with this digest is on Drive: backfill the local index.
FindOnDrive(o) ==
  /\ pc[o] = "remote"
  /\ OnDrive(Digest(o))
  /\ hashes' = hashes \cup {Digest(o)}
  /\ Goto(o, "dup")
  /\ UNCHANGED <<pool, queue, job, mem, db, claims, disk, cloud, logs, bounds>>

\* No such file, or the search failed: the check fails open.
NotFoundOnDrive(o) ==
  /\ pc[o] = "remote"
  /\ Goto(o, "claim")
  /\ UNCHANGED <<pool, queue, job, mem, db, hashes, claims, disk, cloud, logs, bounds>>

SkipDuplicate(o) ==
  /\ pc[o] = "dup"
  /\ InPlace(o)
  /\ Move(o, "processed", Status(o, "DUPLICATE"))
  /\ Goto(o, "finalize")
  /\ UNCHANGED <<pool, queue, job, db, hashes, claims, cloud, logs, bounds>>

MutantClaimHash(o) ==
  /\ pc[o] = "claim"
  /\ Digest(o) \notin claims
  /\ claims' = claims \cup {Digest(o)}
  /\ hashes' = hashes \cup {Digest(o)}
  /\ BeginExtraction(o, mem[o])
  /\ Goto(o, "ocr")
  /\ UNCHANGED <<pool, queue, job, disk, cloud, logs, bounds>>

ClaimHash(o) ==
  /\ pc[o] = "claim"
  /\ Digest(o) \notin claims
  /\ claims' = claims \cup {Digest(o)}
  /\ BeginExtraction(o, mem[o])
  /\ Goto(o, "ocr")
  /\ UNCHANGED <<pool, queue, job, hashes, disk, cloud, logs, bounds>>

MutantLoseClaim(o) ==
  /\ pc[o] = "claim"
  /\ Digest(o) \in claims
  /\ Goto(o, "dup")
  /\ UNCHANGED <<pool, queue, job, mem, db, hashes, claims, disk, cloud, logs, bounds>>

\* DuplicateVideoError: another attempt is uploading this digest.
LoseClaim(o) ==
  /\ pc[o] = "claim"
  /\ Digest(o) \in claims
  /\ mem' = [mem EXCEPT ![o] = Status(o, "FAILED")]
  /\ Goto(o, "failing")
  /\ UNCHANGED <<pool, queue, job, db, hashes, claims, disk, cloud, logs, bounds>>

MutantReadDeviceId(o) ==
  /\ pc[o] = "ocr"
  /\ Save(o, Status(o, "UPDATING_SHEET"))
  /\ Goto(o, "sheet")
  /\ UNCHANGED <<pool, queue, job, hashes, claims, disk, cloud, logs, bounds>>

\* OCR reads a Device ID, or the operator's choice makes OCR unnecessary.
ReadDeviceId(o) ==
  /\ pc[o] = "ocr"
  /\ Save(o, Status(o, "UPLOADING"))
  /\ Goto(o, "upload")
  /\ UNCHANGED <<pool, queue, job, hashes, claims, disk, cloud, logs, bounds>>

\* Low confidence, no Device ID, or one that does not match the pattern.
SendToReview(o) ==
  /\ pc[o] = "ocr"
  /\ InPlace(o)
  /\ Move(o, "review", Status(o, "NEEDS_REVIEW"))
  /\ Goto(o, "finalize")
  /\ UNCHANGED <<pool, queue, job, db, hashes, claims, cloud, logs, bounds>>

\* VideoReadError: the frames cannot be decoded.
CannotReadVideo(o) ==
  /\ pc[o] = "ocr"
  /\ ~mem[o].manual
  /\ mem' = [mem EXCEPT ![o] = Status(o, "NEEDS_REVIEW")]
  /\ Goto(o, "failing")
  /\ UNCHANGED <<pool, queue, job, db, hashes, claims, disk, cloud, logs, bounds>>

UploadFile(o) ==
  /\ pc[o] = "upload"
  /\ InPlace(o)
  /\ drive' = drive \cup {job[o]}
  /\ Goto(o, "record")
  /\ UNCHANGED <<pool, queue, job, mem, db, hashes, claims, disk, sheet, logs, bounds>>

\* record_upload and the save that opens _update_sheet: two writes taken as one, since
\* a row that still says UPLOADING is to everybody else as one that says UPDATING_SHEET.
RecordUpload(o) ==
  /\ pc[o] = "record"
  /\ hashes' = hashes \cup {Digest(o)}
  /\ Save(o, Status(o, "UPDATING_SHEET"))
  /\ Goto(o, "sheet")
  /\ UNCHANGED <<pool, queue, job, claims, disk, cloud, logs, bounds>>

UpdateSheet(o) ==
  /\ pc[o] = "sheet"
  /\ sheet' = IF SheetConfigured THEN sheet \cup {job[o]} ELSE sheet
  /\ Goto(o, "complete")
  /\ UNCHANGED <<pool, queue, job, mem, db, hashes, claims, disk, drive, logs, bounds>>

Complete(o) ==
  /\ pc[o] = "complete"
  /\ InPlace(o)
  /\ Move(o, "processed", Status(o, "COMPLETED"))
  /\ Goto(o, "finalize")
  /\ UNCHANGED <<pool, queue, job, db, hashes, claims, cloud, logs, bounds>>

\* Any step may raise: the file is gone, Drive, Sheets, OCR or SQLite fails.
StepFails(o) ==
  /\ pc[o] \in Attempting
  /\ mem' = [mem EXCEPT ![o] = Status(o, "FAILED")]
  /\ Goto(o, "failing")
  /\ UNCHANGED <<pool, queue, job, db, hashes, claims, disk, cloud, logs, bounds>>

\* The call took effect at Google and its answer never came back.
AnswerLost(o) ==
  /\ \/ /\ pc[o] = "upload"
        /\ InPlace(o)
        /\ drive' = drive \cup {job[o]}
        /\ UNCHANGED sheet
     \/ /\ pc[o] = "sheet"
        /\ SheetConfigured
        /\ sheet' = sheet \cup {job[o]}
        /\ UNCHANGED drive
  /\ mem' = [mem EXCEPT ![o] = Status(o, "FAILED")]
  /\ Goto(o, "failing")
  /\ UNCHANGED <<pool, queue, job, db, hashes, claims, disk, logs, bounds>>

\* _fail: put the file aside if it is still there; an OSError is swallowed.
MoveAside(o) ==
  /\ pc[o] = "failing"
  /\ \/ /\ InPlace(o)
        /\ Move(o, IF mem[o].status = "NEEDS_REVIEW" THEN "review" ELSE "failed", mem[o])
     \/ UNCHANGED <<disk, mem>>
  /\ Goto(o, "failsave")
  /\ UNCHANGED <<pool, queue, job, db, hashes, claims, cloud, logs, bounds>>

\* _finalize, first write: the settled row.
Finalize(o) ==
  /\ pc[o] \in {"finalize", "failsave"}
  /\ Save(o, mem[o])
  /\ Goto(o, IF pc[o] = "finalize" THEN "log" ELSE "faillog")
  /\ UNCHANGED <<pool, queue, job, hashes, claims, disk, cloud, logs, bounds>>

\* _finalize, second write: the audit row; then the finally clause of process().
AppendLog(o) ==
  /\ pc[o] \in {"log", "faillog"}
  /\ logs' = [logs EXCEPT ![job[o]] = IF @ < LogCap THEN @ + 1 ELSE @]
  /\ Release(o)
  /\ Goto(o, "returned")
  /\ UNCHANGED <<pool, queue, job, mem, db, hashes, disk, cloud, bounds>>

\* A write of _finalize raises.  Inside the try block process() turns that
\* into a failure of the attempt; inside an except clause it escapes, and so
\* does one of the pool's own write: the worker's task ends.
DbWriteFails(o) ==
  /\ dbErrors < MaxDbErrors
  /\ dbErrors' = dbErrors + 1
  /\ \/ /\ pc[o] \in {"finalize", "log"}
        /\ mem' = [mem EXCEPT ![o] = Status(o, "FAILED")]
        /\ Goto(o, "failing")
        /\ UNCHANGED <<lost, job, claims>>
     \/ /\ pc[o] \in {"failsave", "faillog"}
        /\ Release(o)
        /\ Drop(o)
        /\ lost' = IF up = "running" THEN lost + 1 ELSE lost
     \/ /\ pc[o] = "returned"
        /\ up = "running"
        /\ RetryDue(o)
        /\ Drop(o)
        /\ lost' = lost + 1
        /\ UNCHANGED claims
  /\ UNCHANGED <<up, backlog, paused, armed, gated, queue, db, hashes, disk, cloud, logs,
                 dupCheck, restarts, interventions, pauses>>

-----------------------------------------------------------------------------
(* The worker coroutine, once the executor's future is resolved. *)

Report(o) ==
  /\ pc[o] = "returned"
  /\ up = "running"
  /\ ~RetryDue(o)
  /\ Drop(o)
  /\ WorkerIdle
  /\ UNCHANGED <<queue, db, hashes, claims, disk, cloud, logs, bounds>>

MutantScheduleRetry(o) ==
  /\ pc[o] = "returned"
  /\ up = "running"
  /\ RetryDue(o)
  /\ mem' = [mem EXCEPT ![o] = Status(o, "QUEUED")]
  /\ Goto(o, "backoff")
  /\ WorkerIdle
  /\ UNCHANGED <<queue, job, db, hashes, claims, disk, cloud, logs, bounds>>

ScheduleRetry(o) ==
  /\ pc[o] = "returned"
  /\ up = "running"
  /\ RetryDue(o)
  /\ Save(o, Status(o, "QUEUED"))
  /\ Goto(o, "backoff")
  /\ WorkerIdle
  /\ UNCHANGED <<queue, job, hashes, claims, disk, cloud, logs, bounds>>

MutantRequeue(o) ==
  /\ pc[o] = "backoff"
  /\ Drop(o)
  /\ UNCHANGED <<pool, queue, db, hashes, claims, disk, cloud, logs, bounds>>

\* _requeue_after_backoff, while the pool runs.
Requeue(o) ==
  /\ pc[o] = "backoff"
  /\ queue' = Append(queue, o)
  /\ Goto(o, "queued")
  /\ UNCHANGED <<pool, job, mem, db, hashes, claims, disk, cloud, logs, bounds>>

\* The task was cancelled by stop(): the attempt's result reaches nobody.
Abandon(o) ==
  /\ pc[o] = "returned"
  /\ up = "stopping"
  /\ Drop(o)
  /\ UNCHANGED <<pool, queue, db, hashes, claims, disk, cloud, logs, bounds>>

-----------------------------------------------------------------------------
(* Commands of the operator, run on the loop. *)

\* start() has come to an await, or is over: the loop gets to its callbacks.
LoopListens == up \in {"starting", "running"} \/ (up = "requeueing" /\ backlog = {})

\* retry_job: a fresh object from the row, whatever else is in memory.
RetryJob(j) ==
  /\ LoopListens
  /\ interventions < MaxInterventions
  /\ db[j].status \in {"FAILED", "NEEDS_REVIEW"}
  /\ disk[j] = db[j].path
  /\ \E o \in Objects : EnqueueNew(o, j, [db[j] EXCEPT !.status = "QUEUED", !.attempts = 0])
  /\ interventions' = interventions + 1
  /\ UNCHANGED <<pool, hashes, claims, disk, cloud, logs, dupCheck, restarts, dbErrors, pauses>>

ResolveNeedsReview(j) ==
  /\ LoopListens
  /\ interventions < MaxInterventions
  /\ db[j].status = "NEEDS_REVIEW"
  /\ disk[j] = db[j].path
  /\ \E o \in Objects :
       EnqueueNew(o, j, [db[j] EXCEPT !.status = "QUEUED", !.attempts = 0, !.manual = TRUE])
  /\ interventions' = interventions + 1
  /\ UNCHANGED <<pool, hashes, claims, disk, cloud, logs, dupCheck, restarts, dbErrors, pauses>>

\* SettingsView._save writes into the settings object that process() reads.
ToggleDuplicateCheck ==
  /\ up # "down"
  /\ interventions < MaxInterventions
  /\ dupCheck' = ~dupCheck
  /\ interventions' = interventions + 1
  /\ UNCHANGED <<pool, queue, object, db, hashes, claims, disk, cloud, logs, restarts, dbErrors, pauses>>

Pause ==
  /\ LoopListens
  /\ ~paused
  /\ pauses < MaxPauses
  /\ paused' = TRUE
  /\ pauses' = pauses + 1
  /\ UNCHANGED <<up, backlog, armed, gated, lost, queue, object, db, hashes, claims, disk, cloud, logs,
                 dupCheck, restarts, interventions, dbErrors>>

MutantResume ==
  /\ LoopListens
  /\ paused
  /\ paused' = FALSE
  /\ armed' = armed + gated
  /\ UNCHANGED <<up, backlog, gated, lost, queue, object, db, hashes, claims, disk, cloud, logs, bounds>>

Resume ==
  /\ LoopListens
  /\ paused
  /\ paused' = FALSE
  /\ armed' = armed + gated
  /\ gated' = 0
  /\ UNCHANGED <<up, backlog, lost, queue, object, db, hashes, claims, disk, cloud, logs, bounds>>

-----------------------------------------------------------------------------
(* The life of the process. *)

Boot ==
  /\ up = "down"
  /\ up' = "starting"
  /\ UNCHANGED <<backlog, paused, armed, gated, lost, queue, object, db, hashes, claims, disk, cloud, logs, bounds>>

\* _requeue_incomplete_jobs reads list_active and does not yield until it is
\* through; until then nobody else runs.
LoadBacklog ==
  /\ up = "starting"
  /\ up' = "requeueing"
  /\ backlog' = ListActive
  /\ UNCHANGED <<paused, armed, gated, lost, queue, object, db, hashes, claims, disk, cloud, logs, bounds>>

RequeueIncomplete(j) ==
  /\ up = "requeueing"
  /\ j \in backlog
  /\ backlog' = backlog \ {j}
  /\ \/ /\ disk[j] = db[j].path
        /\ \E o \in Objects : EnqueueNew(o, j, [db[j] EXCEPT !.status = "QUEUED", !.attempts = 0])
     \/ /\ disk[j] # db[j].path
        /\ db' = [db EXCEPT ![j].status = "FAILED"]
        /\ UNCHANGED <<queue, object>>
  /\ UNCHANGED <<up, paused, armed, gated, lost, hashes, claims, disk, cloud, logs, bounds>>

\* _prune_old_jobs drops the done rows old enough, then the pool starts.
StartPool ==
  /\ up = "requeueing"
  /\ backlog = {}
  /\ \E old \in SUBSET {j \in Jobs : db[j].status \in Done} :
       db' = [j \in Jobs |-> IF j \in old THEN Blank("PRUNED") ELSE db[j]]
  /\ up' = "running"
  /\ armed' = IF paused THEN 0 ELSE MaxConcurrent
  /\ gated' = IF paused THEN MaxConcurrent ELSE 0
  /\ UNCHANGED <<backlog, paused, lost, queue, object, hashes, claims, disk, cloud, logs, bounds>>

\* The objects in S cease to exist, with the queue and the workers.
Discard(S) ==
  /\ pc' = [o \in Objects |-> IF o \in S THEN "free" ELSE pc[o]]
  /\ job' = [o \in Objects |-> IF o \in S THEN NoJob ELSE job[o]]
  /\ mem' = [o \in Objects |-> IF o \in S THEN Blank("ABSENT") ELSE mem[o]]
  /\ queue' = <<>>
  /\ backlog' = {}
  /\ paused' = FALSE
  /\ armed' = 0
  /\ gated' = 0
  /\ lost' = 0

\* stop(): what waits is dropped, threads that run finish their attempt.
Stop ==
  /\ up = "running"
  /\ restarts < MaxRestarts
  /\ restarts' = restarts + 1
  /\ up' = "stopping"
  /\ Discard({o \in Objects : pc[o] \in Waiting})
  /\ UNCHANGED <<db, hashes, claims, disk, cloud, logs, dupCheck, interventions, dbErrors, pauses>>

Exit ==
  /\ up = "stopping"
  /\ \A o \in Objects : pc[o] = "free"
  /\ up' = "down"
  /\ claims' = {}
  /\ UNCHANGED <<backlog, paused, armed, gated, lost, queue, object, db, hashes, disk, cloud, logs, bounds>>

Crash ==
  /\ up # "down"
  /\ restarts < MaxRestarts
  /\ restarts' = restarts + 1
  /\ up' = "down"
  /\ Discard(Objects)
  /\ claims' = {}
  /\ UNCHANGED <<db, hashes, disk, cloud, logs, dupCheck, interventions, dbErrors, pauses>>

-----------------------------------------------------------------------------

Init ==
  /\ up = "down"
  /\ backlog = {}
  /\ paused = FALSE
  /\ armed = 0 /\ gated = 0 /\ lost = 0
  /\ queue = <<>>
  /\ pc = [o \in Objects |-> "free"]
  /\ job = [o \in Objects |-> NoJob]
  /\ mem = [o \in Objects |-> Blank("ABSENT")]
  /\ db = [j \in Jobs |-> Blank("ABSENT")]
  /\ hashes = {} /\ claims = {}
  /\ disk = [j \in Jobs |-> "absent"]
  /\ drive = {} /\ sheet = {}
  /\ logs = [j \in Jobs |-> 0]
  /\ dupCheck = TRUE
  /\ restarts = 0 /\ interventions = 0 /\ dbErrors = 0 /\ pauses = 0

\* A step of the attempt that object o is going through.
Attempt(o) ==
  \/ Stabilize(o) \/ HashFile(o) \/ HashUnchecked(o)
  \/ FindOnDrive(o) \/ NotFoundOnDrive(o) \/ SkipDuplicate(o)
  \/ ClaimHash(o) \/ LoseClaim(o)
  \/ ReadDeviceId(o) \/ SendToReview(o) \/ CannotReadVideo(o)
  \/ UploadFile(o) \/ RecordUpload(o) \/ UpdateSheet(o) \/ Complete(o)
  \/ StepFails(o) \/ AnswerLost(o)
  \/ MoveAside(o) \/ Finalize(o) \/ AppendLog(o)

\* A step of the loop on behalf of object o.
Loop(o) ==
  \/ Enqueue(o) \/ TakeJob(o)
  \/ Report(o) \/ ScheduleRetry(o) \/ Requeue(o) \/ Abandon(o)

Operator ==
  \/ \E j \in Jobs : RetryJob(j) \/ ResolveNeedsReview(j)
  \/ ToggleDuplicateCheck
  \/ Pause \/ Resume

Lifecycle ==
  \/ Boot \/ LoadBacklog \/ StartPool
  \/ \E j \in Jobs : RequeueIncomplete(j)
  \/ Stop \/ Exit \/ Crash

Next ==
  \/ \E j \in Jobs : Discover(j)
  \/ \E o \in Objects : Attempt(o) \/ Loop(o) \/ DbWriteFails(o)
  \/ Operator
  \/ Lifecycle

Spec == Init /\ [][Next]_vars

\* Threads and loop callbacks keep running; arrivals, the operator, failures
\* and the life of the process are under nobody's obligation.
Fairness == \A o \in Objects : WF_vars(Attempt(o)) /\ WF_vars(Loop(o))

FairSpec == Spec /\ Fairness
=============================================================================
