----------------------- MODULE UploadPipelineProperties -----------------------
(***************************************************************************)
(* What UploadPipeline is checked against.                                 *)
(***************************************************************************)
EXTENDS UploadPipeline

\* Every variable has its type; in particular no object makes more than
\* RetryCount attempts between two orders to start afresh.
TypeOK ==
  /\ up \in {"down", "starting", "requeueing", "running", "stopping"}
  /\ backlog \in SUBSET Jobs
  /\ paused \in BOOLEAN
  /\ armed \in Nat /\ gated \in Nat /\ lost \in Nat
  /\ queue \in Seq(Objects)
  /\ pc \in [Objects -> Places]
  /\ job \in [Objects -> Jobs \cup {NoJob}]
  /\ mem \in [Objects -> Rows]
  /\ db \in [Jobs -> Rows]
  /\ hashes \in SUBSET Contents
  /\ claims \in SUBSET Contents
  /\ disk \in [Jobs -> Folders \cup {"absent"}]
  /\ drive \in SUBSET Jobs
  /\ sheet \in SUBSET Jobs
  /\ logs \in [Jobs -> 0..LogCap]
  /\ dupCheck \in BOOLEAN
  /\ restarts \in Nat /\ interventions \in Nat /\ dbErrors \in Nat /\ pauses \in Nat

Carrying == Waiting \cup Attempting \cup Settling

Carriers(j) == {o \in Objects : job[o] = j /\ pc[o] \in Carrying}

\* While the application runs and no worker has died, every row that says the
\* video is being handled has an object that handles it: nothing hangs in an
\* active status until the next restart.  (PipelineOrchestrator, UploadWorkerPool)
ActiveHasCarrier ==
  up = "running" /\ lost = 0 => \A j \in Jobs : db[j].status \in Active => Carriers(j) # {}

\* A digest is claimed only while an attempt that may upload it is on its way:
\* whatever happens to that attempt, the claim never outlives it and blocks the
\* digest for good.  (VideoProcessor.process, its finally clause)
NoLeakedClaim ==
  \A c \in claims : \E o \in Objects : pc[o] \in Holding /\ Digest(o) = c

\* The dedup index is right: what uploaded_hashes lists is on Drive, at any
\* moment, across crashes.  (VideoProcessor._upload, _find_remote_duplicate)
IndexIsOnDrive == \A c \in hashes : OnDrive(c)

Delivered(j) == j \in drive /\ (SheetConfigured => j \in sheet)

\* A row that says COMPLETED is about a video that is on Drive and in the sheet.
\* (VideoProcessor.process: the order upload, sheet, status, move)
CompletedIsDelivered ==
  \A j \in Jobs : db[j].status = "COMPLETED" => Delivered(j)

\* A video is put away as a DUPLICATE only when its content is on Drive; two
\* copies that arrive together never both go unuploaded.
\* (VideoProcessor._hash_and_dedup_check)
DuplicateIsOnDrive ==
  \A j \in Jobs : db[j].status = "DUPLICATE" => OnDrive(Content[j])

\* A job that waits in memory, for its turn or for its backoff to end, has a row
\* that a restart picks up; unless the operator has put a second object of the
\* job in play.  (UploadWorkerPool._process_with_retry: the upsert before call_later)
WaitingSurvivesRestart ==
  interventions = 0 =>
    \A o \in Objects : pc[o] \in Waiting => db[job[o]].status \in Active

\* The row of a settled job names the folder its file is in, so that a retry
\* finds it; unless the application died between the move and the save, SQLite
\* refused the save, or a second object of the job is in play.
\* (VideoProcessor._fail, _finalize)
SettledFileIsFound ==
  restarts + interventions + dbErrors = 0 =>
    \A j \in Jobs : db[j].status \in Terminal /\ Carriers(j) = {} => disk[j] = db[j].path

\* The objects whose attempt occupies a worker.
Busy == {o \in Objects : pc[o] \in Attempting \cup Settling \cup Settled}

\* Every worker is waiting, held at the gate, in an attempt or dead: the pool
\* never runs more attempts than it has workers.  (UploadWorkerPool._worker_loop)
WorkersAccountedFor ==
  up = "running" =>
    armed + gated + lost + Cardinality(Busy) = MaxConcurrent

\* ARCHITECTURE.md has it that no exception "kills a worker task"; a write that
\* SQLite refuses does.  What is kept: a worker that dies leaves at most the one job
\* it had in hand in an active status with nobody to handle it; the others go on.
\* (VideoProcessor.process: what escapes its except clauses; UploadWorkerPool._worker_loop)
DeadWorkerStrandsOne ==
  up = "running" =>
    Cardinality({j \in Jobs : db[j].status \in Active /\ Carriers(j) = {}}) <= lost

Started == {o \in Objects : pc[o] = "queued" /\ pc'[o] \in Attempting}

\* A pause drains the pool, though jobs may still start in it: each one that does
\* uses up, for good, a worker that stood at the queue when Pause was pressed.
\* Attempts that end, backoffs that come back and orders of the operator put no new
\* one there.  (UploadWorkerPool.pause, _worker_loop: the gate comes before queue.get())
PauseDrains == [][paused /\ paused' => armed' + Cardinality(Started) <= armed]_vars

\* A job that is being handled is settled, as long as the application runs
\* unpaused and no worker dies: no retry goes on for ever and no claim is waited
\* for in vain.  (UploadWorkerPool, DedupService)
JobsSettle ==
  \A j \in Jobs :
    (up = "running" /\ db[j].status \in Active) ~>
      (db[j].status \in Terminal \/ up # "running" \/ paused \/ lost > 0)

-----------------------------------------------------------------------------
\* The pipeline implements the contract.

Phase(s) ==
  CASE s = "ABSENT" -> "unseen"
    [] s \in Active -> "open"
    [] s = "COMPLETED" -> "completed"
    [] s = "DUPLICATE" -> "duplicate"
    [] s \in {"FAILED", "NEEDS_REVIEW"} -> "attention"
    [] s = "PRUNED" -> "forgotten"

Contract == INSTANCE DeliveryContract
  WITH phase <- [j \in Jobs |-> Phase(db[j].status)], stored <- drive, listed <- sheet

\* Whatever the interleaving, retries, crashes and failed writes, the jobs
\* table, Drive and the sheet evolve as DeliveryContract says.
DeliversAsPromised == Contract!Spec

-----------------------------------------------------------------------------
\* What has to be added to the properties to make them inductive.

Live(o)      == pc[o] # "free"

\* An object in use is about a job, has a status, and while it waits an attempt left.
ObjectsOK ==
  \A o \in Objects : Live(o) =>
    /\ job[o] \in Jobs
    /\ mem[o].status \in Active \cup Terminal
    /\ pc[o] \in Waiting => mem[o].attempts < RetryCount

\* What is about to be reported is a result.
ResultsOK == \A o \in Objects : pc[o] \in Settling => mem[o].status \in Terminal

\* A job that is known to anybody has a row and had a file.
RowsExist ==
  /\ \A o \in Objects : Live(o) => db[job[o]].status # "ABSENT"
  /\ \A j \in backlog : db[j].status # "ABSENT"
  /\ \A j \in Jobs : disk[j] = "absent" => db[j].status = "ABSENT"

\* What an attempt has behind it, and what its object may therefore say.
AttemptsDeliver ==
  \A o \in Objects : Live(o) =>
    /\ pc[o] \in {"record", "sheet", "complete"} => job[o] \in drive
    /\ pc[o] = "complete" => Delivered(job[o])
    /\ mem[o].status = "COMPLETED" => Delivered(job[o])
    /\ pc[o] = "dup" \/ mem[o].status = "DUPLICATE" => OnDrive(Digest(o))

\* The holder of a claim knows the digest, so that it will release the claim.
ClaimsReleasable ==
  /\ \A o \in Objects : pc[o] \in {"remote", "claim"} => mem[o].hashed
  /\ \A c \in claims : \E o \in Objects : pc[o] \in Holding /\ Digest(o) = c /\ mem[o].hashed

\* Before the pool runs there are only queued objects; and every active row is carried by an object or will be given one.
RowsCarried ==
  /\ up = "down" => \A o \in Objects : ~Live(o)
  /\ up \in {"starting", "requeueing"} => \A o \in Objects : pc[o] \in {"free", "queued"}
  /\ up = "requeueing" \/ (up = "running" /\ lost = 0) =>
       \A j \in Jobs : db[j].status \in Active => Carriers(j) # {} \/ (up = "requeueing" /\ j \in backlog)

\* Only a running application has workers, and attempts only outlive them while it stops.
NoWorkersAtRest ==
  /\ up # "running" => armed = 0 /\ gated = 0 /\ lost = 0
  /\ up \in {"down", "starting", "requeueing"} => Busy = {}

\* Without orders of the operator a job has one object at most: none until the
\* backlog is loaded, and none while it is in the backlog.
OneObjectPerJob ==
  interventions = 0 =>
    /\ up \in {"down", "starting"} => \A o \in Objects : ~Live(o)
    /\ \A o, p \in Objects : Live(o) /\ Live(p) /\ job[o] = job[p] => o = p
    /\ \A o \in Objects : Live(o) => job[o] \notin backlog

\* Without crashes and refused writes, either, an object knows where its file is,
\* and so does the row once it holds the result.
FilesKept ==
  restarts + interventions + dbErrors = 0 =>
    /\ up # "stopping"
    /\ up # "running" => \A j \in Jobs : db[j].status = "ABSENT"
    /\ \A o \in Objects : Live(o) =>
         disk[job[o]] = mem[o].path /\ (pc[o] \in Settled => db[job[o]].path = mem[o].path)
    /\ \A j \in Jobs : db[j].status # "ABSENT" /\ (\A o \in Objects : Live(o) => job[o] # j)
         => disk[j] = db[j].path

\* The rows that nobody handles, though they say so.
Stranded == {j \in Jobs : db[j].status \in Active /\ Carriers(j) = {}}

-----------------------------------------------------------------------------
\* What the documentation says and the code does not do.

\* dedup_service.py: a second job's claim of a digest that is being uploaded is
\* rejected; video_processor.py: releasing is a no-op for an attempt that never
\* claimed the digest.
ExclusiveClaim ==
  \A o, p \in Objects :
    {pc[o], pc[p]} \subseteq {"ocr", "upload", "record", "sheet", "complete"} /\ Digest(o) = Digest(p) => o = p

\* dedup_service.py: a video that failed partway through is not treated as a
\* duplicate on retry.
NeverItsOwnDuplicate ==
  \A j \in Jobs : db[j].status = "DUPLICATE" => \E k \in drive \ {j} : Content[k] = Content[j]

\* upload_worker_pool.py: the workers gate before they pull their next job, so that
\* nothing new starts until resumed; pipeline_thread.py: stop starting new uploads.
NothingStartsWhilePaused == [][paused /\ paused' => Started = {}]_vars
=============================================================================
