# A verification of InstaCore Sync and Job Agent

The repository holds two programs.

* **InstaCore Sync** (`whatsapp_video_automation/src/instacore_sync`) watches a folder for
  videos, reads a Device ID from the first frames, uploads each video to Google Drive, writes
  a row to a Google sheet and files the video away. It runs unattended, with 10 to 20 uploads
  at once, on many machines that share one Drive folder and one sheet.
* **Job Agent** (`src/job_agent`) finds job postings, scores them against a candidate,
  prepares applications and, behind several gates, submits them. It is a set of commands that
  share one SQLite database.

This directory holds TLA+ models of their core logic, TLC configurations, and theorems checked
by TLAPS. Present state: the core of each program, the upload pipeline of InstaCore Sync and the
application lifecycle of Job Agent, is modelled, checked and largely proved; so are, in modules of
their own, the folder watcher and its thread, the clients of Drive, Sheets and Google sign-in, the
backups, the search for the Device ID, the scans, the matching, the answers and the browser commands.
What is left out is listed in section 8, what is still planned in section 9.

`tlc -config UploadPipelineRestart.cfg MCUploadPipeline.tla` runs one of the checks,
`tlapm UploadPipelineDeliveryProofs.tla` checks one module of proofs. `PROJECT.json` lists the
components, the runs, the lines each definition models, the hazards and the theorems.

## 1. Inventory

### InstaCore Sync

| Component | State | Operations | Interacts with |
|---|---|---|---|
| `PipelineOrchestrator` | the loop, the running flag | start (requeue, prune, pool, watcher), stop, retry_job, resolve_needs_review, pause, resume | everything below; called by `PipelineThread` through `call_soon_threadsafe` and by the watcher's thread |
| `UploadQueue`, `UploadWorkerPool` | the queue, the worker tasks, the resume event | worker loop, retry with backoff, pause, resume, start, stop | runs `VideoProcessor.process` on an executor thread per worker |
| `VideoProcessor` | none of its own; the `VideoJob` object in hand | stabilize, hash, duplicate checks, claim, OCR, upload, sheet, finalize, fail | jobs, logs and hashes tables, the file, Drive, Sheets, OCR |
| `DedupService` | `_in_flight`, a set of digests under a lock; the table `uploaded_hashes` | find_duplicate, claim_for_upload, release_claim, record_upload | shared by all executor threads |
| Repositories, `Database` | SQLite: jobs, upload_logs, uploaded_hashes, folder_cache, settings | upsert of whole rows, queries, pruning | one writer at a time |
| `FolderWatcher` | `_seen`, a candidate queue, three threads | start, stop, event, sweep, prune of `_seen` | calls `_on_video_discovered` |
| `PipelineThread` | the loop, the stop event | run, stop, proxies of the commands | the Qt thread on one side, the loop on the other |
| `DriveClient` | the folder cache | find or create a folder, clear duplicates away, upload, find by digest | other installations on the same Drive |
| `SheetsClient` | the row cache | upsert_row | other installations on the same sheet |
| `GoogleAuthService` | credentials under a lock, an encrypted token | refresh, sign in, sign out | every Drive and Sheets call |
| OCR, frames, preprocessing | none | extract | pure, given a file |
| Health checks, backups, interface | none, archives, settings | | settings are edited in place while the pipeline reads them |

What is hard in it: several executor threads and one loop work on the same rows and the same
set of claims; what travels is a *copy* of a row that is written back whole, so that two copies
of one job overwrite each other; a job is retried by the pool, by the operator and by a restart;
the process may die between any two writes, and between a write and the move of a file; calls to
Google may take effect without an answer; the operator edits settings that running attempts read.

What makes it correct: what the tables say of a video is true (COMPLETED, DUPLICATE, the index of
digests); a video is never forgotten; a claim never blocks a digest for good; retries end; a
settled file can be found; pausing drains; the pool keeps its workers. For the watcher: every file
that arrives is reported, and reported once. For Drive: clearing duplicates away trashes nothing that
has a video in it, and one folder of a name is left. For the sheet: one row per video. For the
sign-in: who signs out stays out, and nobody waits for ever. For the backups: there is always one that
is complete. For the Device ID: of what is read the best is returned.

### Job Agent

| Component | State | Operations | Hard behaviour |
|---|---|---|---|
| Application lifecycle (`applications/service.py`, `state_machine.py`, `approvals.py`, `allowlist.py`, `rate_limits.py`) | applications, answers, approvals, allowlist, events | discover, prepare, retry, approve, submit, verify | several processes on one database, each command a few transactions; a crash around the call to the employer's system; single use of approvals |
| Providers, browser | forms, snapshots | inspect, questions, submit, verify | outcomes that are not known |
| Answers | the answer bank | generate, validate | the order of sources, when a human is required |
| Job discovery | sources, jobs | scan, upsert, freshness | fingerprints, a failing source among others |
| Matching | matches | score, decide | bands and hard stops at their boundaries |
| Candidate, resume | the candidate's files, rows, versions | parse, save, validate, version | a person edits the files between the reads; two commands at once |
| Command line, configuration, credentials, HTTP, LLM, logging | files, keyring | | parsing and I/O |

What makes it correct: an application moves only along the status graph; what is submitted is
what a human approved; an approval is used once; limits hold; nothing is submitted twice. A posting
has one row; a batch that returns has stored what it handled; a decision does not depend on whether a
hopeless job was shown to the model; a protected question is answered by a person; what is typed into
a form answers the question that the field asks, and a fill that is recorded was approved; what is said of a
profile, that the resume bears it out, is true of the profile and the resume at hand.

## 2. Modules

| Module | What it is |
|---|---|
| `UploadPipeline` | the pipeline: state, one action per step, fairness |
| `UploadPipelineProperties` | type invariant, safety, action and liveness properties, the refinement, the strengthenings the proofs need, and three claims of the documentation |
| `DeliveryContract` | what the pipeline promises, without threads, retries or crashes |
| `MCUploadPipeline` | constants, symmetry and a constraint for TLC |
| `UploadPipelineProofs` | rows, the shape of a step of an attempt, type correctness |
| `UploadPipelineDeliveryProofs` | the delivery invariant, the refinement, and where rows and files are without disturbances |
| `UploadPipelineCarrierProofs` | no claim leaks, no active row is abandoned, a dead worker strands one; the pause and the count of the worker pool |
| `ApplicationLifecycle` | the job-agent commands over one database and one platform |
| `ApplicationLifecycleProperties` | type invariant, safety and action properties, the refinement, and two claims of the documentation |
| `ApplicationContract` | what the candidate may rely on: one life per application, one sending per consent, no sessions and gates |
| `MCApplicationLifecycle` | constants, symmetry, initial states and a constraint for TLC |
| `ApplicationLifecycleProofs` | type correctness, and what holds for any number of processes |
| `ApplicationSequentialProofs` | what holds for one process at a time |
| `FolderWatcher`, `PipelineThread` | the watcher's threads and its folder; the thread that starts and stops it |
| `DriveFolders` | the folders of a day and a device, found and created by several installations |
| `SheetRows`, `MCSheetRows` | the rows of the sheet and the row cache of each installation; an instance of its own for TLC |
| `GoogleSignIn` | the credentials and their lock |
| `Backups` | backups, restores, starts and Safe Mode |
| `DeviceIdExtraction` | the search for the Device ID over frames, preprocessings and engines |
| `JobDiscovery` | the batches `jobs scan` and `jobs match` over one database |
| `JobMatching` | the score of one job and the decision |
| `AnswerEngine` | the answers to the questions of one form |
| `BrowserFill` | `browser-preview`, `browser-approve`, `browser-fill` over one form |
| `ProfileVersions` | `profile parse` and the other commands that read the candidate's files |
| `MCComponents` | constants for TLC of the eleven components of the last rows, and their types |
| `UploadComponentProofs` | theorems about the watcher, Drive folders, sheet rows, the sign-in, the backups and the search for the Device ID |
| `AgentComponentProofs` | theorems about the browser commands, the answers, the batches, the profile and the matching |
| `ComponentTypeProofs` | the types of all the components, side by side |

Which module composes which: `DeliveryContract` is instantiated by `UploadPipelineProperties`, which
extends `UploadPipeline`; `ApplicationContract` by `ApplicationLifecycleProperties`, which extends
`ApplicationLifecycle`; `PipelineThread` extends `FolderWatcher`, so that starting, stopping and
the watcher's threads are interleaved with the arrival of videos. The components from `DriveFolders` on
share no state with each other or with the two cores. `MCComponents` puts them side by side: a variable
`part`, chosen at the start, says whose behaviour this is, the others rest in their initial states, and
the fairness is that of the component. What TLC checks is each component on its own instance, in one run.

### How UploadPipeline corresponds to the code

* **Objects and rows.** `mem[o]` is a `VideoJob` in memory, `db[j]` the row of its job. `Save` is
  `JobsRepository.upsert`: the whole row is written. Of the columns the model keeps those that steer
  the pipeline: the status, `attempt_count`, which folder `source_path` is in, whether the digest is
  known, `manually_confirmed`. `retry_job`, `resolve_needs_review` and the requeue make a *new*
  object from the row, as the code does, so two objects of a job can be alive.
* **Places.** `pc[o]` says where the object is: scheduled on the loop (`sched`), in the queue,
  waiting out a backoff, at a step of `process`, or returned by the executor. A step of `process` is
  the code from one shared effect (a write, a claim, a move, a call to Google) to just before the
  next; what lies between touches only the object of the thread.
* **Attempts.** `TakeJob`, `Stabilize`, `HashFile`/`HashUnchecked`, `FindOnDrive`/`NotFoundOnDrive`,
  `SkipDuplicate`, `ClaimHash`/`LoseClaim`, `ReadDeviceId`/`SendToReview`/`CannotReadVideo`,
  `UploadFile`, `RecordUpload`, `UpdateSheet`, `Complete`, then `Finalize` and `AppendLog`.
  `StepFails` is an exception at any of these steps, `AnswerLost` one raised by a call that took
  effect. `MoveAside` is `_fail`. The release of the claim in the `finally` clause is part of the
  last step of the attempt.
* **The pool.** `armed` counts workers that are past the resume gate, `gated` those that wait at it,
  `lost` those whose task has ended with an exception. `WorkerIdle` is the worker loop coming round.
* **The process.** `Boot`, `LoadBacklog`, `RequeueIncomplete` and `StartPool` are
  `PipelineOrchestrator.start`. `_requeue_incomplete_jobs` does not yield, so nobody else runs while
  `backlog` is not empty; a command of the operator can come before it (while the probes are awaited)
  and after it (while the pruning is awaited): `LoopListens`. `Stop` cancels the workers and drops what waits; the
  executor's threads finish their attempt (`Abandon`), then `Exit`. `Crash` loses all memory.
* **Google.** `drive` is the set of jobs with a file on Drive, `sheet` of those with a row. The
  search by digest may find what is there; it may also miss it, since the check fails open.
* **Failed writes.** `DbWriteFails` lets SQLite refuse the writes by which an attempt or the pool
  reports a result, where the code's handling differs from that of `StepFails`.

### How ApplicationLifecycle corresponds to the code

* **Rows.** `status`, `submitted` and `answers` are the columns of `applications` and the rows of
  `application_answers`; an application exists once `status[j] # "none"`. `posting[j]` is what the
  row of the job says, of which `Fingerprint` keeps what `compute_job_fingerprint` keeps;
  `decision[j]` is its latest match. `approvals` and `listings` are the tables
  `application_approvals` and `application_allowlist_entries`, in the order of their ids.
* **Commands.** `cli[p]` is the command that process `p` runs. `Begin` loads the rows, and the session
  never refreshes them (`expire_on_commit=False`): `SetStatus`, which is `transition_status`,
  checks the move against the status that was *loaded* (`seen`), and writes the column only if the
  value differs from that. Queries (`get_valid_approval`, `answers_from_db`, the rate limits, the
  search for a twin) see the database as it is.
* **Steps.** What lies between two commits, or between a commit and a call to the outside, is one
  step: SQLite has one writer, and a transaction that has written is alone until it commits.
  `prepare` is `Prepare`, `Discover...`, `InspectionPasses`/`InspectionStops`, `Generate` or
  `PreparationFails`; `approve` is `ReviewForApproval` and, when the human has answered,
  `Approve` or `Decline`; `submit` is `Submit`, the gates (`GateCloses`, `SubmitLimited`,
  `GatesOpen`), `Consume`, `Post...`, `Record`. `Dies` ends a command before any of its steps.
* **The platform.** `attempts` counts the calls of `provider.submit`, `received` what the platform
  took; neither is in the database. An unknown outcome leaves open whether it took the application.
  `unrecorded` counts deaths between a call and its record.
* **`run`** takes every PREPARED application to `ManualReviewProvider`, which refuses; `submit` with
  that provider does the same, which is why `Run` stands for both.
* **Time.** `submitted[j]` is the age of `submitted_at` in the windows of the rate limits;
  `HourPasses` and `DayPasses` let it grow. Expiry is `ApprovalLapses` and `ListingLapses`.

### How the other modules correspond to the code

* **`FolderWatcher`** (`folder_watcher.py`). A file is an instance, the watcher sees names. `Seed`
  and `Observe` are the two halves of `start`: what is in the folder is seen, then the observer and
  the threads run. An event may be dropped (`Arrive`) and comes late (`Deliver`). `SweepBegin`,
  `SweepVisit` and `SweepPrune` are a pass of `_reconcile_loop` with `_prune_seen`; `WorkerCheck`,
  `WorkerGet` and `WorkerReport`/`WorkerRaises` are `_process_queue`, which looks at the path only
  when it calls back. `reports`, `promised`, `reused` and `dropped` are ghosts.
* **`PipelineThread`** (`pipeline_thread.py`). `MakeLoop` to `CloseLoop` are `run` and `_main`,
  `AskToStop` and `StopReturns` are `stop` on the interface's thread, `SignalStop` is the callback that it
  schedules and that does nothing before the event exists. The program ends when `stop` returns.
* **`DriveFolders`** (`drive_client.py`). `call[i]` is a call of `get_or_create_device_folder`: a look
  at the cache (`UseCached`, `Miss`), then `_find_or_create_folder` level by level: `ListFolders`,
  `CreateFolder`, `RelistFolders`, and, when several are listed, `CheckLoser` and `TrashLoser` for all
  but the oldest. `CreateUnanswered` is a creation whose answer is lost and that the decorator repeats.
* **`SheetRows`** (`sheets_client.py`). The executor threads of an installation share one client and its
  cache, without a lock. `Upsert`, `ReadColumn` and `PrimeCache` (`_ensure_row_cache`; two threads may
  both find it empty), `LookUp`, then `WriteRow` or `AppendRow`. `AppendUnanswered` is an append that took effect.
* **`GoogleSignIn`** (`drive_auth.py`). A call is at a step of `get_credentials` and holds the lock from
  `Acquire` until it returns; `Consent` is the browser, which has no timeout; `Escape` is an
  exception of the network or of the disk that the method does not catch.
* **`Backups`** (`backup_service.py`, `app.py`). `OpenZip` to `PruneBackups` are `create_backup`
  and `prune_old_backups`, `RestoreBackup` to `RestoreEnds` are `restore_backup`, `Construct` is the start with its two
  ways to fail: unreadable settings lead to Safe Mode, a database that does not open ends the program.
* **`DeviceIdExtraction`** (`device_id_extractor.py`, `frame_extractor.py`). `ReadVariant` tries the engines, `ReadFrame` the
  preprocessings, `NextFrame` is an iteration of `_scan`, `FirstScanEnds` and `FullScanEnds` are `extract`.
* **`JobDiscovery`** (`jobs/service.py`, `jobs/repository.py`, `matching/service.py`). `batch[b]` is a
  process with its session: what it reads is its draft if it has written, else what is committed
  (`View`); the first write takes SQLite's lock. `FlushFails` poisons the session: the rest of the batch
  and its commit raise (`CommitRaises`).
* **`JobMatching`** (`deterministic.py`, `scoring.py`, `decision.py`). The scores are operators on a
  posting, `Overall` and `Decide` the blend and the bands; the actions are `match_job`, with the second
  attempt at the model.
* **`AnswerEngine`** (`answer_engine.py`, `answer_bank.py`, `answer_validator.py`, `human_input.py`).
  `Tiers` is the order of the tables in `generate_answer`, `Draft`, `NoModel` and `DraftInvalid` the
  model and its validation, `LayOver` the person's own answers.
* **`BrowserFill`** (`cli/main.py`, `applications/browser/`). Each of `InspectForm`, `AnswerForm`
  and `FillForm` loads the page that the site serves at that moment. `PreparedState` is `build_snapshot`:
  what the human sees and the fingerprint binds. `FindApproval` and `ConsumeApproval` are the two
  transactions of `browser-fill`.
* **`ProfileVersions`** (`cli/main.py`, `candidate/parser.py`, `db/repository.py`, `resume/`). `parsing[p]` is a
  command, which reads file by file (`ReadSource`), saves the candidate (`FindCandidate`, `SaveCandidate`) and, if
  it is `profile parse`, goes through `create_profile_version`: `ExtractResume`, `HashSource` file by file,
  then `LastIsSame`, or `LastDiffers`, `NextNumber` and `InsertVersion`. `EditSource` is the person who edits the
  files at any of these moments. `against` is a ghost: the text that a version was checked against.

Definitions named `Mutant...` are wrong versions of the definition that follows; they document
which mistake each property would catch.

## 3. What the runs show

| Run | Instance | Shows |
|---|---|---|
| `pipeline_restart` | 2 identical videos, 2 workers, 2 attempts, 1 crash or stop, 1 refused write | TypeOK, ActiveHasCarrier, NoLeakedClaim, IndexIsOnDrive, DuplicateIsOnDrive, WaitingSurvivesRestart, SettledFileIsFound, DeadWorkerStrandsOne, DeliversAsPromised |
| `pipeline_operator` | 2 identical videos undisturbed, or 1 video with 1 pause and either 1 intervention or 1 refused write; 2 workers, 2 attempts; fair | WorkersAccountedFor, PauseDrains, JobsSettle |
| `pipeline_claim` | 2 identical videos | ExclusiveClaim is **violated** |
| `pipeline_self_duplicate` | 1 video, 2 attempts | NeverItsOwnDuplicate is **violated** |
| `pipeline_pause` | 1 video, 1 worker, 1 pause | NothingStartsWhilePaused is **violated** |
| `applications_sequential` | 1 process, 1 job with 2 postings of one fingerprint, an open and a full set of answers, 2 approvals, 2 listings, 1 rescan or new match, 1 death; or 2 jobs with different postings at one company and from one source, with a limit of 1 for the company | TypeOK, SingleUse, NoUnexplainedDuplicate, LimitsHold, AppliesAsPromised, SendsOnlyPrepared |
| `applications_concurrent` | 2 processes, 2 jobs with one fingerprint, 2 sets of answers, 1 approval, 1 listing | SendsOnlyApproved, SubmittedIsReal, NoTwins, NewAnswersVoidApprovals |
| `applications_fresh` | 1 process, 1 job | FreshAnswers is **violated** |
| `applications_hard_stop` | 1 process, 1 job | HardStopHolds is **violated** |
| `components` | eleven components, see below | ComponentsTypeOK and seventeen properties |
| `drive_given_folder` | 2 installations, 2 uploads | GivenFolderIsVisible is **violated** |
| `sheet_duplicate_rows` | 2 threads of 1 installation, 1 file, 1 lost answer | NeverDuplicateRows is **violated** |

`CompletedIsDelivered` and `LegalMoves` are in no run of their own: `DeliversAsPromised` implies the one,
`AppliesAsPromised` the other, and both are proved (section 5).

In `components` (290 000 states, some two minutes):

| Component | Instance | Shows |
|---|---|---|
| watcher, thread | 1 name, 2 videos, 1 fault | TwiceOnlyAfterReuse, EveryVideoReported, StopEndsThread |
| Drive folders | 2 installations, 2 uploads, 1 fault, 1 removal by a person | OneVisibleFolder, NeverTrashesContent |
| sheet | 2 threads of one installation and 1 of another with a file in common, 3 upserts, 1 fault, 1 deletion by a person | OneRowPerFile |
| sign-in | 2 threads, 4 calls, 2 expiries or damages | SignedOutStaysOut, SilentCallsReturn |
| backups | 3 seconds, 3 starts, 2 faults, 1 restore, 1 kept | AlwaysAGoodBackup |
| Device ID | 1 or 3 frames of 8 kinds, a window of 2, 2 engines, full scan on and off | BestReadingIsReturned |
| batches | 2 processes, 2 postings, 2 batches, 1 fault, 1 change of the board | OneRowPerPosting, ReturnedMeansStored |
| matching | the weights and thresholds of the example configuration, every posting the matcher tells apart, opinions of 0 and 100 | ShortcutLosesNothing |
| answers | forms of 2 questions with up to 2 phrases each, drafts of 3 claims | ProtectedQuestionsStayHuman |
| browser | 4 versions of the form, 2 contents of the row, 3 commands in 2 processes, 1 change from outside | FillIsApproved, TypedAnswersItsQuestion |
| profile | 1 candidate file and the resume, 3 drafts of each, 2 processes, 3 commands, 1 edit or death | ReportIsTrue |

Deadlock is not checked: the pipeline stops when no video is left and nothing is running, the
applications when each is settled and the bounds are used up, the components likewise.

**Bounds.** Two identical videos on two workers are the smallest instance with contention for a claim, with a
duplicate found in the index and one found on Drive; digests only meet when they are equal, so
different contents add no interaction. Two attempts include a retry and the end of retries. One
restart at any moment includes recovery from every persisted state; two objects of one job are what
one intervention can produce. `MaxRestarts`, `MaxInterventions`, `MaxDbErrors` and `MaxPauses` bound
what the environment may do, `LogCap` the count of log rows. `pipeline_operator` has no restart, since `JobsSettle` is about a
pipeline that goes on running and the counts of `WorkersAccountedFor` begin anew at each start, and leaves out what is
proved for any number of interventions (section 5); two refused writes together with a restart have been
tried (4 million states) and show nothing else.

Two runs put cases side by side that differ in their bounds: `Bounded`, their state constraint, lets the
second video or job come only if nothing has been spent on the first one, and the other way round. It
only cuts moves of the environment (a video or a job that comes, an order, a pause, a refused write, a
death, a rescan, a second preparation, a lapse), never one that fairness asks for, so that it hides no
counterexample to `JobsSettle`; with `Next /\ Bounded'` as the next-state relation TLC finds the same states
and the same results.

For the applications, two postings of
one fingerprint are a job whose URL has drifted under its allowlist entry; two sets of answers are an
answer that a human must give and one that is complete, or an old and a new preparation; two approvals
let an application be sent a second time, and one death is what it takes to make that happen; two
jobs are the smallest instance with twins or with a limit that is reached (of the four that of the company, which
never reopens; the others, which do, are as wide as the two jobs need, and the theorem is about all four); two processes are the
smallest with a stale session. `MaxPreparations`, `MaxApprovals`, `MaxListings`, `MaxRescans` and
`MaxDeaths` bound what humans and the environment may do. The theorems of section 5 hold without any
of these bounds, except `NoTwinIsAppliedTo`, which is about jobs that no rescan changes.

Of the components: two videos under one name are the smallest instance in which a name is used again; two
installations are the smallest that create a folder twice, the second upload finds what the first has
left behind in the cache; three upserts are a first one, a repetition and one of the other installation,
one fault a lost answer or a restart (two faults have been tried and show nothing else); four calls are two at the lock at once and a sign-out
and a sign-in around them; one backup kept is the limit at which a failed one can push out a good one,
three seconds are a good backup, a failed one and the one that prunes; three frames with a window of two have
a frame that only the full scan sees; two batches are a scan and a rescan, two that overlap, or a scan and a match;
three commands are an approval and two fills of it; three `profile parse` are two that overlap and one that finds
what they have recorded, an edit can fall between any two of their reads. Their bounds are named `Max...` in each module.

## 4. Fairness

Of the pipeline, `Fairness` is weak fairness of each object's attempt (an executor thread keeps running and every
call it makes returns or raises: the HTTP client has timeouts) and of the loop's steps for it (asyncio runs
callbacks that are due, `call_later` fires, a worker that waits on the queue gets the head).
Arrivals, commands, failures, `Boot`, `Stop`, `Crash` and `Resume` are not fair, and these are all that `Bounded`
restricts. `JobsSettle` therefore excuses a pipeline that is not running, is paused or has lost a worker, and nothing else;
in particular steps may fail again and again: the number of attempts ends that.

Of the watcher and its thread, `DiscoveryFairness` is weak fairness of four actors: the pipeline thread,
its loop, the worker thread and the sweep's timer. Files, events, the interface and failures (which the
bound on faults ends) are not fair; `EveryVideoReported` does not rest on events being delivered. Of the sign-in,
`SignInFairness` is *strong* fairness of each caller's steps, because callers compete for the lock: weak
fairness would let one be overtaken for ever. (A `threading.Lock` is not fair by contract; what is
assumed is that the system does not starve a thread.) The user at the browser is not fair.

No fairness is assumed of the applications, batches, backups and clients: a human decides when
a command is run, and nothing is promised without one.

## 5. What is proved

**The pipeline.** The theorems hold for any sets of jobs, digests and (finitely many) objects, and any numbers of
workers, attempts, restarts, interventions, refused writes and pauses, from `PipelineAssumption` alone.

* `TypeCorrect`: `Spec => []TypeOK`. The bound on attempts makes it more than a typing: it needs
  `ObjectsOK` (an object that waits has an attempt left) and `ResultsOK` (what is about to be
  reported is a result); `TypeInv` is their conjunction.
* `DeliveryInvariant`: the three delivery properties are inductive together with `AttemptsDeliver`
  (an attempt at `record` has its file on Drive, one at `complete` is in the sheet too, an object at
  `dup` has a copy on Drive, and an object never says COMPLETED or DUPLICATE otherwise) and
  `RowsExist`. From it `IndexCorrect`, `CompletedCorrect` and `DuplicateCorrect`.
* `PipelineDelivers`: `Spec => Contract!Spec`, a step simulation under the delivery invariant. A
  write of a row maps to `Report`, an upload to `Store`, a sheet update to `List`, the pruning to
  `Forget`, a discovery to `Arrive`, all else to a stutter.
* `NoClaimLeaks`: `NoLeakedClaim` is inductive once the holder of a claim knows its digest
  (`ClaimsReleasable`), because the `finally` clause releases only a known digest.
* `ActiveIsCarried`: `ActiveHasCarrier` is inductive once it is said of the requeue as well: while
  it goes on, an active row is carried or in the backlog (`RowsCarried`).
* `StrandedAreCounted`: the active rows that no object carries are finite and no more than the dead
  workers (`StrandedInv`). Only a death adds a row to them, the one the worker had in hand; every other
  step lets a row go with its result or hands it to another object.
* `WaitingIsSaved`: without orders of the operator a job has one object at most (`OneObjectPerJob`: and
  none while it is in the backlog), so that nobody else settles the row of an object that waits.
* `SettledIsFound`: without crashes and refused writes, either, an object knows where its file is, its row says
  so from the result on, and so does the row of a job that has no object (`FilesKept`).
* `WorkersCounted` and `PauseHolds`: the count of workers needs that none are left at rest
  (`NoWorkersAtRest`). For the pause: `TakeJob` alone starts a job (`OnlyTakeJobStarts`), one at a time, and takes a
  worker from the queue for it (`TakeJobStartsOne`); of all else only `WorkerIdle`, `Resume` and the start of the
  pool put one there, which they do only where there is no pause or where it ends.

The steps of an attempt are many and alike, so the proofs first establish what they have in common
(`Frame`, `Result`, `RowWrite` in `UploadPipelineProofs`: an attempt touches its own object, moves it
within the attempt, and writes only its own row, a terminal one when it lets the job go) and look at
single steps only where it matters which one it is. Every other action has its own step.

**The applications.** The theorems hold for any sets of processes, jobs, postings and answer sets and
any limits, from `LifecycleAssumption`. `ApplicationLifecycleProofs` is about any number of processes:

* `OnlyApprovedIsSent` rests on `Holds`: from the moment the gates are open, a session holds the id
  of an approval that matches the job, posting and answers it is about to send, and it is spent once the
  session is past `Consume`. Approvals never change but for their state, so that nobody can disturb it.
* `OldApprovalsAreVoid` rests on `Remembered`: what an approval, or a session that asks for one, has
  as answers is at most what is stored now, and `Generate` stores strictly more.
* `SubmittedWasReceived` rests on `Confirmed`: a session that was told yes, and a row that says
  SUBMITTED or VERIFIED, are about an application the platform has; `received` never falls, and no
  stale session writes these two words without such an answer.
* `NoTwinIsAppliedTo` rests on `OneTaken`: a job is taken while its status says so or a command works
  on it; only `DiscoverMatches` takes a job, and only if no twin has an application. It assumes
  `MaxRescans = 0`.

`ApplicationSequentialProofs` assumes one process (`Procs = {only}`), which is what makes a loaded
status the current one (`Current`, the invariant its other theorems start from): `EveryMoveIsLegal`,
`OnlyPreparedIsSent`, `NoDuplicateUnexplained` (`Explained`: what was received is accounted for by the
status, the place of the command and the deaths), `ApprovalsAreSingleUse` (`Paid`: calls made, and
one about to be made, are no more than consumed approvals) and `SubmissionsAreLimited` (`Room`: from the
gates to the record every window has room for one submission more; time only empties the windows). Section 7 says what two processes do to them.

`EngineKeepsContract`, in the same module, is the refinement: the commands of one process implement
`ApplicationContract` (`AppliesAsPromised`). The contract knows no sessions: the letter of an application is the bag of its
stored answers, a consent is live while its approval `Stands`, and an answer of the platform is pending
while a command is at its record. An approval stands while it is live and of the answers that are stored,
*or* while a command has chosen it: the command spends it in one transaction and calls the provider in the next, and
looks at neither its date nor its state in between, so that what the contract does in one step, `Send`, is
the call, and spending the approval before is none. The proof needs, of the states, that a session has loaded what is current (`Current`),
that the approval it has chosen is its own (`Holds`), that what an approval has as answers is at most what is stored
(`Remembered`, so that a new letter voids every consent) and that what a session shows to the human for approval is
what is stored (`AsShown`). Each action has its step: `StartRefines` and the others of that name.

**The components.** `UploadComponentProofs` and `AgentComponentProofs` hold for any values of the constants under
the assumptions of each module: any number of callers, processes, installations, batches, postings, pages,
questions and bounds. `SheetAssumption` says that the installations are finitely many, `OcrAssumption` that there is an
engine and that a confidence is a natural number, `BackupAssumption` that the clock has a second to show,
`AnswerAssumption` that the mark of a missing text is no phrase, and `AnswersAssumption` that the engine answers every
question of a form, if only with `Unanswered`.

* `SignOutSticks` rests on `SignInInv`: a call that is past the lock holds it; it refreshes only while
  there is a token, and stores what no user was asked for only while there is one. The sign-out needs the lock.
* `FillsAreApproved` rests on `FillInv`: a fill, and a command about to record one, has an approval of its
  row and its prepared state; a fill has used its approval up; any two of them that share an
  approval are known to have collided.
* `TypedInAnswer` adds that a command that has typed holds the page it typed into and a prepared state made of just that page
  and its answers (`TypedInv`). It needs that a field is told by its identifier
  (`FieldsAssumption`): otherwise the value of one field could be read as that of another.
* `ProtectedStayHuman` rests on `AnswerInv`: answers are made in the order of the form, and only a
  question on which the tables say nothing comes to the model; the tables withhold every protected question.
* `GoodBackupStays` rests on `BackupInv`: the zip that is being written is the newest and broken, the
  one after which old ones are pruned is the newest and whole, so that pruning never takes it.
* `ReturnedBatchStored` rests on `StoreInv`: the draft of the writer contains what is committed and what its
  batch has handled; only the writer has handled anything and not returned. `PostingsHaveOneRow` adds
  `SingleInv`: while batches do not overlap, what a batch is about to add is still missing when it adds
  it. The steps of a batch are sorted into five kinds first (`Reads`, `Writes`, `Ends`, `Commits`,
  `Begins`), so that the invariants are proved of five steps and not of twenty.
* `ReportsAreTrue` rests on `ReportInv`: a version says PASSED exactly if the text it was checked against bears
  its profile out, and a command that reports has read the profile and hashed the files of the version that it
  reports. Versions are only added, so that no other command disturbs either.

* `HandedOnceEach` rests on `OnceInv`. Of a video whose name the watcher had not known when it came: while the name is not in
  the set of seen paths it has not been reported and waits nowhere; it waits once at most; and once it is in the hands of
  the worker or reported, it waits no more (`HandedOnce`).
* `OneRowEach` rests on `RowsInv`. Two threads of an installation work on different files (`SheetInv`); every row
  number that is kept, in a cache or in a call, is that of a row of its file (`NumbersRight`); and a file has as many rows as
  there were unacknowledged appends, or one more that its installation remembers (`Accounted`), so that
  no call of it is about to append another.
* `ContentIsKept` and `OneFolderStays` rest on `DriveInv`. The oldest folder of a name is never
  trashed, and a later one that is seen is empty: a call is only ever given the oldest, or one that is already out of
  sight (`MayGive`), and what it clears away is a later one under a parent that is kept (`Duplicate`). As
  long as no call has failed, a later one that is seen is in the hands of a call that will clear it (`NoneForgotten`).
  The listings of two installations may overlap in any way.
* `BestIsReturned` rests on `ScanKept`: of the frames passed the scan holds the first of the best readings, no earlier
  frame than the last was confident, and the full scan has counted the readable ones. What a scan may not look at any more
  cannot change its choice, because the choice is the first confident reading, or else the first of the best. Which
  frames are read at all is not its subject: section 7 says where that departs from the docstring.
* `NothingIsLost` is about the configuration that the program comes with (`ShippedScoring`: its weights, its blend of 40 %
  and no threshold below 70); with others the claim can be false. An estimate below 120 points with the 25
  that experience always has, the highest other scores and three opinions of 100 weighs less than 6900
  hundredths, which rounds to less than the lowest threshold.

`ComponentsAreTyped`, in `ComponentTypeProofs`, is about `ComponentsSpec`, and by it about every component: a step of
the whole is a step of each or leaves it alone (`StepsOfEach`). What it takes beyond the invariants above:

* *Drive, batches, browser*: what points into a table points at a row that is there. A call only finds, caches,
  creates or clears folders that exist, and the files of a folder and the calls under way are together no more than the
  uploads asked for (`DriveTypes`); a match is of a job of the same table, and a matching run takes jobs that are
  committed (`BatchFit`); a command has chosen an approval, and a fill used one, that was made (`BrowserFit`).
* *Matching*: the scores of the keyword matcher and their blends with those of the model are natural numbers, and the
  overall score is capped, so that it is a percentage whatever the weights add up to (`OverallType`).
* *Answers*: an answer has no text exactly if it is left to a human (`GoodAnswer`), and every tier gives such an answer.
* *Device ID*: the scan looks at no frame beyond the video and has read no more than it passed (`OcrTypes`).
* *Backups*: a zip is dated within the clock, also one that another backup of the same second overwrites (`ZipsFit`).

Two lemmas say that a finite set of numbers has a greatest and a least element (`GreatestNumber`, `LeastNumber`);
they take the induction they need from the library's theorem that the strict subsets of a set are well-founded.

## 6. What is only model-checked

Liveness under fairness, which is beyond the prover: `JobsSettle`, `EveryVideoReported`, `StopEndsThread`,
`SilentCallsReturn`. The seven claims of section 7 that have a run: the code does not keep them, and TLC refutes them. Every invariant and
every action property that a passing run checks is stated by a theorem.

## 7. Where the code departs from what it says

* **A lost claim is released** (`pipeline_claim`). `process` releases the claim on its digest
  whenever it knows the digest. The attempt that lost `claim_for_upload` thereby removes the claim of
  the one that holds it; its own retry, or a third video, then passes the claim while the first still
  uploads. The comment at `video_processor.py:106` calls that release "a no-op if this attempt never
  claimed the hash".
* **A video becomes its own duplicate** (`pipeline_self_duplicate`). When the sheet update or the
  last move fails, the digest is already in `uploaded_hashes`; the retry finds it, files the video as
  DUPLICATE and writes no sheet row. `dedup_service.py:6` says that a video that failed partway
  through is not treated as a duplicate on retry.

* **Jobs start while uploads are paused** (`pipeline_pause`). A worker passes the resume gate *before* it waits at the queue. Every
  worker that waits there when `pause` is called takes one more job, so that as many uploads as there are idle workers may
  start in a pause. `upload_worker_pool.py:52` says that "nothing new starts until resumed", `pipeline_thread.py:91` that a
  pause is to "stop starting new uploads". `test_pipeline_orchestrator_controls.py:62` checks it, and passes because it pauses before
  the worker tasks have begun. What does hold is `PauseDrains`.

None contradicts section 5: DUPLICATE still means that the content is on Drive, a claim is
still not leaked, but released too early, and a pause still drains the pool.

* **Answers pile up** (`applications_fresh`). `prepare_application` inserts the answers it generates
  and deletes none; `answers_from_db` reads all. After a retry, or when `prepare` is run again because the
  answer bank now has what was missing, the application is PREPARED with the answers of every preparation; all of them are shown
  to the human and sent, and one that still says `requires_human` keeps `approve` from ever
  succeeding (the `review` it refers to can only list). `service.py:337` says that the answers are regenerated from scratch.
* **A hard stop does not stop** (`applications_hard_stop`). `prepare_applications_batch` prepares what
  `discover_application` has just set to HUMAN_REQUIRED. `main.py:498` says that such an application
  lands there. It cannot be *sent* without an approval, by section 5.

Two processes at once break four more properties, which is why `applications_sequential` and its
theorems are about one: `transition_status` checks a status that another process may have changed since
(`LegalMoves`, and with it `AppliesAsPromised`), two `submit` commands may both read an approval as valid before one of them consumes it, and
then both send (SingleUse, NoUnexplainedDuplicate), the second for an application that is no longer
PREPARED (SendsOnlyPrepared). Giving `Procs` two members in `ApplicationSequential.cfg` exhibits those it checks. They are
not listed as divergences because nothing in the repository says that commands may be run in parallel.

* **A folder in the trash is handed out** (`drive_given_folder`). After it has created a folder,
  `_find_or_create_folder` lists again and, if at most one folder is listed, goes on with its *own*, without
  looking whose the listed one is. When another installation has meanwhile trashed this one as an empty duplicate, the call
  returns the trashed folder and caches it, and videos are uploaded to the trash, where nobody
  looks and from which Drive deletes them after a while. `drive_client.py:165` says that all callers converge on
  one folder.

* **A file gets two rows** (`sheet_duplicate_rows`). The retry decorator on `_append_row` repeats an append whose answer was lost,
  and does not look whether it took effect. `sheets_client.py:3` says that re-processing "never creates duplicate rows".
  `OneRowPerFile` shows that there is no other way to a second row.

The models disagree with the repository in more places. These have no run of their own; the property
or the definition of the model that has the code's behaviour is named with each.

* *A worker can be killed.* `docs/ARCHITECTURE.md:132` says that every exception of a video is caught inside `process` and
  never "kills a worker task". A write that SQLite refuses inside an except clause or in the final
  clause, or in the pool's own report, is not caught: it ends the task for good, one upload fewer runs at a time, and the row
  stays active with nobody to handle it until the next start (`DbWriteFails`, `lost`). `DeadWorkerStrandsOne` bounds the damage.
* *The full scan is skipped.* Step 5 of the docstring at `device_id_extractor.py:21` says that the whole video is scanned if "nothing
  confident was found". The code (line 74) asks whether anything was found: after a reading of the first scan, however
  uncertain, there is no full scan (`FirstScanEnds`). `BestReadingIsReturned` is about the choice among the readings that were made.
* *A database that does not open ends the program.* `app.py:253` and `docs/USER_MANUAL.md:141` promise Safe
  Mode for it. Constructing the application does not touch the file; the first query of `run` opens it, outside the try clause that
  leads to Safe Mode, and the program ends (`Construct`).
* *Videos from before the start are skipped.* `README.md:26` of InstaCore Sync says that no video is ever missed, "even across app
  restarts". `start` marks all that is in the folder as seen (`folder_watcher.py:73`), so that a video
  that came while the program was down is not reported (`Seed`). `EveryVideoReported` is about those that come later.
* *Silent callers wait.* `drive_auth.py:58` says that a call that cannot renew the token "raises `DriveAuthError` immediately".
  During an interactive sign-in it waits for the lock, as long as the browser is open (`Consent`). `SilentCallsReturn` excepts that time.
* *A version of the profile is of no bytes there ever were.* `db/models.py:154` says that its hashes tell "exactly which bytes it was derived
  from". The text of the resume is taken before the files are hashed, and the other files are parsed before
  (`ExtractResume`, `HashSource`), so that an edit in between gives a version the hashes of the new files and the content of the
  old ones. If it is the resume, the version has the status of the old one, and since nothing differs any more, every later `profile
  parse` repeats that status: "verified against resume_master.docx" of a resume that no longer bears the
  profile out (without the exception of `Untorn`, `components` exhibits it), or FAILED with no claim to blame.
* *An approval can fill twice.* `cli/main.py:1084` says that an approval, consumed when it is accepted, "can never be replayed for a second
  fill". Two fills that find it before either consumes it are both recorded (`collided`). `FillIsApproved` excepts just these.

What the models bring to light beside, where we know of no line that says otherwise:

* *Jobs.* The tables `jobs` and `companies` have no unique constraint (`db/models.py`). Two scans that
  overlap may both insert, and from then on every scan raises `MultipleResultsFound` on that posting, or on every
  posting of that company; the name of a source is unique, and the second of two first scans raises. One
  failed flush poisons the session, so that the whole rest of the batch is lost with it, although
  each item has a handler of its own. A rescan leaves the match made of the old text.
* *Start and stop.* A transport error of the first probe of Google ends `start()`, and the program goes on without
  a pipeline (`Crash` in `PipelineThread`). A stop requested before `start()` is over finds no event to set and is lost.
* *Browser.* `browser-approve` may approve a state with unresolved fields: those of a kind that is never
  planned, those that another answer reveals, and the marker of a challenge that came up after the
  fill; `cli/main.py:983` asks only for an answer to every question. The fingerprint binds the identifiers of the fields,
  not their labels. `_match_option_value` selects the first option when no option matches the answer; a checkbox
  that is preset is never unchecked. A challenge that comes up between inspection and fill is typed past.
* *Answers and matching.* A question that names an employer and also a verified fact is answered with the fact. Whether the
  shortcut before the model costs nothing depends on the configured weights: with other weights it could.
* *Backups.* A failed backup leaves a well-formed zip without the database; a backup begun in the second
  of another one empties it; a restore is not atomic.
* *Profile.* Two first commands that overlap insert two rows of the candidate, after which
  every command raises `MultipleResultsFound`; two later ones may give two versions one number.
  `get_latest_verified_version`, which "any Phase 5+ consumer" should read, has no caller: applications are
  prepared from the files as they are, and `profile_version_id` is never set by a command.

## 8. Abstractions

* A digest is a model value; the file of a job never changes its content, and two files never have
  the same name in a folder (`move_to_folder` finds a free name).
* `record_upload` and the save that follows it are one step (`RecordUpload`): two writes of different tables
  (`video_processor.py:264` and `:270`). Nobody tells a row that
  says UPLOADING from one that says UPDATING_SHEET, and a crash between them leaves an active row as one after them does.
* OCR is a free choice of outcome. So is every call to Google; other installations are not modelled,
  but the search on Drive may miss a file.
* Of the settings edited while the pipeline runs only `duplicate_check` is followed; folders,
  `retry_count` and `spreadsheet_id` stay what they were at the start.
* `DbWriteFails` covers the writes of a result and the pool's own; a refused write during discovery
  or on the loop (`_enqueue`) is not modelled.
* Commands that reach the loop while `stop` awaits the cancelled tasks are not modelled; their only
  effect is a QUEUED row for the next start.
* The pruning may take any set of finished rows: the cut-off date and the batch limit are not followed.
* Times and durations are left out: a backoff ends at some moment, in any order.
* One candidate; a batch command is its items, one after the other, with nothing carried over but the
  database. (In the code a batch loads its items at the start, so that the status of a later item may be
  older; sessions of several processes show what that does.)
* A set of answers is a model value, and the stored answers a bag of them: the text of an answer
  matters only by whether it requires a human and whether two fingerprints agree. A fingerprint
  determines what it is taken of.
* The platform that answers with an HTTP error has not taken the application, as
  `RealStructuredATSProvider` presumes, and confirms only one it has.
* `applications review` only lists. The approvals of the browser commands are rows of their own kind and
  are modelled in `BrowserFill`, apart from those of the lifecycle.
* The company and the source of a job do not change, and every job has a source; one without skips the limit of the source
  (`rate_limits.py:55`), which `LimitsHold` does not speak of.
* The watcher: files that are no videos do not occur. Drive: one day and one device; a person may
  remove folders, not move them. The sheet: a file is in the hands of
  one thread of an installation at a time, and the cells of a row are left out. The sign-in: a token can be read or it cannot. Backups: the settings and the database are
  readable or torn, and the clock, local time in the code (`backup_service.py:56`), is not set back.
* The Device ID: what an engine reads on a frame is given, of it only the confidence matters, and a match of
  confidence 0, which the code counts as found, does not occur. Scans: what `upsert_job` changes in an old row is written at
  once, in the code with the next flush; one
  board of one company, a posting is one of four contents, the freshness label is left out. Matching: which
  keywords a text contains is given, scores are whole percents. Answers: a question is the set of phrases
  it contains, a draft the set of its claims. Browser: a page is a set of fields, each told by
  its identifier, a label stands for the text of the question with the options that the code appends to it (`LabelsAssumption`), a
  radio group is a select; the attachment of files is left out. Profile: a file is the set of claims
  it makes or of phrases it contains, equal hashes are equal files, a file that is missing is one that cannot be
  parsed; the configuration files are read as the others are; the candidate's e-mail address does not change, and
  the rows of facts, skills and experience, which no command reads, are left out.

**Not modelled.** Health checks (read-only probes). The Qt widgets, the first-run wizard and the
validation of settings. The mock provider. Configuration, credentials, HTTP, prompts, logging and the parsing of the
command line: parsing and I/O without a state that other components depend on. The proxies of `PipelineThread` for
statistics, health and the wizard.

## 9. Plan

1. **Done.** `UploadPipeline`, `DeliveryContract`, their runs and proofs.
2. **Done.** `ApplicationLifecycle`, its runs and proofs.
3. **Done.** `FolderWatcher` and `PipelineThread`; `DriveFolders` and `SheetRows`; `GoogleSignIn`; `Backups`.
4. **Done.** `DeviceIdExtraction`, `JobDiscovery`, `JobMatching`, `AnswerEngine`, `BrowserFill`.
5. **Done.** `ProfileVersions`; the proofs about the sign-in, the backups, the scans, the answers, the browser
   and the profile.
6. **Done.** The proofs about the rows and files of the pipeline, the limits, the watcher, Drive folders, sheet rows,
   the search for the Device ID and the shortcut of the matching.
7. **Done.** The abstract specification of the life of one application, `ApplicationContract`, and the refinement;
   the types of the components.
8. To come: two pipelines over one Drive (the check for a digest and the upload are not atomic across
   installations), and the audit trail (one row per attempt where the table's comment promises one per
   video).

Modules that are to be proved about use no RECURSIVE operators.
