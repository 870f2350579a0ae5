----------------------------- MODULE FolderWatcher -----------------------------
(***************************************************************************)
(* The watcher of the download folder (services/watcher/folder_watcher.py):*)
(* the events of the operating system, which may be dropped, a periodic    *)
(* sweep of the folder, the set of paths already seen that both go         *)
(* through, and the worker thread that hands the paths to the pipeline.    *)
(*                                                                         *)
(* A file is an instance, numbered by arrival, so that two files that had  *)
(* one name after each other can be told apart; the watcher sees names     *)
(* only.  Files that are no videos, or are incomplete downloads, are       *)
(* filtered out by their suffix and do not occur.                          *)
(***************************************************************************)
EXTENDS Integers, Sequences, FiniteSets, SequencesExt

CONSTANTS
  Names,          \* the file names in the download folder
  Sentinel,       \* the None that stop() puts into the queue
  MaxVideos,      \* bound: videos that ever arrive
  MaxFolderFaults \* bound: OSErrors of a sweep, and callbacks that raise

ASSUME WatcherAssumption ==
  /\ Sentinel \notin Names
  /\ MaxVideos \in Nat /\ MaxFolderFaults \in Nat

Videos == 1..MaxVideos

VARIABLES
  folder,      \* folder[n]: the video that is in the folder under the name n, or 0
  arrived,     \* how many videos have arrived
  watching,    \* WatcherStatus of the watcher
  stopping,    \* its _stop_event
  events,      \* names with an event that watchdog has not delivered yet
  seen,        \* its _seen
  candidates,  \* its _candidate_queue
  worker,      \* the worker thread: where it is, and the path in its hands
  sweep,       \* the reconcile thread: where it is, and what it has yet to visit
  folderFaults,\* what the bound counts
  reports,     \* ghost: how often each video was handed to the pipeline
  promised,    \* ghost: the videos that came while their name was not in _seen
  reused,      \* ghost: the videos whose name an earlier video had had
  dropped      \* ghost: the videos whose callback raised

disk        == <<folder, arrived, promised, reused>>
threads     == <<worker, sweep>>
ghosts      == <<reports, dropped>>
watcherVars == <<disk, watching, stopping, events, seen, candidates, threads, folderFaults, ghosts>>

Present == {n \in Names : folder[n] # 0}

WatcherTypeOK ==
  /\ folder \in [Names -> 0..MaxVideos] /\ arrived \in 0..MaxVideos
  /\ watching \in {"STOPPED", "STARTING", "RUNNING", "ERROR"} /\ stopping \in BOOLEAN
  /\ events \subseteq Names /\ seen \subseteq Names
  /\ candidates \in Seq(Names \cup {Sentinel})
  /\ worker \in [at : {"off", "checking", "getting", "calling"}, path : Names \cup {Sentinel}]
  /\ sweep \in [at : {"off", "waiting", "visiting"}, left : SUBSET Names]
  /\ folderFaults \in 0..MaxFolderFaults
  /\ reports \in [Videos -> Nat]
  /\ promised \subseteq Videos /\ reused \subseteq Videos /\ dropped \subseteq Videos

\* The folder is empty when the program begins; files that arrive before
\* start() are seeded.
WatcherInit ==
  /\ folder = [n \in Names |-> 0] /\ arrived = 0
  /\ watching = "STOPPED" /\ stopping = FALSE
  /\ events = {} /\ seen = {} /\ candidates = <<>>
  /\ worker = [at |-> "off", path |-> Sentinel]
  /\ sweep = [at |-> "off", left |-> {}]
  /\ folderFaults = 0
  /\ reports = [v \in Videos |-> 0]
  /\ promised = {} /\ reused = {} /\ dropped = {}

-----------------------------------------------------------------------------
(* The folder. *)

\* WhatsApp saves a video under a free name.  An observer that runs gets an
\* event, unless it is dropped.
Arrive(n) ==
  /\ folder[n] = 0 /\ arrived < MaxVideos
  /\ arrived' = arrived + 1
  /\ folder' = [folder EXCEPT ![n] = arrived + 1]
  /\ events' \in IF watching = "RUNNING" THEN {events, events \cup {n}} ELSE {events}
  /\ promised' = IF watching \in {"STARTING", "RUNNING"} /\ n \notin seen
                 THEN promised \cup {arrived + 1} ELSE promised
  /\ reused' = IF n \in seen \cup events \cup ToSet(candidates) \/ worker.path = n
               THEN reused \cup {arrived + 1} ELSE reused
  /\ UNCHANGED <<watching, stopping, seen, candidates, threads, folderFaults, ghosts>>

\* The pipeline moves a video that is settled to another folder, or a person does.
Leave(n) ==
  /\ folder[n] # 0
  /\ folder' = [folder EXCEPT ![n] = 0]
  /\ UNCHANGED <<arrived, promised, reused, watching, stopping, events, seen, candidates,
                 threads, folderFaults, ghosts>>

-----------------------------------------------------------------------------
(* start() and stop(). *)

\* What is in the folder is marked as seen; the observer does not run yet.
Seed ==
  /\ watching = "STOPPED" /\ worker.at = "off" /\ ~stopping
  /\ watching' = "STARTING" /\ seen' = Present
  /\ UNCHANGED <<disk, stopping, events, candidates, threads, folderFaults, ghosts>>

\* The observer and the two threads.
Observe ==
  /\ watching = "STARTING"
  /\ watching' = "RUNNING"
  /\ worker' = [worker EXCEPT !.at = "checking"]
  /\ sweep' = [sweep EXCEPT !.at = "waiting"]
  /\ UNCHANGED <<disk, stopping, events, seen, candidates, folderFaults, ghosts>>

\* observer.start() raises: no thread is started.
ObserveFails ==
  /\ watching = "STARTING" /\ folderFaults < MaxFolderFaults
  /\ watching' = "ERROR" /\ folderFaults' = folderFaults + 1
  /\ UNCHANGED <<disk, stopping, events, seen, candidates, threads, ghosts>>

\* The observer is stopped and joined; the two threads are only told.
StopWatcher ==
  /\ stopping' = TRUE
  /\ watching' = "STOPPED" /\ events' = {}
  /\ candidates' = Append(candidates, Sentinel)
  /\ UNCHANGED <<disk, seen, threads, folderFaults, ghosts>>

-----------------------------------------------------------------------------
(* _enqueue, called by the observer's thread and by the sweep. *)

MutantEnqueue(n) ==
  /\ seen' = seen \cup {n}
  /\ candidates' = Append(candidates, n)

Enqueue(n) ==
  IF n \in seen THEN UNCHANGED <<seen, candidates>>
  ELSE /\ seen' = seen \cup {n}
       /\ candidates' = Append(candidates, n)

Deliver(n) ==
  /\ n \in events
  /\ events' = events \ {n}
  /\ Enqueue(n)
  /\ UNCHANGED <<disk, watching, stopping, threads, folderFaults, ghosts>>

-----------------------------------------------------------------------------
(* _reconcile_loop. *)

SweepBegin ==
  /\ sweep.at = "waiting" /\ ~stopping
  /\ sweep' = [at |-> "visiting", left |-> Present]
  /\ UNCHANGED <<disk, watching, stopping, events, seen, candidates, worker, folderFaults, ghosts>>

MutantSweepVisit(n) ==
  /\ sweep.at = "visiting" /\ n \in sweep.left
  /\ sweep' = [sweep EXCEPT !.left = @ \ {n}]
  /\ UNCHANGED <<disk, watching, stopping, events, seen, candidates, worker, folderFaults, ghosts>>

\* One path of the listing; it may have gone since.
SweepVisit(n) ==
  /\ sweep.at = "visiting" /\ n \in sweep.left
  /\ sweep' = [sweep EXCEPT !.left = @ \ {n}]
  /\ IF folder[n] # 0 THEN Enqueue(n) ELSE UNCHANGED <<seen, candidates>>
  /\ UNCHANGED <<disk, watching, stopping, events, worker, folderFaults, ghosts>>

\* _prune_seen.
SweepPrune ==
  /\ sweep.at = "visiting" /\ sweep.left = {}
  /\ sweep' = [sweep EXCEPT !.at = "waiting"]
  /\ seen' = seen \cap Present
  /\ UNCHANGED <<disk, watching, stopping, events, candidates, worker, folderFaults, ghosts>>

\* An OSError ends this sweep, not the loop.
SweepFails ==
  /\ sweep.at = "visiting" /\ folderFaults < MaxFolderFaults
  /\ sweep' = [at |-> "waiting", left |-> {}] /\ folderFaults' = folderFaults + 1
  /\ UNCHANGED <<disk, watching, stopping, events, seen, candidates, worker, ghosts>>

SweepEnd ==
  /\ sweep.at = "waiting" /\ stopping
  /\ sweep' = [at |-> "off", left |-> {}]
  /\ UNCHANGED <<disk, watching, stopping, events, seen, candidates, worker, folderFaults, ghosts>>

-----------------------------------------------------------------------------
(* _process_queue. *)

WorkerCheck ==
  /\ worker.at = "checking"
  /\ worker' = [worker EXCEPT !.at = IF stopping THEN "off" ELSE "getting"]
  /\ UNCHANGED <<disk, watching, stopping, events, seen, candidates, sweep, folderFaults, ghosts>>

\* queue.get(): blocks on an empty queue; the sentinel ends the thread.
WorkerGet ==
  /\ worker.at = "getting" /\ candidates # <<>>
  /\ candidates' = Tail(candidates)
  /\ worker' = IF Head(candidates) = Sentinel THEN [worker EXCEPT !.at = "off"]
               ELSE [at |-> "calling", path |-> Head(candidates)]
  /\ UNCHANGED <<disk, watching, stopping, events, seen, sweep, folderFaults, reports, dropped>>

Done == worker' = [at |-> "checking", path |-> Sentinel]

\* _on_video_discovered: whatever is at the path by now becomes a job.
WorkerReport ==
  /\ worker.at = "calling"
  /\ Done
  /\ LET v == folder[worker.path]
     IN reports' = IF v = 0 THEN reports ELSE [reports EXCEPT ![v] = @ + 1]
  /\ UNCHANGED <<disk, watching, stopping, events, seen, candidates, sweep, folderFaults,
                 dropped>>

\* The callback raises: the path stays in _seen.
WorkerRaises ==
  /\ worker.at = "calling" /\ folderFaults < MaxFolderFaults
  /\ Done
  /\ folderFaults' = folderFaults + 1
  /\ dropped' = dropped \cup ({folder[worker.path]} \ {0})
  /\ UNCHANGED <<disk, watching, stopping, events, seen, candidates, sweep, reports>>

WorkerStep == WorkerCheck \/ WorkerGet \/ WorkerReport \/ WorkerRaises

SweepStep ==
  \/ SweepBegin \/ SweepPrune \/ SweepFails \/ SweepEnd
  \/ \E n \in Names : SweepVisit(n)

FolderStep == \E n \in Names : Arrive(n) \/ Leave(n) \/ Deliver(n)

=============================================================================
