---------------------------- MODULE PipelineThread ----------------------------
(***************************************************************************)
(* The thread that owns the event loop of the pipeline                     *)
(* (workers/pipeline_thread.py), the stop() that the interface calls on    *)
(* exit, and the watcher that orchestrator.start() starts and              *)
(* orchestrator.stop() stops.                                              *)
(*                                                                         *)
(* stop() sets an asyncio event through the loop.  The event is made only  *)
(* when orchestrator.start() is over, and start() awaits its probes.       *)
(***************************************************************************)
EXTENDS FolderWatcher

VARIABLES
  thread,    \* where run() is
  stopEvent, \* _stop_event: "none" before it exists, then "clear", then "set"
  posted,    \* whether _signal_stop is scheduled on the loop
  gui        \* where the call of stop() is

threadVars == <<thread, stopEvent, posted, gui>>
discoveryVars == <<watcherVars, threadVars>>

\* "made": the loop exists and _loop_ready is set, but it does not run yet.
Running == thread \in {"starting", "waiting", "stopping"}

ThreadTypeOK ==
  /\ thread \in {"new", "made", "starting", "waiting", "stopping", "closed"}
  /\ stopEvent \in {"none", "clear", "set"}
  /\ posted \in BOOLEAN
  /\ gui \in {"idle", "waiting", "stopped", "timed out", "not running"}

ThreadInit == thread = "new" /\ stopEvent = "none" /\ posted = FALSE /\ gui = "idle"

DiscoveryInit == WatcherInit /\ ThreadInit

-----------------------------------------------------------------------------
(* run() and _main(). *)

MakeLoop ==
  /\ thread = "new" /\ thread' = "made"
  /\ UNCHANGED <<watcherVars, stopEvent, posted, gui>>

RunLoop ==
  /\ thread = "made" /\ thread' = "starting"
  /\ UNCHANGED <<watcherVars, stopEvent, posted, gui>>

\* The probes and the requeue of orchestrator.start() are over: the watcher is started.
StartWatcher ==
  /\ thread = "starting" /\ Seed
  /\ UNCHANGED threadVars

\* A watcher that cannot start is reported, and the pipeline goes on without it.
Started ==
  /\ thread = "starting" /\ (Observe \/ ObserveFails)
  /\ thread' = "waiting" /\ stopEvent' = "clear"
  /\ UNCHANGED <<posted, gui>>

\* start() raises before the watcher: run() logs it and closes the loop.
Crash ==
  /\ thread = "starting" /\ watching = "STOPPED"
  /\ thread' = "closed"
  /\ UNCHANGED <<watcherVars, stopEvent, posted, gui>>

\* orchestrator.stop() stops the watcher first, then awaits the worker pool.
StopPipeline ==
  /\ thread = "waiting" /\ stopEvent = "set"
  /\ StopWatcher
  /\ thread' = "stopping"
  /\ UNCHANGED <<stopEvent, posted, gui>>

CloseLoop ==
  /\ thread = "stopping" /\ thread' = "closed"
  /\ UNCHANGED <<watcherVars, stopEvent, posted, gui>>

MutantSignalStop ==
  /\ posted /\ Running
  /\ posted' = FALSE
  /\ UNCHANGED <<watcherVars, thread, stopEvent, gui>>

\* The scheduled _signal_stop: it does nothing while there is no event.
SignalStop ==
  /\ posted /\ Running
  /\ posted' = FALSE
  /\ stopEvent' = IF stopEvent = "none" THEN "none" ELSE "set"
  /\ UNCHANGED <<watcherVars, thread, gui>>

-----------------------------------------------------------------------------
(* stop(), on the interface's thread. *)

\* A loop that does not run, yet or any more, is left alone.
AskToStop ==
  /\ gui = "idle"
  /\ IF Running THEN posted' = TRUE /\ gui' = "waiting"
     ELSE gui' = "not running" /\ UNCHANGED posted
  /\ UNCHANGED <<watcherVars, thread, stopEvent>>

\* wait(timeout_ms).
StopReturns ==
  /\ gui = "waiting"
  /\ gui' \in IF thread = "closed" THEN {"stopped"} ELSE {"timed out"}
  /\ UNCHANGED <<watcherVars, thread, stopEvent, posted>>

\* The program ends when stop() has returned, and its threads with it.
Alive == gui \in {"idle", "waiting"}

ThreadStep ==
  Alive /\ (MakeLoop \/ RunLoop \/ StartWatcher \/ Started \/ Crash \/ StopPipeline \/ CloseLoop)

LoopStep    == Alive /\ SignalStop
InWorker    == Alive /\ WorkerStep /\ UNCHANGED threadVars
InReconcile == Alive /\ SweepStep /\ UNCHANGED threadVars

DiscoveryNext ==
  \/ ThreadStep \/ LoopStep \/ AskToStop \/ StopReturns
  \/ InWorker \/ InReconcile
  \/ Alive /\ FolderStep /\ UNCHANGED threadVars

\* The probes end, the event loop serves what is scheduled on it, the daemon
\* threads go on until they are told, and the timer of the sweep fires.
DiscoveryFairness ==
  /\ WF_discoveryVars(ThreadStep)
  /\ WF_discoveryVars(LoopStep)
  /\ WF_discoveryVars(InWorker)
  /\ WF_discoveryVars(InReconcile)

DiscoverySpec == DiscoveryInit /\ [][DiscoveryNext]_discoveryVars /\ DiscoveryFairness

-----------------------------------------------------------------------------
(* Properties. *)

\* A video is handed to the pipeline a second time only if the watcher still
\* knew its name from an earlier video when it came: the class comment ("reports
\* each one exactly once") holds as long as no name is used again.
TwiceOnlyAfterReuse == \A v \in Videos : reports[v] > 1 => v \in reused

\* A video that comes while its name is not in _seen, and stays, is handed to
\* the pipeline, whatever events are dropped and whatever sweeps fail, unless
\* its own callback raises, the watcher cannot start, or stop() is called: the
\* sweep finds it.
Outstanding ==
  {v \in promised : reports[v] = 0 /\ v \notin dropped /\ \E n \in Names : folder[n] = v}

EveryVideoReported == []<>(Outstanding = {} \/ watching = "ERROR" \/ gui # "idle")

\* A stop requested once start() is over ends the thread, unless the interface
\* gives up waiting for it and the program ends; and a loop that is
\* closed has no watcher running behind it, so that nothing is reported to a
\* loop that no longer runs.  (A stop requested earlier is lost.)
StopEndsThread ==
  /\ (posted /\ thread = "waiting") ~> (thread = "closed" \/ ~Alive)
  /\ [](thread = "closed" => watching # "RUNNING")

=============================================================================
