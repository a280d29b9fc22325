------------------------- MODULE PipelineLifecycle -------------------------
(***************************************************************************)
(* One ingestion process from start to exit: WebSocketPipeline of          *)
(* src/ingestion/pipeline.py and run_ingestion of src/ingest_data.py.      *)
(* Four tasks share one event loop, so a step runs from one await to the   *)
(* next: start(), the cleaner loop, the midnight watcher and, for a        *)
(* bounded run, the task that stops the pipeline.                          *)
(*                                                                         *)
(* WebSocketClient has the details of the client and CleanerLoop those of  *)
(* the cleaner: here the client publishes until it returns, and the        *)
(* cleaner has work or has none.  dirty and restDirty say that the         *)
(* registry of the cleaner, of the REST client, holds keys that are not on *)
(* disk.  The midnight flush and the last one are assumed to succeed       *)
(* (Dedup has those that fail).                                            *)
(***************************************************************************)
EXTENDS Integers

CONSTANTS
    Faults,
    MaxBacklog  \* bound: entries the cleaner has not read

\* "start": what start() does before its try statement raises.  "redis":
\* XREAD or a record raises.  "giveup": the client runs out of reconnects.
\* "close": a close raises.
AllFaults == {"start", "redis", "giveup", "close"}

ASSUME FaultsAssumption == Faults \subseteq AllFaults
ASSUME BoundsAssumption == MaxBacklog \in Nat

VARIABLES
    start,      \* the await at which start() is suspended
    driver,     \* run_ingestion
    shutdown,   \* _shutdown_event
    listening,  \* _running of the client
    cleaner,    \* the cleaner-loop task
    watcher,    \* the midnight-rotation-watcher task
    backlog,    \* entries for the cleaner
    dirty, restDirty,
    restOpen, redisOpen,
    run,        \* the MLflow run
    sigint,     \* what the platform lets SIGINT do: "stops" or "cancels"
    cancelled

resources == <<restOpen, redisOpen, run>>
tasks     == <<cleaner, watcher>>
bloom     == <<dirty, restDirty>>
signals   == <<sigint, cancelled>>
vars      == <<start, driver, shutdown, listening, tasks, backlog, bloom, resources,
               signals>>

Teardown == {"gather", "closeRest", "closeRedis"}
Ended    == {"done", "failed", "aborted"}
Over     == {"done", "died"}

TypeOK ==
    /\ start \in {"ping", "running"} \cup Teardown \cup Ended
    /\ driver \in {"sleeping", "waiting", "over"}
    /\ shutdown \in BOOLEAN
    /\ listening \in BOOLEAN
    /\ cleaner \in {"none", "new", "poll", "work"} \cup Over
    /\ watcher \in {"none", "new", "wait"} \cup Over
    /\ backlog \in 0..MaxBacklog
    /\ dirty \in BOOLEAN /\ restDirty \in BOOLEAN
    /\ restOpen \in BOOLEAN /\ redisOpen \in BOOLEAN
    /\ run \in {"none", "active", "FINISHED", "KILLED"}
    /\ sigint \in {"stops", "cancels"}
    /\ cancelled \in BOOLEAN

\* With a duration, run_ingestion sleeps beside start(); without one it
\* awaits start() itself: its driver only waits.
Init ==
    /\ start = "ping"
    /\ driver \in {"sleeping", "waiting"}
    /\ shutdown = FALSE
    /\ listening = FALSE
    /\ cleaner = "none"
    /\ watcher = "none"
    /\ backlog = 0
    /\ dirty = FALSE /\ restDirty = FALSE
    /\ restOpen = FALSE
    /\ redisOpen = TRUE
    /\ run = "none"
    /\ sigint \in {"stops", "cancels"}
    /\ cancelled = FALSE

-----------------------------------------------------------------------------
(* start()                                                                 *)

\* From the answer of the ping to the first await of client.run().
Launch ==
    /\ start = "ping"
    /\ start' = "running"
    /\ run' = "active"
    /\ restOpen' = TRUE
    /\ cleaner' = "new"
    /\ watcher' = "new"
    /\ listening' = TRUE
    /\ UNCHANGED <<driver, shutdown, backlog, bloom, redisOpen, signals>>

\* What raises before the try statement is not torn down: Redis or MLflow, or
\* with the run active the constructor of the REST client, or with that client
\* built the one of the cleaner or of the WebSocket client.
LaunchFails ==
    /\ "start" \in Faults
    /\ start = "ping"
    /\ start' = "failed"
    /\ \/ UNCHANGED <<restOpen, run>>
       \/ run' = "active" /\ restOpen' \in BOOLEAN
    /\ UNCHANGED <<driver, shutdown, listening, tasks, backlog, bloom, redisOpen, signals>>

Publish ==
    /\ start = "running"
    /\ backlog < MaxBacklog
    /\ backlog' = backlog + 1
    /\ UNCHANGED <<start, driver, shutdown, listening, tasks, bloom, resources, signals>>

\* client.run() has returned: the event is set and the tasks are gathered.
ClientOver ==
    /\ start = "running"
    /\ start' = "gather"
    /\ shutdown' = TRUE
    /\ listening' = FALSE
    /\ UNCHANGED <<driver, tasks, backlog, bloom, resources, signals>>

ClientReturns == ~listening /\ ClientOver

GivesUp == "giveup" \in Faults /\ listening /\ ClientOver

\* Mutant of TasksOver: gather without await.
TasksOverAssumed == TRUE

TasksOver == cleaner \in Over /\ watcher \in Over

\* Mutant of Flushed: the REST client is closed without a flush.
FlushedCleanerOnly == dirty' = FALSE /\ UNCHANGED restDirty

\* flush_state, and the flush at the head of rest_client.close().
Flushed == dirty' = FALSE /\ restDirty' = FALSE

Gathered ==
    /\ start = "gather"
    /\ TasksOver
    /\ Flushed
    /\ start' = "closeRest"
    /\ UNCHANGED <<driver, shutdown, listening, tasks, backlog, resources, signals>>

CloseRest ==
    /\ start = "closeRest"
    /\ restOpen' = FALSE
    /\ start' = "closeRedis"
    /\ UNCHANGED <<driver, shutdown, listening, tasks, backlog, bloom, redisOpen, run, signals>>

\* A cancellation is the only way to a status other than FINISHED: the client
\* logs every exception of its own and goes on, and gather keeps those of the
\* tasks.
Status == IF cancelled THEN "KILLED" ELSE "FINISHED"

CloseRedis ==
    /\ start = "closeRedis"
    /\ redisOpen' = FALSE
    /\ run' = Status
    /\ start' = "done"
    /\ UNCHANGED <<driver, shutdown, listening, tasks, backlog, bloom, restOpen, signals>>

CloseFails ==
    /\ "close" \in Faults
    /\ start \in {"closeRest", "closeRedis"}
    /\ start' = "aborted"
    /\ UNCHANGED <<driver, shutdown, listening, tasks, backlog, bloom, resources, signals>>

-----------------------------------------------------------------------------
(* stop(), run_ingestion and signals                                       *)

\* stop() tells the client there is; one created later is not told.
StopBody ==
    /\ shutdown' = TRUE
    /\ listening' = FALSE

\* A handler is registered once start() is past its first await, where the
\* platform has signal handlers.
Signal ==
    /\ sigint = "stops"
    /\ start \in {"running"} \cup Teardown
    /\ StopBody
    /\ UNCHANGED <<start, driver, tasks, backlog, bloom, resources, signals>>

DurationOver ==
    /\ driver = "sleeping"
    /\ StopBody
    /\ driver' = "waiting"
    /\ UNCHANGED <<start, tasks, backlog, bloom, resources, signals>>

Joined ==
    /\ driver = "waiting"
    /\ start \in Ended
    /\ driver' = "over"
    /\ UNCHANGED <<start, shutdown, listening, tasks, backlog, bloom, resources, signals>>

\* Without a handler, SIGINT cancels the main task.  Awaiting start() passes
\* the cancellation on to it.  A cancelled sleep ends
\* run_ingestion, and asyncio.run then cancels every other task.  A gather
\* that is cancelled cancels what it gathers.
StartCancelled ==
    CASE start = "ping"       -> "failed"
      [] start = "running"    -> "gather"
      [] start \in Teardown   -> "aborted"

TasksCancelled == driver = "sleeping" \/ start = "gather"

CancelTask(t) == IF TasksCancelled /\ t \notin Over \cup {"none"} THEN "died" ELSE t

Cancel ==
    /\ sigint = "cancels" \/ start = "ping"
    /\ ~cancelled
    /\ start \notin Ended
    /\ cancelled' = TRUE
    /\ start' = StartCancelled
    /\ shutdown' = (shutdown \/ driver = "sleeping" \/ start = "running")
    /\ listening' = FALSE
    /\ driver' = IF driver = "sleeping" THEN "over" ELSE driver
    /\ cleaner' = CancelTask(cleaner)
    /\ watcher' = CancelTask(watcher)
    /\ UNCHANGED <<backlog, bloom, resources, sigint>>

-----------------------------------------------------------------------------
(* The cleaner loop and the midnight watcher                               *)

\* Mutant of CleanerTop: the loop does not look at the event.
CleanerTopForever == "poll"

\* The condition of the while loop.
CleanerTop == IF shutdown THEN "done" ELSE "poll"

CleanerStarts ==
    /\ cleaner = "new"
    /\ cleaner' = CleanerTop
    /\ UNCHANGED <<start, driver, shutdown, listening, watcher, backlog, bloom, resources, signals>>

\* XREAD returns entries: they are processed whether or not a stop came.
CleanerReads ==
    /\ cleaner = "poll"
    /\ backlog > 0
    /\ cleaner' = "work"
    /\ backlog' = 0
    /\ UNCHANGED <<start, driver, shutdown, listening, watcher, bloom, resources, signals>>

CleanerIdles ==
    /\ cleaner = "poll"
    /\ backlog = 0
    /\ cleaner' = CleanerTop
    /\ UNCHANGED <<start, driver, shutdown, listening, watcher, backlog, bloom, resources, signals>>

\* A record of the batch, or a gap event and its backfill.
CleanerRecord ==
    /\ cleaner = "work"
    /\ \/ dirty' = TRUE /\ UNCHANGED restDirty
       \/ restDirty' = TRUE /\ UNCHANGED dirty
    /\ UNCHANGED <<start, driver, shutdown, listening, tasks, backlog, resources, signals>>

CleanerBatchEnds ==
    /\ cleaner = "work"
    /\ cleaner' = CleanerTop
    /\ UNCHANGED <<start, driver, shutdown, listening, watcher, backlog, bloom, resources, signals>>

\* Only TypeError and ValueError of XREAD are caught.
CleanerDies ==
    /\ "redis" \in Faults
    /\ cleaner \in {"poll", "work"}
    /\ cleaner' = "died"
    /\ UNCHANGED <<start, driver, shutdown, listening, watcher, backlog, bloom, resources, signals>>

WatcherTop == IF shutdown THEN "done" ELSE "wait"

WatcherStarts ==
    /\ watcher = "new"
    /\ watcher' = WatcherTop
    /\ UNCHANGED <<start, driver, shutdown, listening, cleaner, backlog, bloom, resources, signals>>

\* The wait times out at midnight.
MidnightFlush ==
    /\ watcher = "wait"
    /\ dirty' = FALSE
    /\ watcher' = WatcherTop
    /\ UNCHANGED <<start, driver, shutdown, listening, cleaner, backlog, restDirty, resources, signals>>

WatcherEnds ==
    /\ watcher = "wait"
    /\ shutdown
    /\ watcher' = "done"
    /\ UNCHANGED <<start, driver, shutdown, listening, cleaner, backlog, bloom, resources, signals>>

Start    == Launch \/ ClientReturns \/ Gathered \/ CloseRest \/ CloseRedis
Cleaner  == CleanerStarts \/ CleanerReads \/ CleanerIdles \/ CleanerBatchEnds
Watcher  == WatcherStarts \/ MidnightFlush \/ WatcherEnds
Failures == LaunchFails \/ GivesUp \/ CloseFails \/ CleanerDies

Next ==
    \/ Start \/ Cleaner \/ CleanerRecord \/ Watcher \/ Failures
    \/ Publish \/ Signal \/ DurationOver \/ Joined \/ Cancel

Spec == Init /\ [][Next]_vars

\* The event loop runs every task that is ready; a stopped client returns;
\* a batch ends; the duration passes.
FairSpec ==
    /\ Spec
    /\ WF_vars(Start) /\ WF_vars(Cleaner) /\ WF_vars(Watcher)
    /\ WF_vars(DurationOver) /\ WF_vars(Joined)

-----------------------------------------------------------------------------
(* Properties.                                                             *)

\* No task uses Redis or the REST client after the teardown has closed them:
\* the teardown gathers the cleaner, which may be in the middle of a batch
\* or of a backfill when the stop comes.
NoUseAfterClose ==
    /\ start = "running" => redisOpen
    /\ cleaner \in {"new", "poll", "work"} => restOpen /\ redisOpen

\* A pipeline that was launched and is told to stop ends.
StopEnds == (shutdown /\ start = "running" /\ ~listening) ~> (start \in Ended)

\* A run that MLflow shows as ended has released and saved everything, and
\* no task of it is left (_teardown, "Release all resources after the client
\* exits").  A teardown that came to its end has ended the run, and its
\* status tells whether the process was cancelled: of a client that gave up
\* or a cleaner that died it tells nothing.
ResourcesReleased ==
    /\ start = "done" => run = (IF cancelled THEN "KILLED" ELSE "FINISHED")
    /\ run \in {"FINISHED", "KILLED"} =>
          ~restOpen /\ ~redisOpen /\ TasksOver /\ ~dirty /\ ~restDirty
=============================================================================
