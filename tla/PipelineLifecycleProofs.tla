---------------------- MODULE PipelineLifecycleProofs ----------------------
\* Proofs about PipelineLifecycle, for every set of faults and every backlog.
EXTENDS PipelineLifecycle, TLAPS

\* TypeOK in two halves: the flags, and the rest.
Flags ==
    /\ shutdown \in BOOLEAN /\ listening \in BOOLEAN
    /\ dirty \in BOOLEAN /\ restDirty \in BOOLEAN
    /\ restOpen \in BOOLEAN /\ redisOpen \in BOOLEAN
    /\ cancelled \in BOOLEAN

Places ==
    /\ start \in {"ping", "running"} \cup Teardown \cup Ended
    /\ driver \in {"sleeping", "waiting", "over"}
    /\ cleaner \in {"none", "new", "poll", "work"} \cup Over
    /\ watcher \in {"none", "new", "wait"} \cup Over
    /\ backlog \in 0..MaxBacklog
    /\ run \in {"none", "active", "FINISHED", "KILLED"}
    /\ sigint \in {"stops", "cancels"}

\* The type invariant of PipelineLifecycle.
THEOREM TypeCorrect == Spec => []TypeOK
<1> USE BoundsAssumption DEF Teardown, Ended, Over
<1>1. TypeOK <=> Flags /\ Places
  BY DEF TypeOK, Flags, Places
<1>2. Init => Flags
  BY Zenon DEF Init, Flags
<1>3. Init => Places
  BY SMT DEF Init, Places
<1>4. ASSUME Flags, Places, [Next]_vars PROVE Flags'
  <2> USE <1>4 DEF Flags
  <2>1. CASE Launch
    BY <2>1, Zenon DEF Launch, resources, tasks, bloom, signals
  <2>2. CASE LaunchFails
    BY <2>2, Zenon DEF LaunchFails, resources, tasks, bloom, signals
  <2>3. CASE ClientOver
    BY <2>3, Zenon DEF ClientOver, resources, tasks, bloom, signals
  <2>4. CASE Gathered
    BY <2>4, Zenon DEF Gathered, Flushed, resources, tasks, bloom, signals
  <2>5. CASE CloseRest
    BY <2>5, Zenon DEF CloseRest, resources, tasks, bloom, signals
  <2>6. CASE CloseRedis
    BY <2>6, Zenon DEF CloseRedis, Status, resources, tasks, bloom, signals
  <2>7. CASE CloseFails
    BY <2>7, Zenon DEF CloseFails, resources, tasks, bloom, signals
  <2>8. CASE CleanerStarts
    BY <2>8, Zenon DEF CleanerStarts, CleanerTop, resources, tasks, bloom, signals
  <2>9. CASE CleanerReads
    BY <2>9, Zenon DEF CleanerReads, resources, tasks, bloom, signals
  <2>10. CASE CleanerIdles
    BY <2>10, Zenon DEF CleanerIdles, CleanerTop, resources, tasks, bloom, signals
  <2>11. CASE CleanerBatchEnds
    BY <2>11, Zenon DEF CleanerBatchEnds, CleanerTop, resources, tasks, bloom, signals
  <2>12. CASE CleanerDies
    BY <2>12, Zenon DEF CleanerDies, resources, tasks, bloom, signals
  <2>13. CASE CleanerRecord
    BY <2>13, Zenon DEF CleanerRecord, resources, tasks, bloom, signals
  <2>14. CASE WatcherStarts
    BY <2>14, Zenon DEF WatcherStarts, WatcherTop, resources, tasks, bloom, signals
  <2>15. CASE MidnightFlush
    BY <2>15, Zenon DEF MidnightFlush, WatcherTop, resources, tasks, bloom, signals
  <2>16. CASE WatcherEnds
    BY <2>16, Zenon DEF WatcherEnds, resources, tasks, bloom, signals
  <2>17. CASE Publish
    BY <2>17, Zenon DEF Publish, resources, tasks, bloom, signals
  <2>18. CASE Signal
    BY <2>18, Zenon DEF Signal, StopBody, resources, tasks, bloom, signals
  <2>19. CASE DurationOver
    BY <2>19, Zenon DEF DurationOver, StopBody, resources, tasks, bloom, signals
  <2>20. CASE Joined
    BY <2>20, Zenon DEF Joined, resources, tasks, bloom, signals
  <2>21. CASE Cancel
    BY <2>21, Zenon DEF Cancel, StartCancelled, CancelTask, TasksCancelled, resources, tasks, bloom, signals
  <2>22. CASE UNCHANGED vars
    BY <2>22, Zenon DEF vars, resources, tasks, bloom, signals
  <2>23. QED
    BY <2>1, <2>2, <2>3, <2>4, <2>5, <2>6, <2>7, <2>8, <2>9, <2>10, <2>11,
     <2>12, <2>13, <2>14, <2>15, <2>16, <2>17, <2>18, <2>19, <2>20, <2>21, <2>22
  DEF Next, Start, Cleaner, Watcher, Failures, ClientReturns, GivesUp
<1>5. ASSUME Flags, Places, [Next]_vars PROVE Places'
  <2> USE <1>5 DEF Places
  <2>1. CASE Launch
    BY <2>1, SMT DEF Launch, resources, tasks, bloom, signals
  <2>2. CASE LaunchFails
    BY <2>2, SMT DEF LaunchFails, resources, tasks, bloom, signals
  <2>3. CASE ClientOver
    BY <2>3, SMT DEF ClientOver, resources, tasks, bloom, signals
  <2>4. CASE Gathered
    BY <2>4, SMT DEF Gathered, Flushed, resources, tasks, bloom, signals
  <2>5. CASE CloseRest
    BY <2>5, SMT DEF CloseRest, resources, tasks, bloom, signals
  <2>6. CASE CloseRedis
    BY <2>6, SMT DEF CloseRedis, Status, resources, tasks, bloom, signals
  <2>7. CASE CloseFails
    BY <2>7, SMT DEF CloseFails, resources, tasks, bloom, signals
  <2>8. CASE CleanerStarts
    BY <2>8, SMT DEF CleanerStarts, CleanerTop, resources, tasks, bloom, signals
  <2>9. CASE CleanerReads
    BY <2>9, SMT DEF CleanerReads, resources, tasks, bloom, signals
  <2>10. CASE CleanerIdles
    BY <2>10, SMT DEF CleanerIdles, CleanerTop, resources, tasks, bloom, signals
  <2>11. CASE CleanerBatchEnds
    BY <2>11, SMT DEF CleanerBatchEnds, CleanerTop, resources, tasks, bloom, signals
  <2>12. CASE CleanerDies
    BY <2>12, SMT DEF CleanerDies, resources, tasks, bloom, signals
  <2>13. CASE CleanerRecord
    BY <2>13, SMT DEF CleanerRecord, resources, tasks, bloom, signals
  <2>14. CASE WatcherStarts
    BY <2>14, SMT DEF WatcherStarts, WatcherTop, resources, tasks, bloom, signals
  <2>15. CASE MidnightFlush
    BY <2>15, SMT DEF MidnightFlush, WatcherTop, resources, tasks, bloom, signals
  <2>16. CASE WatcherEnds
    BY <2>16, SMT DEF WatcherEnds, resources, tasks, bloom, signals
  <2>17. CASE Publish
    BY <2>17, SMT DEF Publish, resources, tasks, bloom, signals
  <2>18. CASE Signal
    BY <2>18, SMT DEF Signal, StopBody, resources, tasks, bloom, signals
  <2>19. CASE DurationOver
    BY <2>19, SMT DEF DurationOver, StopBody, resources, tasks, bloom, signals
  <2>20. CASE Joined
    BY <2>20, SMT DEF Joined, resources, tasks, bloom, signals
  <2>21. CASE Cancel
    BY <2>21, SMT DEF Cancel, StartCancelled, CancelTask, TasksCancelled, resources, tasks, bloom, signals
  <2>22. CASE UNCHANGED vars
    BY <2>22, SMT DEF vars, resources, tasks, bloom, signals
  <2>23. QED
    BY <2>1, <2>2, <2>3, <2>4, <2>5, <2>6, <2>7, <2>8, <2>9, <2>10, <2>11,
     <2>12, <2>13, <2>14, <2>15, <2>16, <2>17, <2>18, <2>19, <2>20, <2>21, <2>22
  DEF Next, Start, Cleaner, Watcher, Failures, ClientReturns, GivesUp
<1>6. TypeOK /\ [Next]_vars => TypeOK'
  <2>1. TypeOK' <=> Flags' /\ Places'
    BY DEF TypeOK, Flags, Places
  <2>2. QED
    BY <1>1, <1>4, <1>5, <2>1
<1>7. Init => TypeOK
  BY <1>1, <1>2, <1>3
<1>8. QED
  BY <1>6, <1>7, PTL DEF Spec

-----------------------------------------------------------------------------

Closing == {"closeRest", "closeRedis", "done"}

\* Why nothing is used after it is closed: the tasks exist from the launch
\* to the gather, and the teardown is past the gather only when they are over.
TasksInv ==
    /\ start \in {"ping", "failed"} => cleaner = "none" /\ watcher = "none"
    /\ start = "ping" => redisOpen
    /\ start \in {"running", "gather"} =>
          restOpen /\ redisOpen /\ cleaner # "none" /\ watcher # "none"
    /\ start \in Closing \cup {"aborted"} => TasksOver
    /\ start \in Closing => ~dirty /\ ~restDirty

LEMMA TasksInvInductive == TypeOK /\ TasksInv /\ [Next]_vars => TasksInv'
<1> SUFFICES ASSUME TypeOK, TasksInv, [Next]_vars PROVE TasksInv'
  OBVIOUS
<1> USE DEF TypeOK, TasksInv, TasksOver, Closing, Teardown, Ended, Over
<1>1. CASE Launch
  <2>1. start' = "running" /\ cleaner' = "new" /\ watcher' = "new"
    BY <1>1 DEF Launch
  <2>2. restOpen' /\ redisOpen'
    BY <1>1, Zenon DEF Launch
  <2>3. QED
    BY <2>1, <2>2
<1>2. CASE LaunchFails
  BY <1>2 DEF LaunchFails, resources, tasks, bloom, signals
<1>3. CASE ClientOver
  BY <1>3 DEF ClientOver, resources, tasks, bloom, signals
<1>4. CASE Gathered
  <2>1. start' = "closeRest" /\ cleaner' = cleaner /\ watcher' = watcher /\ TasksOver
    BY <1>4 DEF Gathered, tasks
  <2>2. ~dirty' /\ ~restDirty'
    BY <1>4, Zenon DEF Gathered, Flushed
  <2>3. QED
    BY <2>1, <2>2
<1>5. CASE CloseRest
  BY <1>5 DEF CloseRest, resources, tasks, bloom, signals
<1>6. CASE CloseRedis
  BY <1>6 DEF CloseRedis, Status, resources, tasks, bloom, signals
<1>7. CASE CloseFails
  BY <1>7 DEF CloseFails, resources, tasks, bloom, signals
<1>8. CASE CleanerStarts
  BY <1>8 DEF CleanerStarts, CleanerTop, resources, tasks, bloom, signals
<1>9. CASE CleanerReads
  BY <1>9 DEF CleanerReads, resources, tasks, bloom, signals
<1>10. CASE CleanerIdles
  BY <1>10 DEF CleanerIdles, CleanerTop, resources, tasks, bloom, signals
<1>11. CASE CleanerBatchEnds
  BY <1>11 DEF CleanerBatchEnds, CleanerTop, resources, tasks, bloom, signals
<1>12. CASE CleanerDies
  BY <1>12 DEF CleanerDies, resources, tasks, bloom, signals
<1>13. CASE CleanerRecord
  BY <1>13 DEF CleanerRecord, resources, tasks, bloom, signals
<1>14. CASE WatcherStarts
  BY <1>14 DEF WatcherStarts, WatcherTop, resources, tasks, bloom, signals
<1>15. CASE MidnightFlush
  BY <1>15 DEF MidnightFlush, WatcherTop, resources, tasks, bloom, signals
<1>16. CASE WatcherEnds
  BY <1>16 DEF WatcherEnds, resources, tasks, bloom, signals
<1>17. CASE Publish
  BY <1>17 DEF Publish, resources, tasks, bloom, signals
<1>18. CASE Signal
  BY <1>18 DEF Signal, StopBody, resources, tasks, bloom, signals
<1>19. CASE DurationOver
  BY <1>19 DEF DurationOver, StopBody, resources, tasks, bloom, signals
<1>20. CASE Joined
  BY <1>20 DEF Joined, resources, tasks, bloom, signals
<1>21. CASE Cancel
  BY <1>21 DEF Cancel, StartCancelled, CancelTask, TasksCancelled, resources, tasks, bloom, signals
<1>22. CASE UNCHANGED vars
  BY <1>22 DEF vars, resources, tasks, bloom, signals
<1>23. QED
  BY <1>1, <1>2, <1>3, <1>4, <1>5, <1>6, <1>7, <1>8, <1>9, <1>10, <1>11,
     <1>12, <1>13, <1>14, <1>15, <1>16, <1>17, <1>18, <1>19, <1>20, <1>21, <1>22
  DEF Next, Start, Cleaner, Watcher, Failures, ClientReturns, GivesUp

LEMMA TasksInvCorrect == Spec => []TasksInv
<1>1. ASSUME Init PROVE TasksInv
  <2>1. start = "ping" /\ cleaner = "none" /\ watcher = "none" /\ redisOpen
    BY <1>1, Zenon DEF Init
  <2>2. QED
    BY <2>1 DEF TasksInv, Closing
<1>2. QED
  BY <1>1, TasksInvInductive, TypeCorrect, PTL DEF Spec

\* No task uses what the teardown has closed, however the run ends.
THEOREM NothingUsedAfterClose == Spec => []NoUseAfterClose
<1>1. TypeOK /\ TasksInv => NoUseAfterClose
  BY DEF TypeOK, TasksInv, NoUseAfterClose, TasksOver, Closing, Teardown, Ended, Over
<1>2. QED
  BY <1>1, TypeCorrect, TasksInvCorrect, PTL

-----------------------------------------------------------------------------

\* Where the teardown is tells what it has released.
ReleaseInv ==
    /\ run \in {"FINISHED", "KILLED"} <=> start = "done"
    /\ start \in {"closeRedis", "done"} => ~restOpen
    /\ start = "done" => ~redisOpen
    /\ start = "done" => run = (IF cancelled THEN "KILLED" ELSE "FINISHED")

LEMMA ReleaseInvInductive == TypeOK /\ ReleaseInv /\ [Next]_vars => ReleaseInv'
<1> SUFFICES ASSUME TypeOK, ReleaseInv, [Next]_vars PROVE ReleaseInv'
  OBVIOUS
<1> USE DEF TypeOK, ReleaseInv, Teardown, Ended
<1>1. CASE Launch
  BY <1>1 DEF Launch
<1>2. CASE CloseRest
  <2>1. start = "closeRest" /\ start' = "closeRedis" /\ run' = run
    BY <1>2 DEF CloseRest
  <2>2. ~restOpen'
    BY <1>2, Zenon DEF CloseRest
  <2>3. QED
    BY <2>1, <2>2
<1>3. CASE CloseRedis
  <2>1. start = "closeRedis" /\ start' = "done" /\ run' = (IF cancelled THEN "KILLED" ELSE "FINISHED")
    BY <1>3 DEF CloseRedis, Status
  <2>2. ~redisOpen' /\ restOpen' = restOpen /\ cancelled' = cancelled
    BY <1>3, Zenon DEF CloseRedis, signals
  <2>3. QED
    BY <2>1, <2>2
<1>4. CASE LaunchFails
  BY <1>4 DEF LaunchFails, resources, signals
<1>5. CASE ClientOver
  BY <1>5 DEF ClientOver, resources, signals
<1>6. CASE Gathered
  BY <1>6 DEF Gathered, Flushed, resources, signals
<1>7. CASE CloseFails
  BY <1>7 DEF CloseFails, resources, signals
<1>8. CASE CleanerStarts
  BY <1>8 DEF CleanerStarts, CleanerTop, resources, signals
<1>9. CASE CleanerReads
  BY <1>9 DEF CleanerReads, resources, signals
<1>10. CASE CleanerIdles
  BY <1>10 DEF CleanerIdles, CleanerTop, resources, signals
<1>11. CASE CleanerBatchEnds
  BY <1>11 DEF CleanerBatchEnds, CleanerTop, resources, signals
<1>12. CASE CleanerDies
  BY <1>12 DEF CleanerDies, resources, signals
<1>13. CASE CleanerRecord
  BY <1>13 DEF CleanerRecord, resources, signals
<1>14. CASE WatcherStarts
  BY <1>14 DEF WatcherStarts, WatcherTop, resources, signals
<1>15. CASE MidnightFlush
  BY <1>15 DEF MidnightFlush, WatcherTop, resources, signals
<1>16. CASE WatcherEnds
  BY <1>16 DEF WatcherEnds, resources, signals
<1>17. CASE Publish
  BY <1>17 DEF Publish, resources, signals
<1>18. CASE Signal
  BY <1>18 DEF Signal, StopBody, resources, signals
<1>19. CASE DurationOver
  BY <1>19 DEF DurationOver, StopBody, resources, signals
<1>20. CASE Joined
  BY <1>20 DEF Joined, resources, signals
<1>21. CASE Cancel
  BY <1>21 DEF Cancel, StartCancelled, resources, signals
<1>22. CASE UNCHANGED vars
  BY <1>22 DEF vars, resources, signals
<1>23. QED
  BY <1>1, <1>2, <1>3, <1>4, <1>5, <1>6, <1>7, <1>8, <1>9, <1>10, <1>11,
     <1>12, <1>13, <1>14, <1>15, <1>16, <1>17, <1>18, <1>19, <1>20, <1>21, <1>22
  DEF Next, Start, Cleaner, Watcher, Failures, ClientReturns, GivesUp

\* A run that MLflow shows as ended has released and saved everything, and
\* none of its tasks is left (pipeline.py, lines 165-186).
THEOREM ReleasedAtEnd == Spec => []ResourcesReleased
<1>1. Init => ReleaseInv
  BY DEF Init, ReleaseInv
<1>2. TypeOK /\ ReleaseInv /\ TasksInv => ResourcesReleased
  BY DEF TypeOK, ReleaseInv, TasksInv, ResourcesReleased, Closing
<1>3. QED
  BY <1>1, <1>2, ReleaseInvInductive, TypeCorrect, TasksInvCorrect, PTL DEF Spec
=============================================================================
