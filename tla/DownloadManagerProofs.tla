------------------------ MODULE DownloadManagerProofs ------------------------
(***************************************************************************)
(* Proofs about DownloadManager for any number of chunks, tasks, state     *)
(* objects and pause requests.                                             *)
(***************************************************************************)
EXTENDS DownloadManager, TLAPS

USE NumChunksAssumption, FlushAssumption, NoneAssumption

(* Every reachable state is well typed: in particular a task or request    *)
(* that is not over still has the state object and task it works on.       *)
LEMMA TypeCorrect == Spec => []TypeOK
<1> USE DEF TypeOK, Status, ResumeRecord, trackerVars, objectVars, outputVars,
            taskVars, pauseVars, serveVars, Active, Runnable, Waiting, Cleaning, FreeTask
<1>1. Init => TypeOK
  BY DEF Init
<1>2. TypeOK /\ [Next]_vars => TypeOK'
  <2> SUFFICES ASSUME TypeOK, [Next]_vars PROVE TypeOK'
    OBVIOUS
  <2>1. ASSUME NEW w \in Workers, NEW s \in States, StartUnfinished(w, s) PROVE TypeOK'
    <3>1. CASE s = downloads
      BY <2>1, <3>1 DEF StartUnfinished, LaunchWorker, SetAndSave, Record
    <3>2. CASE s # downloads
      <4>1. resume \in ResumeRecord
        BY <2>1, <3>2 DEF StartUnfinished
      <4>2. resume' \in ResumeRecord
        BY <2>1, <3>2, <4>1 DEF StartUnfinished
      <4>3. AdoptRecord(s)
        BY <2>1, <3>2 DEF StartUnfinished
      <4>4. /\ missing' \in [States -> SUBSET Chunks]
            /\ completed' \in [States -> SUBSET Chunks]
            /\ hasOutput' \in [States -> BOOLEAN]
        BY <4>1, <4>3 DEF AdoptRecord
      <4> QED
        BY <2>1, <3>2, <4>2, <4>4 DEF StartUnfinished, LaunchWorker
    <3> QED
      BY <3>1, <3>2
  <2>2. ASSUME NEW w \in Workers, NEW s \in States, StartFresh(w, s) PROVE TypeOK'
    BY <2>2 DEF StartFresh, LaunchWorker
  <2>3. ASSUME NEW w \in Workers, NEW s \in States, Resume(w, s) PROVE TypeOK'
    <3>1. CASE s = downloads
      BY <2>3, <3>1 DEF Resume, LaunchWorker
    <3>2. CASE s # downloads
      <4>1. resume \in ResumeRecord /\ AdoptRecord(s)
        BY <2>3, <3>2 DEF Resume
      <4>2. /\ missing' \in [States -> SUBSET Chunks]
            /\ completed' \in [States -> SUBSET Chunks]
            /\ hasOutput' \in [States -> BOOLEAN]
        BY <4>1 DEF AdoptRecord
      <4>3. /\ status' \in [States -> Status]
            /\ stateOf' \in [Workers -> States \cup {None}]
            /\ \A x \in Workers : pc'[x] # "done" => stateOf'[x] \in States
        BY <2>3 DEF Resume, LaunchWorker
      <4> QED
        BY <2>3, <3>2, <4>2, <4>3 DEF Resume, LaunchWorker
    <3> QED
      BY <3>1, <3>2
  <2>4. ASSUME NEW p \in Pausers, Pause(p) PROVE TypeOK'
    BY <2>4 DEF Pause, SetEvent, FinishPause, SetAndSave, Record, Running
  <2>5. ASSUME NEW v \in Servers, ServeFile(v) PROVE TypeOK'
    BY <2>5 DEF ServeFile
  <2>6. CASE ClearCompleted
    BY <2>6 DEF ClearCompleted, UnlinkOutput
  <2>7. ASSUME NEW v \in Servers, CleanupStep(v) PROVE TypeOK'
    BY <2>7 DEF CleanupStep, CleanupBegin, CleanupResume, CleanupUnlink, CleanupPop,
       CleanupPopTask, CleanupPopEvent, UnlinkOutput
  <2>8. ASSUME NEW w \in Workers, WorkerBegin(w) PROVE TypeOK'
    BY <2>8 DEF WorkerBegin, LoopHead, EndTask, SetAndSave, Record, AllFetched
  <2>9. ASSUME NEW w \in Workers, WorkerNextChunk(w) PROVE TypeOK'
    BY <2>9 DEF WorkerNextChunk, LoopHead, EndTask, SetAndSave, Record, AllFetched
  <2>10. ASSUME NEW w \in Workers, ChunkFetched(w) PROVE TypeOK'
    BY <2>10 DEF ChunkFetched, MarkCompleted, FlushDue
  <2>11. ASSUME NEW w \in Workers, ChunkFailed(w) PROVE TypeOK'
    BY <2>11 DEF ChunkFailed, EndTask, Record
  <2>12. ASSUME NEW w \in Workers, MergeWrite(w) PROVE TypeOK'
    BY <2>12 DEF MergeWrite
  <2>13. ASSUME NEW w \in Workers, MergeCompleted(w) PROVE TypeOK'
    BY <2>13 DEF MergeCompleted, EndTask, SetAndSave, Record
  <2>14. ASSUME NEW w \in Workers, MergeFailed(w) PROVE TypeOK'
    BY <2>14 DEF MergeFailed, EndTask, SetAndSave, Record, UnlinkOutput
  <2>15. ASSUME NEW w \in Workers, WorkerCancelled(w) PROVE TypeOK'
    BY <2>15 DEF WorkerCancelled, EndTask, SetAndSave, Record
  <2>16. ASSUME NEW p \in Pausers, PauseTimeout(p) PROVE TypeOK'
    BY <2>16 DEF PauseTimeout
  <2>17. ASSUME NEW p \in Pausers, PauseReturn(p) PROVE TypeOK'
    BY <2>17 DEF PauseReturn, FinishPause, SetAndSave, Record
  <2>18. CASE Evict
    BY <2>18 DEF Evict
  <2>19. CASE Restart
    <3>1. CASE resume = None
      BY <2>19, <3>1 DEF Restart
    <3>2. CASE resume # None
      <4>1. resume \in ResumeRecord
        BY <3>2
      <4>2. PICK s \in States : /\ downloads' = s
                                /\ status' = [status EXCEPT ![s] = "paused"]
                                /\ AdoptRecord(s)
        BY <2>19, <3>2 DEF Restart
      <4>3. /\ missing' \in [States -> SUBSET Chunks]
            /\ completed' \in [States -> SUBSET Chunks]
            /\ hasOutput' \in [States -> BOOLEAN]
        BY <4>1, <4>2 DEF AdoptRecord
      <4>4. /\ downloads' \in States
            /\ status' \in [States -> Status]
        BY <4>2
      <4>5. /\ current' = None /\ event' = None
            /\ resume' \in ResumeRecord \cup {None}
            /\ store' \in SUBSET Chunks
            /\ output' \in (SUBSET Chunks) \cup {None}
            /\ servePc' = [v \in Servers |-> "idle"]
            /\ serveState' \in [Servers -> States \cup {None}]
            /\ writers' = {}
        BY <2>19 DEF Restart
      <4>6. /\ pc' = [w \in Workers |-> "done"]
            /\ todo' \in [Workers -> SUBSET Chunks]
            /\ stateOf' \in [Workers -> States \cup {None}]
            /\ sinceFlush' \in [Workers -> 0..(FlushInterval - 1)]
            /\ cancelEvent' \in SUBSET Workers
            /\ cancelled' \in SUBSET Workers
        BY <2>19 DEF Restart
      <4>7. /\ pausePc' = [p \in Pausers |-> "idle"]
            /\ pauseState' \in [Pausers -> States \cup {None}]
            /\ pauseTask' \in [Pausers -> Workers \cup {None}]
        BY <2>19 DEF Restart
      <4> QED
        BY <4>3, <4>4, <4>5, <4>6, <4>7
    <3> QED
      BY <3>1, <3>2
  <2>20. CASE UNCHANGED vars
    BY <2>20 DEF vars
  <2> QED
    BY <2>1, <2>2, <2>3, <2>4, <2>5, <2>6, <2>7, <2>8, <2>9, <2>10, <2>11, <2>12,
       <2>13, <2>14, <2>15, <2>16, <2>17, <2>18, <2>19, <2>20
       DEF Next, Request, WorkerStep, PauseStep
<1>3. QED
  BY <1>1, <1>2, PTL DEF Spec

-----------------------------------------------------------------------------
(* The chunk lists of every download, in memory and in the .resume file,   *)
(* always partition the chunks of the manifest.  LedgerPartition is        *)
(* inductive relative to the types.                                        *)
THEOREM LedgerCorrect == Spec => []LedgerPartition
<1> USE DEF LedgerPartition
<1>1. Init => LedgerPartition
  BY DEF Init
<1>2. TypeOK /\ LedgerPartition /\ [Next]_vars => LedgerPartition'
  <2> SUFFICES ASSUME TypeOK, LedgerPartition, [Next]_vars PROVE LedgerPartition'
    OBVIOUS
  <2> USE DEF TypeOK, trackerVars, objectVars, outputVars, taskVars, pauseVars, serveVars
  <2>1. ASSUME NEW s \in States, AdoptRecord(s), resume # None,
               resume' = resume \/ resume' = [resume EXCEPT !.status = "downloading"]
        PROVE LedgerPartition'
    <3>1. resume \in ResumeRecord
      BY <2>1
    <3>2. resume' # None /\ resume'.completed = Chunks \ resume'.missing
      BY <2>1, <3>1, NoneAssumption DEF ResumeRecord, Status
    <3> QED
      BY <2>1, <3>1, <3>2 DEF AdoptRecord, ResumeRecord
  <2>2. ASSUME NEW s \in States, NEW st \in Status, SetAndSave(s, st),
               UNCHANGED <<missing, completed>>
        PROVE LedgerPartition'
    BY <2>2 DEF SetAndSave, Record
  <2>3. ASSUME UNCHANGED <<missing, completed>>, resume' = resume \/ resume' = None
        PROVE LedgerPartition'
    BY <2>3
  <2>4. ASSUME NEW w \in Workers, NEW s \in States, StartUnfinished(w, s)
        PROVE LedgerPartition'
    BY <2>1, <2>2, <2>4 DEF StartUnfinished, Status
  <2>5. ASSUME NEW w \in Workers, NEW s \in States, StartFresh(w, s)
        PROVE LedgerPartition'
    BY <2>5 DEF StartFresh
  <2>6. ASSUME NEW w \in Workers, NEW s \in States, Resume(w, s)
        PROVE LedgerPartition'
    BY <2>1, <2>3, <2>6 DEF Resume
  <2>7. ASSUME NEW p \in Pausers, Pause(p) PROVE LedgerPartition'
    BY <2>2, <2>3, <2>7, NoneAssumption DEF Pause, FinishPause, Status
  <2>8. ASSUME \/ \E v \in Servers : ServeFile(v) \/ CleanupStep(v)
              \/ ClearCompleted
              \/ Evict
        PROVE LedgerPartition'
    BY <2>3, <2>8 DEF ServeFile, ClearCompleted, CleanupStep, CleanupBegin, CleanupResume,
       CleanupUnlink, CleanupPop, CleanupPopTask, CleanupPopEvent, Evict
  <2>9. ASSUME NEW w \in Workers, NEW ahead, LoopHead(w, ahead), Runnable(w),
               UNCHANGED <<missing, completed>>
        PROVE LedgerPartition'
    BY <2>2, <2>3, <2>9 DEF LoopHead, Runnable, Active, Status
  <2>10. ASSUME NEW w \in Workers, WorkerBegin(w) \/ WorkerNextChunk(w)
         PROVE LedgerPartition'
    BY <2>9, <2>10 DEF WorkerBegin, WorkerNextChunk
  <2>11. ASSUME NEW w \in Workers, ChunkFetched(w) PROVE LedgerPartition'
    BY <2>11 DEF ChunkFetched, MarkCompleted, Runnable, Active
  <2>12. ASSUME NEW w \in Workers, ChunkFailed(w) PROVE LedgerPartition'
    BY <2>12 DEF ChunkFailed, Record, Runnable, Active
  <2>13. ASSUME NEW w \in Workers, MergeWrite(w) PROVE LedgerPartition'
    BY <2>3, <2>13 DEF MergeWrite
  <2>14. ASSUME NEW w \in Workers,
                MergeCompleted(w) \/ MergeFailed(w) \/ WorkerCancelled(w)
         PROVE LedgerPartition'
    BY <2>2, <2>14
       DEF MergeCompleted, MergeFailed, WorkerCancelled, Runnable, Active, Status
  <2>15. ASSUME NEW p \in Pausers, PauseTimeout(p) PROVE LedgerPartition'
    BY <2>3, <2>15 DEF PauseTimeout
  <2>16. ASSUME NEW p \in Pausers, PauseReturn(p) PROVE LedgerPartition'
    BY <2>2, <2>16 DEF PauseReturn, FinishPause, Waiting, Status
  <2>17. CASE Restart
    BY <2>1, <2>3, <2>17 DEF Restart
  <2>18. CASE UNCHANGED vars
    BY <2>3, <2>18 DEF vars
  <2> QED
    BY <2>4, <2>5, <2>6, <2>7, <2>8, <2>10, <2>11, <2>12, <2>13, <2>14, <2>15,
       <2>16, <2>17, <2>18
       DEF Next, Request, WorkerStep, PauseStep
<1>3. QED
  BY <1>1, <1>2, TypeCorrect, PTL DEF Spec

-----------------------------------------------------------------------------
(* No task merges, and no download is finalizing or completed, with a      *)
(* chunk missing.  The invariant is inductive only together with what a    *)
(* task's snapshot is worth: a chunk its state object still misses is      *)
(* still ahead of it, because the lists of an object in use only shrink.   *)
THEOREM MergeCorrect == Spec => []MergeInv
<1> USE DEF MergeInv, MergeHasEveryChunk, FinishedMissesNothing, TodoCoversMissing
<1>1. Init => MergeInv
  BY DEF Init
<1>2. TypeOK /\ MergeInv /\ [Next]_vars => MergeInv'
  <2> SUFFICES ASSUME TypeOK, MergeInv, [Next]_vars PROVE MergeInv'
    OBVIOUS
  <2> USE DEF TypeOK, trackerVars, objectVars, outputVars, taskVars, pauseVars, serveVars
  <2>1. ASSUME NEW w \in Workers, NEW s \in States, StartUnfinished(w, s)
        PROVE MergeInv'
    <3>1. CASE s = downloads
      BY <2>1, <3>1
         DEF StartUnfinished, LaunchWorker, FreeTask, Active, SetAndSave, Record
    <3>2. CASE s # downloads
      BY <2>1, <3>2 DEF StartUnfinished, LaunchWorker, FreeTask, Active, AdoptRecord,
         LiveStates, ResumeRecord, Status
    <3> QED
      BY <3>1, <3>2
  <2>2. ASSUME NEW w \in Workers, NEW s \in States, StartFresh(w, s)
        PROVE MergeInv'
    BY <2>2 DEF StartFresh, LaunchWorker, FreeTask, Active, LiveStates
  <2>3. ASSUME NEW w \in Workers, NEW s \in States, Resume(w, s)
        PROVE MergeInv'
    <3>1. CASE s = downloads
      BY <2>3, <3>1 DEF Resume, LaunchWorker, FreeTask, Active
    <3>2. CASE s # downloads
      BY <2>3, <3>2 DEF Resume, LaunchWorker, FreeTask, Active, AdoptRecord,
         LiveStates
    <3> QED
      BY <3>1, <3>2
  <2>4. ASSUME NEW p \in Pausers, Pause(p) PROVE MergeInv'
    BY <2>4 DEF Pause, FinishPause, SetAndSave, Record
  <2>5. ASSUME \/ \E v \in Servers : ServeFile(v) \/ CleanupStep(v)
              \/ ClearCompleted
              \/ Evict
        PROVE MergeInv'
    BY <2>5 DEF ServeFile, ClearCompleted, CleanupStep, CleanupBegin, CleanupResume,
       CleanupUnlink, CleanupPop, CleanupPopTask, CleanupPopEvent, Evict
  <2>6. ASSUME NEW w \in Workers, NEW ahead, LoopHead(w, ahead), Runnable(w),
               missing[stateOf[w]] \subseteq ahead, UNCHANGED missing
        PROVE MergeInv'
    BY <2>6 DEF LoopHead, AllFetched, EndTask, SetAndSave, Record, Runnable, Active
  <2>7. ASSUME NEW w \in Workers, WorkerBegin(w) \/ WorkerNextChunk(w)
        PROVE MergeInv'
    BY <2>6, <2>7 DEF WorkerBegin, WorkerNextChunk
  <2>8. ASSUME NEW w \in Workers, ChunkFetched(w) PROVE MergeInv'
    BY <2>8 DEF ChunkFetched, MarkCompleted, Runnable, Active
  <2>9. ASSUME NEW w \in Workers, ChunkFailed(w) PROVE MergeInv'
    BY <2>9 DEF ChunkFailed, EndTask, Record, Runnable, Active
  <2>10. ASSUME NEW w \in Workers, MergeWrite(w) PROVE MergeInv'
    BY <2>10 DEF MergeWrite
  <2>11. ASSUME NEW w \in Workers,
                MergeCompleted(w) \/ MergeFailed(w) \/ WorkerCancelled(w)
         PROVE MergeInv'
    BY <2>11 DEF MergeCompleted, MergeFailed, WorkerCancelled, EndTask, SetAndSave,
       Record, Runnable, Active
  <2>12. ASSUME NEW p \in Pausers, PauseTimeout(p) PROVE MergeInv'
    BY <2>12 DEF PauseTimeout
  <2>13. ASSUME NEW p \in Pausers, PauseReturn(p) PROVE MergeInv'
    BY <2>13 DEF PauseReturn, FinishPause, SetAndSave, Record, Waiting
  <2>14. CASE Restart
    BY <2>14 DEF Restart, AdoptRecord
  <2>15. CASE UNCHANGED vars
    BY <2>15 DEF vars
  <2> QED
    BY <2>1, <2>2, <2>3, <2>4, <2>5, <2>7, <2>8, <2>9, <2>10, <2>11, <2>12, <2>13,
       <2>14, <2>15
       DEF Next, Request, WorkerStep, PauseStep
<1>3. QED
  BY <1>1, <1>2, TypeCorrect, PTL DEF Spec

-----------------------------------------------------------------------------
(* A tracked download in progress always has a pause request or a task at  *)
(* work on it, and not any task: one that leaves its loop because of its   *)
(* cancel event does not change the status.  So the invariant asks for one *)
(* whose event is not set, or that merges and looks at it no more.         *)
THEOREM BusyCorrect == Spec => []BusyInv
<1> USE DEF BusyInv, BusyGoesOn, EventsAreRead, GoesOn, Busy, Running, Active, Waiting
<1>1. Init => BusyInv
  BY DEF Init
<1>2. TypeOK /\ BusyInv /\ [Next]_vars => BusyInv'
  <2> SUFFICES ASSUME TypeOK, BusyInv, [Next]_vars PROVE BusyInv'
    OBVIOUS
  <2> USE DEF TypeOK, trackerVars, objectVars, outputVars, taskVars, pauseVars, serveVars
  <2>1. ASSUME NEW w \in Workers, NEW s \in States, LaunchWorker(w, s),
               UNCHANGED pauseVars
        PROVE BusyInv'
    <3>1. w \notin cancelEvent /\ pc[w] = "done"
      BY <2>1 DEF LaunchWorker, FreeTask
    <3> QED
      BY <2>1, <3>1 DEF LaunchWorker
  <2>2. ASSUME NEW w \in Workers, NEW s \in States,
               StartUnfinished(w, s) \/ StartFresh(w, s) \/ Resume(w, s)
        PROVE BusyInv'
    BY <2>1, <2>2 DEF StartUnfinished, StartFresh, Resume
  <2>3. ASSUME NEW p \in Pausers, Pause(p) PROVE BusyInv'
    <3>1. EventsAreRead'
      BY <2>3 DEF Pause, SetEvent
    <3>2. CASE Running(current)
      BY <2>3, <3>1, <3>2 DEF Pause
    <3>3. CASE ~Running(current)
      BY <2>3, <3>1, <3>3 DEF Pause, FinishPause, SetAndSave
    <3> QED
      BY <3>2, <3>3
  <2>4. ASSUME \/ \E v \in Servers : ServeFile(v) \/ CleanupStep(v)
              \/ ClearCompleted
              \/ Evict
        PROVE BusyInv'
    BY <2>4 DEF ServeFile, ClearCompleted, CleanupStep, CleanupBegin, CleanupResume,
       CleanupUnlink, CleanupPop, CleanupPopTask, CleanupPopEvent, Evict
  (* A task that ends either set a status that is not busy or was paused. *)
  <2>5. ASSUME NEW w \in Workers, Active(w), EndTask(w),
               UNCHANGED <<trackerVars, pauseVars>>,
               \/ w \in cancelEvent /\ pc[w] # "merging" /\ UNCHANGED status
               \/ \E st \in Status \ Busy : status' = [status EXCEPT ![stateOf[w]] = st]
        PROVE BusyInv'
    <3>1. EventsAreRead'
      BY <2>5 DEF EndTask
    <3>2. BusyGoesOn'
      BY <2>5 DEF EndTask
    <3> QED
      BY <3>1, <3>2
  (* A task that goes on keeps its download worked on. *)
  <2>6. ASSUME NEW w \in Workers, Active(w), pc[w] # "merging",
               \E to \in {"looping", "fetching", "merging"} :
                   pc' = [pc EXCEPT ![w] = to],
               UNCHANGED <<trackerVars, pauseVars, stateOf, cancelEvent>>,
               \/ UNCHANGED status
               \/ /\ pc'[w] = "merging"
                  /\ \E st \in Status : status' = [status EXCEPT ![stateOf[w]] = st]
        PROVE BusyInv'
    BY <2>6
  <2>7. ASSUME NEW w \in Workers, NEW ahead, LoopHead(w, ahead), Runnable(w),
               pc[w] # "merging", UNCHANGED <<trackerVars, pauseVars>>
        PROVE BusyInv'
    BY <2>5, <2>6, <2>7 DEF LoopHead, SetAndSave, Runnable, Status
  <2>8. ASSUME NEW w \in Workers, WorkerBegin(w) \/ WorkerNextChunk(w)
        PROVE BusyInv'
    BY <2>7, <2>8 DEF WorkerBegin, WorkerNextChunk
  <2>9. ASSUME NEW w \in Workers, ChunkFetched(w) PROVE BusyInv'
    BY <2>6, <2>9 DEF ChunkFetched, Runnable
  <2>10. ASSUME NEW w \in Workers, MergeWrite(w) PROVE BusyInv'
    BY <2>10 DEF MergeWrite
  <2>11. ASSUME NEW w \in Workers, \/ ChunkFailed(w) \/ MergeCompleted(w)
                                   \/ MergeFailed(w) \/ WorkerCancelled(w)
         PROVE BusyInv'
    BY <2>5, <2>11 DEF ChunkFailed, MergeCompleted, MergeFailed, WorkerCancelled,
       SetAndSave, Runnable, Status
  <2>12. ASSUME NEW p \in Pausers, PauseTimeout(p) PROVE BusyInv'
    BY <2>12 DEF PauseTimeout
  <2>13. ASSUME NEW p \in Pausers, PauseReturn(p) PROVE BusyInv'
    <3>1. EventsAreRead'
      BY <2>13 DEF PauseReturn, FinishPause
    <3>2. BusyGoesOn'
      BY <2>13 DEF PauseReturn, FinishPause, SetAndSave
    <3> QED
      BY <3>1, <3>2
  <2>14. CASE Restart
    BY <2>14 DEF Restart
  <2>15. CASE UNCHANGED vars
    BY <2>15 DEF vars
  <2> QED
    BY <2>2, <2>3, <2>4, <2>8, <2>9, <2>10, <2>11, <2>12, <2>13, <2>14, <2>15
       DEF Next, Request, WorkerStep, PauseStep
<1>3. QED
  BY <1>1, <1>2, TypeCorrect, PTL DEF Spec

-----------------------------------------------------------------------------
(* The manager implements the promise of resumable downloads: whatever     *)
(* requests, tasks, pauses, cleanups and crashes do to each other, the     *)
(* download of the tracker goes on as ResumableDownload says.  A step that *)
(* leaves the tracker alone continues the tracked download, or only saves  *)
(* one; that a record never claims an end it has not reached is MergeInv.  *)
THEOREM Refinement == Spec => KeepsProgress
<1> USE DEF TypeOK, trackerVars, objectVars, outputVars, taskVars, pauseVars, serveVars
<1>1. Init => Promise!Init
  BY DEF Init, Promise!Init
<1>2. ASSUME TypeOK, TypeOK', MergeInv', [Next]_vars
      PROVE [Promise!Next]_(Promise!vars)
  <2>1. Promise!RecordFits
    BY <1>2 DEF Promise!RecordFits, Promise!Fits, MergeInv, FinishedMissesNothing
  <2>2. ASSUME downloads' # None
        PROVE /\ status'[downloads'] \in Status
              /\ Promise!Fits(missing'[downloads'], status'[downloads'])
    BY <1>2, <2>2 DEF Promise!Fits, MergeInv, FinishedMissesNothing
  <2>3. ASSUME downloads # None, downloads' # None,
               \/ missing'[downloads'] = missing[downloads]
               \/ \E i \in missing[downloads] :
                      missing'[downloads'] = missing[downloads] \ {i}
        PROVE Promise!Next
    <3>1. missing[downloads] # None /\ status'[downloads'] # None
      BY <1>2, <2>2, <2>3
    <3>2. Promise!Go
      BY <2>1, <2>2, <2>3, <3>1 DEF Promise!Go
    <3> QED
      BY <3>2 DEF Promise!Next
  <2>4. ASSUME downloads' = None PROVE Promise!Next
    <3>1. CASE downloads = None
      BY <2>1, <2>4, <3>1 DEF Promise!Next, Promise!Save
    <3>2. CASE downloads # None
      <4>1. missing[downloads] # None
        BY <1>2, <3>2
      <4> QED
        BY <2>1, <2>4, <3>2, <4>1 DEF Promise!Next, Promise!Forget
    <3> QED
      BY <3>1, <3>2
  <2>5. ASSUME downloads' = downloads,
               \A s \in States : \/ missing'[s] = missing[s]
                                  \/ \E i \in missing[s] : missing'[s] = missing[s] \ {i}
        PROVE Promise!Next
    BY <1>2, <2>3, <2>4, <2>5
  <2>6. ASSUME NEW s \in States, resume # None, resume.status # "completed",
               downloads = None, downloads' = s, AdoptRecord(s),
               status' = [status EXCEPT ![s] = "downloading"]
        PROVE Promise!Next
    <3>1. missing'[s] = resume.missing /\ status'[s] = "downloading" /\ s # None
      BY <1>2, <2>6 DEF AdoptRecord
    <3>2. Promise!Begin
      BY <2>1, <2>6, <3>1 DEF Promise!Begin
    <3> QED
      BY <3>2 DEF Promise!Next
  <2>7. ASSUME NEW w \in Workers, NEW s \in States, StartUnfinished(w, s)
        PROVE Promise!Next
    <3>1. downloads' = s /\ s # None
      BY <2>7 DEF StartUnfinished, LaunchWorker
    <3>2. CASE s = downloads
      BY <1>2, <2>5, <2>7, <3>1, <3>2 DEF StartUnfinished
    <3>3. CASE s # downloads
      BY <2>6, <2>7, <3>1, <3>3 DEF StartUnfinished
    <3> QED
      BY <3>2, <3>3
  <2>8. ASSUME NEW w \in Workers, NEW s \in States, Resume(w, s)
        PROVE Promise!Next
    <3>1. downloads' = s /\ s # None
      BY <2>8 DEF Resume, LaunchWorker
    <3>2. CASE s = downloads
      BY <1>2, <2>5, <2>8, <3>1, <3>2 DEF Resume
    <3>3. CASE s # downloads
      BY <2>6, <2>8, <3>1, <3>3 DEF Resume
    <3> QED
      BY <3>2, <3>3
  <2>9. ASSUME NEW w \in Workers, NEW s \in States, StartFresh(w, s)
        PROVE Promise!Next
    <3>1. /\ downloads' = s /\ s # None
          /\ missing'[s] = Chunks /\ status'[s] = "downloading"
      BY <1>2, <2>9 DEF StartFresh, LaunchWorker
    <3>2. CASE downloads = None
      <4>1. Promise!Begin
        BY <2>1, <2>9, <3>1, <3>2 DEF StartFresh, NothingToContinue, Promise!Begin
      <4> QED
        BY <4>1 DEF Promise!Next
    <3>3. CASE downloads # None
      <4>1. Promise!Again
        BY <2>1, <2>9, <3>1, <3>3 DEF StartFresh, NothingToContinue, Promise!Again
      <4> QED
        BY <4>1 DEF Promise!Next
    <3> QED
      BY <3>2, <3>3
  <2>10. CASE Restart
    <3>1. resume' = resume
      BY <2>10 DEF Restart
    <3>2. CASE resume = None
      BY <2>10, <3>2, <2>4 DEF Restart
    <3>3. CASE resume # None
      <4>1. PICK s \in States : /\ downloads' = s
                                /\ status' = [status EXCEPT ![s] = "paused"]
                                /\ AdoptRecord(s)
        BY <2>10, <3>3 DEF Restart
      <4>2. missing'[s] = resume.missing /\ status'[s] = "paused" /\ s # None
        BY <1>2, <4>1 DEF AdoptRecord
      <4>3. Promise!Crash
        BY <3>1, <3>3, <4>1, <4>2 DEF Promise!Crash
      <4> QED
        BY <4>3 DEF Promise!Next
    <3> QED
      BY <3>2, <3>3
  <2>11. ASSUME NEW w \in Workers, ChunkFetched(w) PROVE Promise!Next
    <3>1. stateOf[w] \in States /\ downloads' = downloads
      BY <1>2, <2>11 DEF ChunkFetched, Runnable, Active
    <3>2. PICK i \in Chunks : MarkCompleted(stateOf[w], i)
      BY <2>11 DEF ChunkFetched
    <3>3. ASSUME NEW s \in States
          PROVE \/ missing'[s] = missing[s]
                \/ \E j \in missing[s] : missing'[s] = missing[s] \ {j}
      <4>1. missing'[s] = missing[s] \/ missing'[s] = missing[s] \ {i}
        BY <1>2, <3>1, <3>2 DEF MarkCompleted
      <4>2. i \notin missing[s] => missing[s] \ {i} = missing[s]
        OBVIOUS
      <4> QED
        BY <4>1, <4>2
    <3> QED
      BY <2>5, <3>1, <3>3
  <2>12. ASSUME UNCHANGED <<downloads, missing>> PROVE Promise!Next
    BY <2>5, <2>12
  <2>13. ASSUME \/ \E p \in Pausers : Pause(p) \/ PauseTimeout(p) \/ PauseReturn(p)
                \/ \E v \in Servers : ServeFile(v)
                \/ \E w \in Workers : \/ WorkerBegin(w) \/ WorkerNextChunk(w)
                                       \/ ChunkFailed(w) \/ MergeWrite(w)
                                       \/ MergeCompleted(w) \/ MergeFailed(w)
                                       \/ WorkerCancelled(w)
                \/ Evict \/ UNCHANGED vars
         PROVE Promise!Next
    BY <2>12, <2>13 DEF Pause, PauseTimeout, PauseReturn, ServeFile, WorkerBegin,
       WorkerNextChunk, ChunkFailed, MergeWrite, MergeCompleted, MergeFailed,
       WorkerCancelled, Evict, vars
  <2>14. ASSUME NEW v \in Servers, CleanupStep(v) PROVE Promise!Next
    BY <2>4, <2>12, <2>14 DEF CleanupStep, CleanupBegin, CleanupResume, CleanupUnlink,
       CleanupPop, CleanupPopTask, CleanupPopEvent
  <2>15. CASE ClearCompleted
    BY <2>4, <2>15 DEF ClearCompleted
  <2> QED
    BY <1>2, <2>7, <2>8, <2>9, <2>10, <2>11, <2>13, <2>14, <2>15
       DEF Next, Request, WorkerStep, PauseStep
<1>3. QED
  BY <1>1, <1>2, TypeCorrect, MergeCorrect, PTL DEF Spec, KeepsProgress, Promise!Spec

-----------------------------------------------------------------------------
(* A task merges only when its download misses no chunk. *)
THEOREM MergeSafe == Spec => []MergeHasEveryChunk
BY MergeCorrect, PTL DEF MergeInv

(* Nothing is missing of a finalizing or completed download, in memory or  *)
(* in its .resume file.                                                    *)
THEOREM FinishedSafe == Spec => []FinishedMissesNothing
BY MergeCorrect, PTL DEF MergeInv

(* A download in progress is never without a task or a pause request. *)
THEOREM NeverStuck == Spec => []BusyIsWorkedOn
<1>1. BusyInv => BusyIsWorkedOn
  BY DEF BusyInv, BusyGoesOn, GoesOn, BusyIsWorkedOn, WorkedOn
<1> QED
  BY <1>1, BusyCorrect, PTL
==============================================================================
