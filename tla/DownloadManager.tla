--------------------------- MODULE DownloadManager ---------------------------
(***************************************************************************)
(* The resumable download manager of backend/api/download_manager.py: the  *)
(* tracker of one file, the asyncio tasks that download and merge it, the  *)
(* pause requests that wait for such a task, the .resume file that         *)
(* survives a crash, and the output file the tasks write.                  *)
(*                                                                         *)
(* Every dictionary of the manager is keyed by the file hash, so two files *)
(* interact only through the chunk store, whose garbage collector is the   *)
(* action Evict.  One file is modelled.  An action is the code a coroutine *)
(* runs between two suspension points (an await that really yields).       *)
(***************************************************************************)
EXTENDS Naturals, FiniteSets

CONSTANTS
    NumChunks,      \* chunks of the manifest, indexed from 0 as in the code
    FlushInterval,  \* FLUSH_INTERVAL: chunks between two periodic saves
    States,         \* identities of DownloadState objects (bound on live ones)
    Workers,        \* identities of asyncio tasks (bound on live ones)
    Pausers,        \* pause requests that can wait at the same time (bound)
    Servers,        \* /file responses whose cleanup is not over (bound)
    None            \* the absent entry

ASSUME NumChunksAssumption == NumChunks \in Nat
ASSUME FlushAssumption == FlushInterval \in Nat \ {0}

Chunks == 0..(NumChunks - 1)

Status == {"downloading", "finalizing", "paused", "completed", "error"}

ResumeRecord == [status: Status, missing: SUBSET Chunks, completed: SUBSET Chunks]

ASSUME NoneAssumption ==
    /\ None \notin States \cup Workers \cup Status
    /\ \A c \in SUBSET Chunks : c # None
    /\ \A r \in ResumeRecord : r # None

VARIABLES
    (* the manager's dictionaries, at this file's key *)
    downloads,    \* _downloads: the tracked state object, or None
    current,      \* _tasks: the task, or None
    event,        \* _cancel_events: the task that reads the event, or None
    (* DownloadState objects *)
    status,       \* field status
    missing,      \* field missing_chunks
    completed,    \* field completed_chunks
    hasOutput,    \* field output_path is set
    (* disk *)
    resume,       \* the .resume file, or None
    store,        \* chunks present in the local chunk store
    output,       \* chunks in the file at the output path, or None
    writers,      \* tasks whose descriptor is the file at the output path
    (* download tasks *)
    pc,           \* where the task is suspended
    stateOf,      \* the task's state argument
    todo,         \* chunks still ahead: of missing_set, then of the merge
    sinceFlush,   \* chunks_since_flush
    cancelEvent,  \* tasks whose cancel_event is set
    cancelled,    \* tasks with a task.cancel() not yet delivered
    (* pause requests *)
    pausePc, pauseState, pauseTask,
    (* /file responses and their cleanup_file, which runs in a thread *)
    servePc, serveState

trackerVars == <<downloads, current, event>>
objectVars  == <<status, missing, completed, hasOutput>>
outputVars  == <<output, writers>>
taskVars    == <<pc, stateOf, todo, sinceFlush, cancelEvent, cancelled>>
pauseVars   == <<pausePc, pauseState, pauseTask>>
serveVars   == <<servePc, serveState>>
vars == <<trackerVars, objectVars, resume, store, outputVars, taskVars,
          pauseVars, serveVars>>

(* The cleanup of a response has read the tracker and is not done. *)
Cleaning(v) == servePc[v] \notin {"idle", "sending"}

TypeOK ==
    /\ downloads \in States \cup {None}
    /\ current \in Workers \cup {None} /\ event \in Workers \cup {None}
    /\ status \in [States -> Status]
    /\ missing \in [States -> SUBSET Chunks]
    /\ completed \in [States -> SUBSET Chunks]
    /\ hasOutput \in [States -> BOOLEAN]
    /\ resume \in ResumeRecord \cup {None}
    /\ store \in SUBSET Chunks
    /\ output \in (SUBSET Chunks) \cup {None}
    /\ writers \in SUBSET Workers
    /\ writers # {} => output # None
    /\ pc \in [Workers -> {"created", "looping", "fetching", "merging", "done"}]
    /\ stateOf \in [Workers -> States \cup {None}]
    /\ todo \in [Workers -> SUBSET Chunks]
    /\ sinceFlush \in [Workers -> 0..(FlushInterval - 1)]
    /\ cancelEvent \in SUBSET Workers
    /\ cancelled \in SUBSET Workers
    /\ pausePc \in [Pausers -> {"idle", "waiting", "cancelling"}]
    /\ pauseState \in [Pausers -> States \cup {None}]
    /\ pauseTask \in [Pausers -> Workers \cup {None}]
    /\ servePc \in [Servers -> {"idle", "sending", "resume", "unlink", "pop", "popTask",
                            "popEvent"}]
    /\ serveState \in [Servers -> States \cup {None}]
    /\ \A w \in Workers : pc[w] # "done" => stateOf[w] \in States
    /\ \A p \in Pausers : pausePc[p] # "idle" =>
                              pauseState[p] \in States /\ pauseTask[p] \in Workers
    /\ \A v \in Servers : Cleaning(v) => serveState[v] \in States

-----------------------------------------------------------------------------
(* Tasks and objects in use.  An identity nothing refers to stands for the *)
(* next task or object the program allocates.                              *)

Active(w) == pc[w] # "done"

Running(t) == t # None /\ Active(t)

Runnable(w) == Active(w) /\ w \notin cancelled

Waiting(p) == pausePc[p] # "idle"

FreeTask(w) ==
    /\ ~Active(w)
    /\ w # current /\ w # event
    /\ \A p \in Pausers : Waiting(p) => pauseTask[p] # w

LiveStates ==
    {s \in States :
        \/ s = downloads
        \/ \E w \in Workers : Active(w) /\ stateOf[w] = s
        \/ \E p \in Pausers : Waiting(p) /\ pauseState[p] = s
        \/ \E v \in Servers : Cleaning(v) /\ serveState[v] = s}

(* The .resume record _save_resume writes for state object s. *)
Record(s) == [status |-> status[s], missing |-> missing[s],
              completed |-> completed[s]]

(* State object s gets status st and is saved, as every caller but one does. *)
SetAndSave(s, st) ==
    /\ status' = [status EXCEPT ![s] = st]
    /\ resume' = [Record(s) EXCEPT !.status = st]

(* from_resume_dict: object s takes the lists of the .resume file. *)
AdoptRecord(s) ==
    /\ missing' = [missing EXCEPT ![s] = resume.missing]
    /\ completed' = [completed EXCEPT ![s] = resume.completed]
    /\ hasOutput' = [hasOutput EXCEPT ![s] = FALSE]

MarkWithoutRemoving(s, i) ==
    /\ missing' = missing
    /\ completed' = [completed EXCEPT ![s] = @ \cup {i}]

(* Chunk i of s is on disk: both guarded list updates. *)
MarkCompleted(s, i) ==
    /\ missing' = [missing EXCEPT ![s] = @ \ {i}]
    /\ completed' = [completed EXCEPT ![s] = @ \cup {i}]

(* Task w returns; the event, counter and snapshot it alone uses go with it. *)
EndTask(w) ==
    /\ pc' = [pc EXCEPT ![w] = "done"]
    /\ stateOf' = [stateOf EXCEPT ![w] = None]
    /\ todo' = [todo EXCEPT ![w] = {}]
    /\ sinceFlush' = [sinceFlush EXCEPT ![w] = 0]
    /\ cancelEvent' = cancelEvent \ {w}
    /\ cancelled' = cancelled \ {w}

(* The open descriptors of an unlinked file no longer reach the output path. *)
UnlinkOutput == output' = None /\ writers' = {}

Init ==
    /\ downloads = None
    /\ current = None /\ event = None
    /\ status = [s \in States |-> "paused"]
    /\ missing = [s \in States |-> Chunks]
    /\ completed = [s \in States |-> {}]
    /\ hasOutput = [s \in States |-> FALSE]
    /\ resume = None
    /\ store \in SUBSET Chunks
    /\ output = None
    /\ writers = {}
    /\ pc = [w \in Workers |-> "done"]
    /\ stateOf = [w \in Workers |-> None]
    /\ todo = [w \in Workers |-> {}]
    /\ sinceFlush = [w \in Workers |-> 0]
    /\ cancelEvent = {}
    /\ cancelled = {}
    /\ pausePc = [p \in Pausers |-> "idle"]
    /\ pauseState = [p \in Pausers |-> None]
    /\ pauseTask = [p \in Pausers |-> None]
    /\ servePc = [v \in Servers |-> "idle"]
    /\ serveState = [v \in Servers |-> None]

-----------------------------------------------------------------------------
(* Requests *)

(* A new cancel event and a new worker task for state object s. *)
LaunchWorker(w, s) ==
    /\ FreeTask(w)
    /\ downloads' = s
    /\ current' = w /\ event' = w
    /\ pc' = [pc EXCEPT ![w] = "created"]
    /\ stateOf' = [stateOf EXCEPT ![w] = s]
    /\ UNCHANGED <<todo, sinceFlush, cancelEvent, cancelled>>

(* start_download with a state object, tracked or read from the .resume   *)
(* file, that still misses chunks: the same lists are continued.          *)
StartUnfinished(w, s) ==
    /\ \/ /\ s = downloads
          /\ status[s] \notin {"downloading", "completed"}
          /\ missing[s] # {}
          /\ UNCHANGED <<missing, completed, hasOutput>>
          /\ SetAndSave(s, "downloading")
       \/ /\ downloads = None /\ s \notin LiveStates
          /\ resume # None
          /\ resume.status \notin {"downloading", "completed"}
          /\ resume.missing # {}
          /\ AdoptRecord(s)
          /\ status' = [status EXCEPT ![s] = "downloading"]
          /\ resume' = [resume EXCEPT !.status = "downloading"]
    /\ LaunchWorker(w, s)
    /\ UNCHANGED <<store, outputVars, pauseVars, serveVars>>

(* Nothing is known of the file, in memory or on disk, or what is known    *)
(* misses no chunk and is neither in progress nor completed.               *)
AtRest ==
    IF downloads # None THEN status[downloads] \notin {"downloading", "completed"}
    ELSE resume # None => resume.status \notin {"downloading", "completed"}
NothingToContinue ==
    IF downloads # None
    THEN /\ status[downloads] \notin {"downloading", "completed"}
         /\ missing[downloads] = {}
    ELSE resume # None => /\ resume.status \notin {"downloading", "completed"}
                          /\ resume.missing = {}

(* start_download then has a fresh object replace what is known, whatever  *)
(* its task is doing.                                                      *)
StartFresh(w, s) ==
    /\ s \notin LiveStates
    /\ NothingToContinue
    /\ missing' = [missing EXCEPT ![s] = Chunks]
    /\ completed' = [completed EXCEPT ![s] = {}]
    /\ hasOutput' = [hasOutput EXCEPT ![s] = FALSE]
    /\ status' = [status EXCEPT ![s] = "downloading"]
    /\ resume' = [status |-> "downloading", missing |-> Chunks, completed |-> {}]
    /\ LaunchWorker(w, s)
    /\ UNCHANGED <<store, outputVars, pauseVars, serveVars>>

(* resume_download: anything but a downloading or completed state gets a   *)
(* new task, also one that is finalizing.  Nothing is saved.               *)
Resume(w, s) ==
    /\ \/ /\ s = downloads
          /\ status[s] \notin {"downloading", "completed"}
          /\ UNCHANGED <<missing, completed, hasOutput>>
       \/ /\ downloads = None /\ s \notin LiveStates
          /\ resume # None
          /\ resume.status \notin {"downloading", "completed"}
          /\ AdoptRecord(s)
    /\ status' = [status EXCEPT ![s] = "downloading"]
    /\ LaunchWorker(w, s)
    /\ UNCHANGED <<resume, store, outputVars, pauseVars, serveVars>>

FinishPauseUnlabelled(s) ==
    /\ SetAndSave(s, status[s])
    /\ current' = None /\ event' = None

(* The end of pause_download: whatever happened during the wait, the state *)
(* is paused and saved, and whatever task and event are registered are     *)
(* forgotten.                                                              *)
FinishPause(s) ==
    /\ SetAndSave(s, "paused")
    /\ current' = None /\ event' = None

(* The cancel event that is registered is set.  A task that has ended does *)
(* not read it any more.                                                   *)
SetEvent == cancelEvent' = cancelEvent \cup {w \in Workers : w = event /\ Active(w)}

(* pause_download up to its wait; without a running task there is none. *)
Pause(p) ==
    /\ ~Waiting(p)
    /\ downloads # None
    /\ status[downloads] = "downloading"
    /\ SetEvent
    /\ \/ /\ Running(current)
          /\ pausePc' = [pausePc EXCEPT ![p] = "waiting"]
          /\ pauseState' = [pauseState EXCEPT ![p] = downloads]
          /\ pauseTask' = [pauseTask EXCEPT ![p] = current]
          /\ UNCHANGED <<current, event, status, resume>>
       \/ /\ ~Running(current)
          /\ FinishPause(downloads)
          /\ UNCHANGED pauseVars
    /\ UNCHANGED <<downloads, missing, completed, hasOutput, store, outputVars,
                   pc, stateOf, todo, sinceFlush, cancelled, serveVars>>

(* The three seconds pass; the task has had its first step by then. *)
PauseTimeout(p) ==
    /\ pausePc[p] = "waiting"
    /\ pc[pauseTask[p]] \notin {"created", "done"}
    /\ pausePc' = [pausePc EXCEPT ![p] = "cancelling"]
    /\ cancelled' = cancelled \cup {pauseTask[p]}
    /\ UNCHANGED <<trackerVars, objectVars, resume, store, outputVars, pc, stateOf,
                   todo, sinceFlush, cancelEvent, pauseState, pauseTask, serveVars>>

PauseReturn(p) ==
    /\ Waiting(p)
    /\ ~Active(pauseTask[p])
    /\ FinishPause(pauseState[p])
    /\ pausePc' = [pausePc EXCEPT ![p] = "idle"]
    /\ pauseState' = [pauseState EXCEPT ![p] = None]
    /\ pauseTask' = [pauseTask EXCEPT ![p] = None]
    /\ UNCHANGED <<downloads, missing, completed, hasOutput, store, outputVars,
                   taskVars, serveVars>>

(* GET /file of a completed download: the response is sent, and a cleanup  *)
(* keyed by the file hash is scheduled to run after it.                    *)
ServeFile(v) ==
    /\ servePc[v] = "idle"
    /\ downloads # None
    /\ status[downloads] = "completed"
    /\ hasOutput[downloads]
    /\ output # None
    /\ servePc' = [servePc EXCEPT ![v] = "sending"]
    /\ UNCHANGED <<trackerVars, objectVars, resume, store, outputVars, taskVars,
                   pauseVars, serveState>>

(* cleanup_file calls clear_specific_completed, which looks at no status.  *)
(* It is no coroutine, so it runs in a thread of the pool, and the event   *)
(* loop can run between any two of its statements.                         *)
CleanupBegin(v) ==
    /\ servePc[v] = "sending"
    /\ IF downloads = None
       THEN /\ servePc' = [servePc EXCEPT ![v] = "idle"]
            /\ UNCHANGED serveState
       ELSE /\ servePc' = [servePc EXCEPT ![v] = "resume"]
            /\ serveState' = [serveState EXCEPT ![v] = downloads]
    /\ UNCHANGED <<trackerVars, objectVars, resume, store, outputVars, taskVars,
                   pauseVars>>

CleanupResume(v) ==
    /\ servePc[v] = "resume"
    /\ resume' = None
    /\ servePc' = [servePc EXCEPT ![v] = "unlink"]
    /\ UNCHANGED <<trackerVars, objectVars, store, outputVars, taskVars, pauseVars,
                   serveState>>

CleanupUnlink(v) ==
    /\ servePc[v] = "unlink"
    /\ IF hasOutput[serveState[v]] THEN UnlinkOutput ELSE UNCHANGED outputVars
    /\ servePc' = [servePc EXCEPT ![v] = "pop"]
    /\ UNCHANGED <<trackerVars, objectVars, resume, store, taskVars, pauseVars,
                   serveState>>

(* The three pops *)
CleanupPop(v) ==
    /\ servePc[v] = "pop"
    /\ downloads' = None
    /\ servePc' = [servePc EXCEPT ![v] = "popTask"]
    /\ UNCHANGED <<current, event, objectVars, resume, store, outputVars, taskVars,
                   pauseVars, serveState>>

CleanupPopTask(v) ==
    /\ servePc[v] = "popTask"
    /\ current' = None
    /\ servePc' = [servePc EXCEPT ![v] = "popEvent"]
    /\ UNCHANGED <<downloads, event, objectVars, resume, store, outputVars, taskVars,
                   pauseVars, serveState>>

CleanupPopEvent(v) ==
    /\ servePc[v] = "popEvent"
    /\ event' = None
    /\ servePc' = [servePc EXCEPT ![v] = "idle"]
    /\ serveState' = [serveState EXCEPT ![v] = None]
    /\ UNCHANGED <<downloads, current, objectVars, resume, store, outputVars, taskVars,
                   pauseVars>>

(* POST /downloads/clear: a completed output file is kept. *)
ClearCompleted ==
    /\ downloads # None
    /\ status[downloads] \in {"completed", "error"}
    /\ resume' = None
    /\ downloads' = None
    /\ current' = None /\ event' = None
    /\ IF status[downloads] = "error" /\ hasOutput[downloads]
       THEN UnlinkOutput
       ELSE UNCHANGED outputVars
    /\ UNCHANGED <<objectVars, store, taskVars, pauseVars, serveVars>>

-----------------------------------------------------------------------------
(* The download worker *)

BrokeOutOfLoop(w, ahead) == ahead = {} \/ w \in cancelEvent
AllFetched(w, ahead) == ahead = {}

(* From the loop head with the chunks in ahead left to do: leave when the  *)
(* cancel event is set, fetch the next chunk, or, after the last one, go   *)
(* on to the merge, which truncates the output file.                       *)
LoopHead(w, ahead) ==
    LET s == stateOf[w] IN
    \/ /\ ahead # {} /\ w \in cancelEvent
       /\ EndTask(w)
       /\ UNCHANGED <<status, resume, outputVars>>
    \/ /\ ahead # {} /\ w \notin cancelEvent
       /\ pc' = [pc EXCEPT ![w] = "fetching"]
       /\ todo' = [todo EXCEPT ![w] = ahead]
       /\ UNCHANGED <<status, resume, outputVars, stateOf, sinceFlush, cancelEvent,
                      cancelled>>
    \/ /\ AllFetched(w, ahead)
       /\ SetAndSave(s, "finalizing")
       /\ pc' = [pc EXCEPT ![w] = "merging"]
       /\ todo' = [todo EXCEPT ![w] = Chunks]
       /\ output' = {}
       /\ writers' = writers \cup {w}
       /\ UNCHANGED <<stateOf, sinceFlush, cancelEvent, cancelled>>

(* The task's first step takes its snapshot of the missing chunks. *)
WorkerBegin(w) ==
    /\ Runnable(w) /\ pc[w] = "created"
    /\ LoopHead(w, missing[stateOf[w]])
    /\ UNCHANGED <<trackerVars, missing, completed, hasOutput, store, pauseVars,
                   serveVars>>

WorkerNextChunk(w) ==
    /\ Runnable(w) /\ pc[w] = "looping"
    /\ LoopHead(w, todo[w])
    /\ UNCHANGED <<trackerVars, missing, completed, hasOutput, store, pauseVars,
                   serveVars>>

IsNext(w, i) == i \in todo[w] /\ \A j \in todo[w] : i <= j

FlushOneLate(n) == n > FlushInterval
FlushDue(n) == n >= FlushInterval

(* load_chunk_fn returned the chunk: keep it, mark it, perhaps save. *)
ChunkFetched(w) ==
    LET s == stateOf[w] IN
    /\ Runnable(w) /\ pc[w] = "fetching"
    /\ \E i \in Chunks :
        /\ IsNext(w, i)
        /\ store' = store \cup {i}
        /\ MarkCompleted(s, i)
        /\ todo' = [todo EXCEPT ![w] = @ \ {i}]
    /\ pc' = [pc EXCEPT ![w] = "looping"]
    /\ \/ /\ FlushDue(sinceFlush[w] + 1)
          /\ sinceFlush' = [sinceFlush EXCEPT ![w] = 0]
          /\ resume' = [status |-> status[s], missing |-> missing'[s],
                        completed |-> completed'[s]]
       \/ /\ ~FlushDue(sinceFlush[w] + 1)
          /\ sinceFlush' = [sinceFlush EXCEPT ![w] = @ + 1]
          /\ UNCHANGED resume
    /\ UNCHANGED <<trackerVars, status, hasOutput, outputVars, stateOf, cancelEvent,
                   cancelled, pauseVars, serveVars>>

(* No peer has the chunk: the progress is saved before the status is set. *)
ChunkFailed(w) ==
    LET s == stateOf[w] IN
    /\ Runnable(w) /\ pc[w] = "fetching"
    /\ resume' = Record(s)
    /\ status' = [status EXCEPT ![s] = "error"]
    /\ EndTask(w)
    /\ UNCHANGED <<trackerVars, missing, completed, hasOutput, store, outputVars,
                   pauseVars, serveVars>>

(* The merge writes its next chunk, read from the local store only. *)
MergeWrite(w) ==
    /\ Runnable(w) /\ pc[w] = "merging"
    /\ \E i \in store :
        /\ IsNext(w, i)
        /\ todo' = [todo EXCEPT ![w] = @ \ {i}]
        /\ output' = IF w \in writers THEN output \cup {i} ELSE output
    /\ UNCHANGED <<trackerVars, objectVars, resume, store, writers, pc, stateOf,
                   sinceFlush, cancelEvent, cancelled, pauseVars, serveVars>>

(* All chunks written: the hash of what this task wrote is right. *)
MergeCompleted(w) ==
    LET s == stateOf[w] IN
    /\ Runnable(w) /\ pc[w] = "merging"
    /\ todo[w] = {}
    /\ SetAndSave(s, "completed")
    /\ hasOutput' = [hasOutput EXCEPT ![s] = TRUE]
    /\ writers' = writers \ {w}
    /\ EndTask(w)
    /\ UNCHANGED <<trackerVars, missing, completed, store, output, pauseVars, serveVars>>

(* A chunk was evicted, the password is wrong, or the disk is full. *)
MergeFailed(w) ==
    LET s == stateOf[w] IN
    /\ Runnable(w) /\ pc[w] = "merging"
    /\ SetAndSave(s, "error")
    /\ UnlinkOutput
    /\ EndTask(w)
    /\ UNCHANGED <<trackerVars, missing, completed, hasOutput, store, pauseVars,
                   serveVars>>

(* The CancelledError of task.cancel() arrives at the await the task is at. *)
WorkerCancelled(w) ==
    LET s == stateOf[w] IN
    /\ Active(w) /\ w \in cancelled
    /\ SetAndSave(s, "paused")
    /\ writers' = writers \ {w}
    /\ EndTask(w)
    /\ UNCHANGED <<trackerVars, missing, completed, hasOutput, store, output,
                   pauseVars, serveVars>>

-----------------------------------------------------------------------------
(* Environment *)

(* The storage monitor deletes least recently used chunks. *)
Evict ==
    /\ \E i \in store : store' = store \ {i}
    /\ UNCHANGED <<trackerVars, objectVars, resume, outputVars, taskVars, pauseVars,
                   serveVars>>

(* The process dies and restarts: every .resume file becomes a paused      *)
(* download, whatever status it recorded.                                  *)
Restart ==
    /\ current' = None /\ event' = None
    /\ pc' = [w \in Workers |-> "done"]
    /\ todo' = [w \in Workers |-> {}]
    /\ stateOf' = [w \in Workers |-> None]
    /\ sinceFlush' = [w \in Workers |-> 0]
    /\ cancelEvent' = {}
    /\ cancelled' = {}
    /\ writers' = {}
    /\ pausePc' = [p \in Pausers |-> "idle"]
    /\ pauseState' = [p \in Pausers |-> None]
    /\ pauseTask' = [p \in Pausers |-> None]
    /\ servePc' = [v \in Servers |-> "idle"]
    /\ serveState' = [v \in Servers |-> None]
    /\ \/ /\ resume = None
          /\ downloads' = None
          /\ UNCHANGED objectVars
       \/ \E s \in States :
            /\ resume # None
            /\ downloads' = s
            /\ status' = [status EXCEPT ![s] = "paused"]
            /\ AdoptRecord(s)
    /\ UNCHANGED <<resume, store, output>>

-----------------------------------------------------------------------------
WorkerStep(w) ==
    \/ WorkerBegin(w) \/ WorkerNextChunk(w)
    \/ ChunkFetched(w) \/ ChunkFailed(w)
    \/ MergeWrite(w) \/ MergeCompleted(w) \/ MergeFailed(w)
    \/ WorkerCancelled(w)

PauseStep(p) == PauseTimeout(p) \/ PauseReturn(p)

CleanupStep(v) ==
    \/ CleanupBegin(v) \/ CleanupResume(v) \/ CleanupUnlink(v)
    \/ CleanupPop(v) \/ CleanupPopTask(v) \/ CleanupPopEvent(v)

Request ==
    \/ \E w \in Workers, s \in States :
        StartUnfinished(w, s) \/ StartFresh(w, s) \/ Resume(w, s)
    \/ \E p \in Pausers : Pause(p)
    \/ \E v \in Servers : ServeFile(v)
    \/ ClearCompleted

Next ==
    \/ Request
    \/ \E w \in Workers : WorkerStep(w)
    \/ \E p \in Pausers : PauseStep(p)
    \/ \E v \in Servers : CleanupStep(v)
    \/ Evict
    \/ Restart

Spec == Init /\ [][Next]_vars

(* The event loop runs every task that is ready, every pause request whose *)
(* wait is over, and every fetch ends, with the chunk or without it (each  *)
(* HTTP call has a timeout).  No request, eviction or crash has to happen. *)
Fairness ==
    /\ \A w \in Workers : WF_vars(WorkerStep(w))
    /\ \A p \in Pausers : WF_vars(PauseReturn(p))
    /\ \A v \in Servers : WF_vars(CleanupStep(v))

FairSpec == Spec /\ Fairness
-----------------------------------------------------------------------------
(* Properties *)

Busy == {"downloading", "finalizing"}

WorkedOn(s) ==
    \/ \E w \in Workers : Active(w) /\ stateOf[w] = s
    \/ \E p \in Pausers : Waiting(p) /\ pauseState[p] = s

(* The two chunk lists of a download, in memory and on disk, always split  *)
(* the chunks of the manifest between them, however many tasks, pauses and *)
(* restarts have edited them: no chunk is lost or counted twice.           *)
LedgerPartition ==
    /\ \A s \in States : completed[s] = Chunks \ missing[s]
    /\ resume # None => resume.completed = Chunks \ resume.missing

(* A task merges only when its download misses no chunk, although another  *)
(* task or a request may share the state object with it.                   *)
MergeHasEveryChunk ==
    \A w \in Workers : pc[w] = "merging" => missing[stateOf[w]] = {}

(* A download shown or recorded as finalizing or completed misses nothing. *)
FinishedMissesNothing ==
    /\ \A s \in States : status[s] \in {"finalizing", "completed"} => missing[s] = {}
    /\ resume # None =>
        (resume.status \in {"finalizing", "completed"} => resume.missing = {})

(* A download shown as in progress has a task at work on it or a pause     *)
(* request about to change its status: it cannot be stuck, which matters   *)
(* because start, and for "downloading" also resume, refuse to touch it.   *)
BusyIsWorkedOn ==
    downloads # None => (status[downloads] \in Busy => WorkedOn(downloads))

(* Under fair scheduling a download in progress comes to rest: completed,  *)
(* failed, paused or removed.                                              *)
DownloadSettles ==
    \A s \in States :
        (downloads = s /\ status[s] \in Busy) ~> ~(downloads = s /\ status[s] \in Busy)

(* "On pause, the task is cancelled": a paused download no pause request   *)
(* is still working on has no running task.                                *)
PausedMeansStopped ==
    downloads # None =>
        (status[downloads] = "paused" =>
            \A w \in Workers : Active(w) => stateOf[w] # downloads)

(* A completed download is shown as completed until it is cleared: within  *)
(* one run of the process no request turns it into anything else.          *)
CompletedUntilCleared ==
    [][(downloads # None /\ status[downloads] = "completed" /\ ~Restart)
       => (downloads' = None \/ status'[downloads] = "completed")]_vars

(* The .resume file kept for a completed download lets the next run of the *)
(* process show it as completed.                                           *)
CompletedSurvivesRestart ==
    [][(Restart /\ downloads # None /\ status[downloads] = "completed")
       => (downloads' # None /\ status'[downloads'] = "completed")]_vars

(* The file /file serves for a completed download holds every chunk.       *)
CompletedFileIsWhole ==
    downloads # None =>
        (status[downloads] = "completed" /\ hasOutput[downloads] /\ output # None
            => output = Chunks)

(* The promise of resumable downloads holds whatever requests, tasks,      *)
(* pauses, cleanups and crashes do to each other: nobody who waits for a   *)
(* download sees it miss a chunk again that it had, or begin from scratch  *)
(* with chunks to continue from.                                           *)
Promise == INSTANCE ResumableDownload WITH
    left <- IF downloads = None THEN None ELSE missing[downloads],
    shown <- IF downloads = None THEN None ELSE status[downloads],
    record <- resume

KeepsProgress == Promise!Spec

-----------------------------------------------------------------------------
(* The inductive invariant of DownloadManagerProofs: what a task knows of  *)
(* its state object, and that one without a cancel event is at work.       *)

TodoCoversMissing ==
    \A w \in Workers :
        pc[w] \in {"looping", "fetching"} => missing[stateOf[w]] \subseteq todo[w]

MergeInv == MergeHasEveryChunk /\ FinishedMissesNothing /\ TodoCoversMissing

(* A task that does not stop at its next look at its cancel event: with    *)
(* nothing left to fetch it does not look.                                 *)
GoesOn(w) == Active(w) /\ (w \notin cancelEvent \/ pc[w] = "merging")

BusyGoesOn ==
    downloads # None /\ status[downloads] \in Busy =>
        \/ \E w \in Workers : GoesOn(w) /\ stateOf[w] = downloads
        \/ \E p \in Pausers : Waiting(p) /\ pauseState[p] = downloads

EventsAreRead == \A w \in cancelEvent : Active(w)

BusyInv == BusyGoesOn /\ EventsAreRead
==============================================================================
