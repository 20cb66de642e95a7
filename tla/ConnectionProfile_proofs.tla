----------------------- MODULE ConnectionProfile_proofs -----------------------
(***************************************************************************)
(* Proofs about ConnectionProfile for every number of jobs, schema         *)
(* versions, worker slots and crashes.  The inductive invariant IInv keeps *)
(* the job row of each task in step with the task (JobInv), says that a    *)
(* bundle is stored before anything is marked (BundleInv), and names the   *)
(* job that will move a connection in progress on (LiveJob).  The second   *)
(* part of the module is about EngineSchema, what the task reads.          *)
(***************************************************************************)
EXTENDS ConnectionProfile, EngineSchema, FiniteSetTheorems, TLAPS

\* The job row and the progress of the request and the task agree.
JobInv ==
  \A j \in Jobs :
    /\ handler[j] \in {"idle", "loading", "reloading"} => job[j] = "unused"
    /\ handler[j] = "committed" => job[j] \in {"queued", "deleted"}
    /\ j \in queue => job[j] \in {"queued", "deleted"} /\ task[j].at = "idle"
    /\ task[j].at # "idle" => handler[j] = "sent" /\ j \notin queue
    /\ task[j].at \in {"started", "profiled", "inserting", "updating",
                       "persisted"} => job[j] \in {"running", "deleted"}
    /\ job[j] = "deleted" => status = "deleted"
    /\ status = "absent" => handler[j] = "idle"

\* What a task or the diff is about to store was read, and what a task marks as
\* ready was stored.
BundleInv ==
  /\ \A j \in Jobs :
       /\ task[j].at \in {"profiled", "inserting", "updating"}
            => task[j].seen # 0
       /\ task[j].at = "persisted" /\ Exists => bundle # 0
  /\ diff.at = "resampled" => diff.seen # 0
  /\ ReadyHasBundle

\* A task whose session already holds the status it assigns writes nothing, so
\* "some job is unfinished" is not inductive: a connection in progress has one
\* that is still to load it, that loaded it in progress, or that died.
LiveJob ==
  status \in InProgress =>
    \E j \in Jobs :
      /\ job[j] \in {"queued", "running"}
      /\ \/ task[j].at \in {"idle", "started", "dead"}
         \/ task[j].read \in InProgress

IInv == TypeOK /\ JobInv /\ BundleInv /\ ErrorHasJob /\ LiveJob

-----------------------------------------------------------------------------
(* The inductive invariant *)

\* Every reachable state starts from IInv.
LEMMA InitIInv == Init => IInv
  BY ProfileAssumption
     DEF Init, IInv, TypeOK, JobInv, BundleInv, ErrorHasJob, LiveJob,
         ReadyHasBundle, Exists, Statuses, Versions, InProgress

\* JobInv, ErrorHasJob and LiveJob read five of the variables.
LEMMA JobFrame ==
  ASSUME IInv, UNCHANGED <<status, job, handler, queue, task>>
  PROVE  JobInv' /\ ErrorHasJob' /\ LiveJob'
  BY DEF IInv, JobInv, ErrorHasJob, LiveJob

\* A task that ends leaves rows of the right kind.
LEMMA MarkTypes ==
  ASSUME NEW j \in Jobs, IInv, NEW new \in {"ready", "error"},
         NEW jobState \in {"succeeded", "failed"},
         NEW stage \in {"succeeded", "done"},
         Mark(j, new, jobState, stage)
  PROVE  TypeOK'
<1>1. status' \in Statuses
  BY DEF Mark, IInv, TypeOK, Statuses
<1>2. job' \in [Jobs -> {"unused", "queued", "running", "succeeded", "failed",
                         "deleted"}]
  BY DEF Mark, IInv, TypeOK
<1>3. task' \in [Jobs -> [at : {"idle", "started", "profiled", "inserting",
                                "updating", "persisted", "succeeded",
                                "failing", "done", "dead"},
                          seen : Versions, read : Statuses]]
  BY DEF Mark, IInv, TypeOK, Statuses
<1>4. QED
  BY <1>1, <1>2, <1>3 DEF Mark, IInv, TypeOK

-----------------------------------------------------------------------------
(* Requests *)

\* A new connection comes with a job that no task has loaded.
LEMMA CreateConnectionIInv ==
  ASSUME NEW j \in Jobs, IInv, CreateConnection(j)
  PROVE  IInv'
<1>1. TypeOK'
  BY ProfileAssumption
     DEF CreateConnection, Fresh, IInv, TypeOK, Statuses, Versions, Exists
<1>2. JobInv'
  BY DEF CreateConnection, Fresh, IInv, JobInv, TypeOK, Exists
<1>3. BundleInv'
  BY DEF CreateConnection, Fresh, IInv, BundleInv, TypeOK, JobInv,
         ReadyHasBundle, Exists
<1>4. ErrorHasJob'
  BY DEF CreateConnection, Fresh, IInv, ErrorHasJob, TypeOK, JobInv, Exists
<1>5. LiveJob'
  BY DEF CreateConnection, Fresh, IInv, LiveJob, TypeOK, JobInv, InProgress,
         Exists
<1>6. QED
  BY <1>1, <1>2, <1>3, <1>4, <1>5 DEF IInv

\* Loading the row changes nothing that is stored.
LEMMA RefreshLoadIInv ==
  ASSUME NEW j \in Jobs, IInv, RefreshLoad(j)
  PROVE  IInv'
<1>1. TypeOK'
  BY ProfileAssumption
     DEF RefreshLoad, Fresh, IInv, TypeOK, Statuses, Versions, Exists
<1>2. JobInv'
  BY DEF RefreshLoad, Fresh, IInv, JobInv, TypeOK, Exists
<1>3. BundleInv'
  BY DEF RefreshLoad, Fresh, IInv, BundleInv, TypeOK, JobInv,
         ReadyHasBundle, Exists
<1>4. ErrorHasJob'
  BY DEF RefreshLoad, Fresh, IInv, ErrorHasJob, TypeOK, JobInv, Exists
<1>5. LiveJob'
  BY DEF RefreshLoad, Fresh, IInv, LiveJob, TypeOK, JobInv, InProgress,
         Exists
<1>6. QED
  BY <1>1, <1>2, <1>3, <1>4, <1>5 DEF IInv

\* A refresh brings the job that keeps the connection in progress.
LEMMA RefreshConnectionIInv ==
  ASSUME NEW j \in Jobs, IInv, RefreshConnection(j)
  PROVE  IInv'
<1>1. TypeOK'
  BY ProfileAssumption
     DEF RefreshConnection, IInv, TypeOK, Statuses, Versions, Exists
<1>2. JobInv'
  BY DEF RefreshConnection, IInv, JobInv, TypeOK, Exists
<1>3. BundleInv'
  BY DEF RefreshConnection, IInv, BundleInv, TypeOK, JobInv, ReadyHasBundle,
         Exists
<1>4. ErrorHasJob'
  BY DEF RefreshConnection, IInv, ErrorHasJob, TypeOK, JobInv, Exists
<1>5. LiveJob'
  BY DEF RefreshConnection, IInv, LiveJob, TypeOK, JobInv, InProgress,
         Exists
<1>6. QED
  BY <1>1, <1>2, <1>3, <1>4, <1>5 DEF IInv

\* Sending the message starts no task yet.
LEMMA EnqueueIInv ==
  ASSUME NEW j \in Jobs, IInv, Enqueue(j)
  PROVE  IInv'
<1>1. TypeOK'
  BY ProfileAssumption DEF Enqueue, IInv, TypeOK, Statuses, Versions, Exists
<1>2. JobInv'
  BY DEF Enqueue, IInv, JobInv, TypeOK, Exists
<1>3. BundleInv'
  BY DEF Enqueue, IInv, BundleInv, TypeOK, JobInv, ReadyHasBundle, Exists
<1>4. ErrorHasJob'
  BY DEF Enqueue, IInv, ErrorHasJob, TypeOK, JobInv, Exists
<1>5. LiveJob'
  BY DEF Enqueue, IInv, LiveJob, TypeOK, JobInv, InProgress, Exists
<1>6. QED
  BY <1>1, <1>2, <1>3, <1>4, <1>5 DEF IInv

\* The job of the slash command is only a row.
LEMMA SlashRefreshIInv ==
  ASSUME NEW j \in Jobs, IInv, SlashRefresh(j)
  PROVE  IInv'
<1>1. TypeOK'
  BY ProfileAssumption
     DEF SlashRefresh, Fresh, IInv, TypeOK, Statuses, Versions, Exists
<1>2. JobInv'
  BY DEF SlashRefresh, Fresh, IInv, JobInv, TypeOK, Exists
<1>3. BundleInv'
  BY DEF SlashRefresh, Fresh, IInv, BundleInv, TypeOK, JobInv,
         ReadyHasBundle, Exists
<1>4. ErrorHasJob'
  BY DEF SlashRefresh, Fresh, IInv, ErrorHasJob, TypeOK, JobInv, Exists
<1>5. LiveJob'
  BY DEF SlashRefresh, Fresh, IInv, LiveJob, TypeOK, JobInv, InProgress,
         Exists
<1>6. QED
  BY <1>1, <1>2, <1>3, <1>4, <1>5 DEF IInv

\* A deleted connection is neither ready, nor in error, nor in progress.
LEMMA DeleteConnectionIInv ==
  ASSUME IInv, DeleteConnection
  PROVE  IInv'
<1>1. TypeOK'
  BY ProfileAssumption
     DEF DeleteConnection, IInv, TypeOK, Statuses, Versions, Exists
<1>2. JobInv'
  BY DEF DeleteConnection, IInv, JobInv, TypeOK, Exists
<1>3. BundleInv'
  BY DEF DeleteConnection, IInv, BundleInv, TypeOK, JobInv, ReadyHasBundle,
         Exists
<1>4. ErrorHasJob'
  BY DEF DeleteConnection, IInv, ErrorHasJob, TypeOK, JobInv, Exists
<1>5. LiveJob'
  BY DEF DeleteConnection, IInv, LiveJob, TypeOK, JobInv, InProgress, Exists
<1>6. QED
  BY <1>1, <1>2, <1>3, <1>4, <1>5 DEF IInv

\* A request that dies leaves its job queued.
LEMMA HandlerCrashIInv ==
  ASSUME NEW j \in Jobs, IInv, HandlerCrash(j)
  PROVE  IInv'
<1>1. TypeOK'
  BY ProfileAssumption
     DEF HandlerCrash, IInv, TypeOK, Statuses, Versions, Exists
<1>2. JobInv'
  BY DEF HandlerCrash, IInv, JobInv, TypeOK, Exists
<1>3. BundleInv'
  BY DEF HandlerCrash, IInv, BundleInv, TypeOK, JobInv, ReadyHasBundle,
         Exists
<1>4. ErrorHasJob'
  BY DEF HandlerCrash, IInv, ErrorHasJob, TypeOK, JobInv, Exists
<1>5. LiveJob'
  BY DEF HandlerCrash, IInv, LiveJob, TypeOK, JobInv, InProgress, Exists
<1>6. QED
  BY <1>1, <1>2, <1>3, <1>4, <1>5 DEF IInv

-----------------------------------------------------------------------------
(* The profile task *)

\* The job a task starts on is queued, or was deleted.
LEMMA StartProfileIInv ==
  ASSUME NEW j \in Jobs, IInv, StartProfile(j)
  PROVE  IInv'
<1>1. TypeOK'
  BY ProfileAssumption
     DEF StartProfile, At, IInv, TypeOK, Statuses, Versions, Exists
<1>2. JobInv'
  BY DEF StartProfile, At, IInv, JobInv, TypeOK, Exists
<1>3. BundleInv'
  BY DEF StartProfile, At, IInv, BundleInv, TypeOK, JobInv, ReadyHasBundle,
         Exists
<1>4. ErrorHasJob'
  BY DEF StartProfile, At, IInv, ErrorHasJob, TypeOK, JobInv, Exists
<1>5. LiveJob'
  BY DEF StartProfile, At, IInv, LiveJob, TypeOK, JobInv, InProgress, Exists
<1>6. QED
  BY <1>1, <1>2, <1>3, <1>4, <1>5 DEF IInv

\* The status a task loads is the one the connection has.
LEMMA IntrospectIInv ==
  ASSUME NEW j \in Jobs, IInv, Introspect(j)
  PROVE  IInv'
<1>1. TypeOK'
  BY ProfileAssumption
     DEF Introspect, IInv, TypeOK, Statuses, Versions, Exists
<1>2. JobInv'
  BY DEF Introspect, IInv, JobInv, TypeOK, Exists
<1>3. BundleInv'
  BY DEF Introspect, IInv, BundleInv, TypeOK, JobInv, ReadyHasBundle, Exists
<1>4. ErrorHasJob'
  BY DEF Introspect, IInv, ErrorHasJob, TypeOK, JobInv, Exists
<1>5. LiveJob'
  BY DEF Introspect, IInv, LiveJob, TypeOK, JobInv, InProgress, Exists
<1>6. QED
  BY <1>1, <1>2, <1>3, <1>4, <1>5 DEF IInv

\* A failing profile stores nothing.
LEMMA ProfileFailsIInv ==
  ASSUME NEW j \in Jobs, IInv, ProfileFails(j)
  PROVE  IInv'
<1>1. TypeOK'
  BY ProfileAssumption
     DEF ProfileFails, At, IInv, TypeOK, Statuses, Versions, Exists
<1>2. JobInv'
  BY DEF ProfileFails, At, IInv, JobInv, TypeOK, Exists
<1>3. BundleInv'
  BY DEF ProfileFails, At, IInv, BundleInv, TypeOK, JobInv, ReadyHasBundle,
         Exists
<1>4. ErrorHasJob'
  BY DEF ProfileFails, At, IInv, ErrorHasJob, TypeOK, JobInv, Exists
<1>5. LiveJob'
  BY DEF ProfileFails, At, IInv, LiveJob, TypeOK, JobInv, InProgress, Exists
<1>6. QED
  BY <1>1, <1>2, <1>3, <1>4, <1>5 DEF IInv

\* Reading the bundle row stores nothing.
LEMMA SelectBundleIInv ==
  ASSUME NEW j \in Jobs, IInv, SelectBundle(j)
  PROVE  IInv'
<1>1. TypeOK'
  BY ProfileAssumption
     DEF SelectBundle, At, IInv, TypeOK, Statuses, Versions, Exists
<1>2. JobInv'
  BY DEF SelectBundle, At, IInv, JobInv, TypeOK, Exists
<1>3. BundleInv'
  BY DEF SelectBundle, At, IInv, BundleInv, TypeOK, JobInv, ReadyHasBundle,
         Exists
<1>4. ErrorHasJob'
  BY DEF SelectBundle, At, IInv, ErrorHasJob, TypeOK, JobInv, Exists
<1>5. LiveJob'
  BY DEF SelectBundle, At, IInv, LiveJob, TypeOK, JobInv, InProgress, Exists
<1>6. QED
  BY <1>1, <1>2, <1>3, <1>4, <1>5 DEF IInv

\* A bundle is stored only over the row that was read.
LEMMA CommitBundleIInv ==
  ASSUME NEW j \in Jobs, IInv, CommitBundle(j)
  PROVE  IInv'
<1>1. TypeOK'
  BY ProfileAssumption
     DEF CommitBundle, At, IInv, TypeOK, Statuses, Versions, Exists
<1>2. JobInv'
  BY DEF CommitBundle, At, IInv, JobInv, TypeOK, Exists
<1>3. BundleInv'
  BY DEF CommitBundle, At, IInv, BundleInv, TypeOK, JobInv, ReadyHasBundle,
         Exists
<1>4. ErrorHasJob'
  BY DEF CommitBundle, At, IInv, ErrorHasJob, TypeOK, JobInv, Exists
<1>5. LiveJob'
  BY DEF CommitBundle, At, IInv, LiveJob, TypeOK, JobInv, InProgress, Exists
<1>6. QED
  BY <1>1, <1>2, <1>3, <1>4, <1>5 DEF IInv

\* Success is marked when the bundle is stored; a job that loaded the connection
\* in progress moves it on, and another job's witness for LiveJob survives.
LEMMA MarkSucceededIInv ==
  ASSUME NEW j \in Jobs, IInv, MarkSucceeded(j)
  PROVE  IInv'
<1>1. TypeOK'
  BY MarkTypes DEF MarkSucceeded
<1>2. JobInv'
  BY DEF MarkSucceeded, Mark, Lost, IInv, JobInv, TypeOK, Exists
<1>3. BundleInv'
  BY DEF MarkSucceeded, Mark, Lost, IInv, BundleInv, TypeOK, JobInv,
         ReadyHasBundle, Exists
<1>4. ErrorHasJob'
  BY DEF MarkSucceeded, Mark, Lost, IInv, ErrorHasJob, TypeOK, JobInv,
         Exists
<1>5. LiveJob'
  BY DEF MarkSucceeded, Mark, Lost, IInv, LiveJob, TypeOK, JobInv,
         InProgress, Exists
<1>6. QED
  BY <1>1, <1>2, <1>3, <1>4, <1>5 DEF IInv

\* The job of a finished task is no longer a witness for LiveJob.
LEMMA RequestIndexIInv ==
  ASSUME NEW j \in Jobs, IInv, RequestIndex(j)
  PROVE  IInv'
<1>1. TypeOK'
  BY ProfileAssumption
     DEF RequestIndex, At, IInv, TypeOK, Statuses, Versions, Exists
<1>2. JobInv'
  BY DEF RequestIndex, At, IInv, JobInv, TypeOK, Exists
<1>3. BundleInv'
  BY DEF RequestIndex, At, IInv, BundleInv, TypeOK, JobInv, ReadyHasBundle,
         Exists
<1>4. ErrorHasJob'
  BY DEF RequestIndex, At, IInv, ErrorHasJob, TypeOK, JobInv, Exists
<1>5. LiveJob'
  BY DEF RequestIndex, At, IInv, LiveJob, TypeOK, JobInv, InProgress, Exists
<1>6. QED
  BY <1>1, <1>2, <1>3, <1>4, <1>5 DEF IInv

\* A failure is marked on the connection together with the job.
LEMMA MarkFailedIInv ==
  ASSUME NEW j \in Jobs, IInv, MarkFailed(j)
  PROVE  IInv'
<1>1. TypeOK'
  BY MarkTypes DEF MarkFailed
<1>2. JobInv'
  BY DEF MarkFailed, Mark, Lost, IInv, JobInv, TypeOK, Exists
<1>3. BundleInv'
  BY DEF MarkFailed, Mark, Lost, IInv, BundleInv, TypeOK, JobInv,
         ReadyHasBundle, Exists
<1>4. ErrorHasJob'
  BY DEF MarkFailed, Mark, Lost, IInv, ErrorHasJob, TypeOK, JobInv, Exists
<1>5. LiveJob'
  BY DEF MarkFailed, Mark, Lost, IInv, LiveJob, TypeOK, JobInv, InProgress,
         Exists
<1>6. QED
  BY <1>1, <1>2, <1>3, <1>4, <1>5 DEF IInv

\* A task that dies leaves its job unfinished.
LEMMA TaskCrashIInv ==
  ASSUME NEW j \in Jobs, IInv, TaskCrash(j)
  PROVE  IInv'
<1>1. TypeOK'
  BY ProfileAssumption
     DEF TaskCrash, At, Active, IInv, TypeOK, Statuses, Versions, Exists
<1>2. JobInv'
  BY DEF TaskCrash, At, Active, IInv, JobInv, TypeOK, Exists
<1>3. BundleInv'
  BY DEF TaskCrash, At, Active, IInv, BundleInv, TypeOK, JobInv,
         ReadyHasBundle, Exists
<1>4. ErrorHasJob'
  BY DEF TaskCrash, At, Active, IInv, ErrorHasJob, TypeOK, JobInv, Exists
<1>5. LiveJob'
  BY DEF TaskCrash, At, Active, IInv, LiveJob, TypeOK, JobInv, InProgress,
         Exists
<1>6. QED
  BY <1>1, <1>2, <1>3, <1>4, <1>5 DEF IInv

-----------------------------------------------------------------------------
(* The daily diff, and the customer *)

\* Listing stores nothing.
LEMMA DiffListIInv ==
  ASSUME IInv, DiffList
  PROVE  IInv'
<1>1. JobInv' /\ ErrorHasJob' /\ LiveJob'
  BY JobFrame DEF DiffList
<1>2. TypeOK'
  BY ProfileAssumption
     DEF DiffList, Diff, IInv, TypeOK, Statuses, Versions, Exists
<1>3. BundleInv'
  BY DEF DiffList, Diff, IInv, BundleInv, TypeOK, JobInv, ReadyHasBundle,
         Exists
<1>4. QED
  BY <1>1, <1>2, <1>3 DEF IInv

\* Introspecting stores nothing.
LEMMA DiffIntrospectIInv ==
  ASSUME IInv, DiffIntrospect
  PROVE  IInv'
<1>1. JobInv' /\ ErrorHasJob' /\ LiveJob'
  BY JobFrame DEF DiffIntrospect
<1>2. TypeOK'
  BY ProfileAssumption
     DEF DiffIntrospect, Diff, IInv, TypeOK, Statuses, Versions, Exists
<1>3. BundleInv'
  BY DEF DiffIntrospect, Diff, IInv, BundleInv, TypeOK, JobInv,
         ReadyHasBundle, Exists
<1>4. QED
  BY <1>1, <1>2, <1>3 DEF IInv

\* Comparing stores nothing.
LEMMA DiffCompareIInv ==
  ASSUME IInv, DiffCompare
  PROVE  IInv'
<1>1. JobInv' /\ ErrorHasJob' /\ LiveJob'
  BY JobFrame DEF DiffCompare
<1>2. TypeOK'
  BY ProfileAssumption
     DEF DiffCompare, Diff, IInv, TypeOK, Statuses, Versions, Exists
<1>3. BundleInv'
  BY DEF DiffCompare, Diff, IInv, BundleInv, TypeOK, JobInv, ReadyHasBundle,
         Exists
<1>4. QED
  BY <1>1, <1>2, <1>3 DEF IInv

\* What is about to be stored was read.
LEMMA DiffResampleIInv ==
  ASSUME IInv, DiffResample
  PROVE  IInv'
<1>1. JobInv' /\ ErrorHasJob' /\ LiveJob'
  BY JobFrame DEF DiffResample
<1>2. TypeOK'
  BY ProfileAssumption
     DEF DiffResample, Diff, IInv, TypeOK, Statuses, Versions, Exists
<1>3. BundleInv'
  BY DEF DiffResample, Diff, IInv, BundleInv, TypeOK, JobInv,
         ReadyHasBundle, Exists
<1>4. QED
  BY <1>1, <1>2, <1>3 DEF IInv

\* The diff replaces a bundle by one that was read.
LEMMA DiffPersistIInv ==
  ASSUME IInv, DiffPersist
  PROVE  IInv'
<1>1. JobInv' /\ ErrorHasJob' /\ LiveJob'
  BY JobFrame DEF DiffPersist
<1>2. TypeOK'
  BY ProfileAssumption
     DEF DiffPersist, Diff, IInv, TypeOK, Statuses, Versions, Exists
<1>3. BundleInv'
  BY DEF DiffPersist, Diff, IInv, BundleInv, TypeOK, JobInv, ReadyHasBundle,
         Exists
<1>4. QED
  BY <1>1, <1>2, <1>3 DEF IInv

\* The customer's own schema is not stored.
LEMMA AlterSchemaIInv ==
  ASSUME IInv, AlterSchema
  PROVE  IInv'
<1>1. JobInv' /\ ErrorHasJob' /\ LiveJob'
  BY JobFrame DEF AlterSchema
<1>2. TypeOK'
  BY ProfileAssumption
     DEF AlterSchema, IInv, TypeOK, Statuses, Versions, Exists
<1>3. BundleInv'
  BY DEF AlterSchema, IInv, BundleInv, TypeOK, JobInv, ReadyHasBundle,
         Exists
<1>4. QED
  BY <1>1, <1>2, <1>3 DEF IInv

-----------------------------------------------------------------------------
(* The theorems *)

\* Every step preserves the inductive invariant.
LEMMA NextIInv == IInv /\ [Next]_vars => IInv'
<1> SUFFICES ASSUME IInv, [Next]_vars PROVE IInv'
  OBVIOUS
<1>1. ASSUME NEW j \in Jobs,
             Request(j) \/ RefreshConnection(j) \/ Enqueue(j) \/ HandlerCrash(j)
      PROVE  IInv'
  BY <1>1, CreateConnectionIInv, RefreshLoadIInv, SlashRefreshIInv,
     RefreshConnectionIInv, EnqueueIInv, HandlerCrashIInv
     DEF Request
<1>2. ASSUME NEW j \in Jobs, TaskStep(j) \/ TaskCrash(j)
      PROVE  IInv'
  BY <1>2, StartProfileIInv, IntrospectIInv, ProfileFailsIInv, SelectBundleIInv,
     CommitBundleIInv, MarkSucceededIInv, RequestIndexIInv, MarkFailedIInv,
     TaskCrashIInv
     DEF TaskStep
<1>3. CASE DeleteConnection \/ DiffList \/ DiffStep \/ AlterSchema
  BY <1>3, DeleteConnectionIInv, DiffListIInv, DiffIntrospectIInv,
     DiffCompareIInv, DiffResampleIInv, DiffPersistIInv, AlterSchemaIInv
     DEF DiffStep
<1>4. CASE UNCHANGED vars
  BY <1>4 DEF vars, IInv, TypeOK, JobInv, BundleInv, ErrorHasJob, LiveJob,
              ReadyHasBundle, Exists
<1>5. QED
  BY <1>1, <1>2, <1>3, <1>4 DEF Next

\* The inductive invariant holds throughout.
THEOREM Invariance == Spec => []IInv
  BY InitIInv, NextIInv, PTL DEF Spec

\* Every row and process keeps to its states, and no message is in the queue
\* before its request has committed and sent it.
THEOREM TypeCorrect == Spec => []TypeOK
<1>1. IInv => TypeOK
  BY DEF IInv
<1>2. QED
  BY <1>1, Invariance, PTL

\* A ready connection has a bundle, for any number of overlapping refreshes,
\* diffs, deletions and crashes.
THEOREM ReadyConnectionsHaveBundles == Spec => []ReadyHasBundle
<1>1. IInv => ReadyHasBundle
  BY DEF IInv, BundleInv
<1>2. QED
  BY <1>1, Invariance, PTL

\* A connection in progress has an unfinished job, although a task that loaded
\* the connection as ready may finish without touching it.
THEOREM ConnectionsInProgressHaveJobs == Spec => []InProgressHasJob
<1>1. IInv => InProgressHasJob
  BY DEF IInv, LiveJob, InProgressHasJob, InProgress
<1>2. QED
  BY <1>1, Invariance, PTL

\* A connection in error has a failed job.
THEOREM ConnectionsInErrorHaveJobs == Spec => []ErrorHasJob
<1>1. IInv => ErrorHasJob
  BY DEF IInv
<1>2. QED
  BY <1>1, Invariance, PTL

\* The status of a connection never claims what its bundle and its jobs do not
\* bear out.
THEOREM StatusIsSound == Spec => []StatusSound
<1>1. IInv => StatusSound
  BY DEF IInv, BundleInv, LiveJob, StatusSound, ReadyHasBundle, InProgressHasJob, InProgress
<1>2. QED
  BY <1>1, Invariance, PTL

-----------------------------------------------------------------------------
(* One worker process *)

\* With one process at most one task or the diff is under way, so what it has read
\* is as new as the bundle until it stores it.
OneInv ==
  workers = 1 =>
    /\ \A i, j \in Jobs : Active(i) /\ Active(j) => i = j
    /\ diff.at # "idle" => \A j \in Jobs : ~Active(j)
    /\ bundle <= schema
    /\ \A j \in Jobs :
         task[j].at \in {"profiled", "inserting", "updating"} =>
           bundle <= task[j].seen /\ task[j].seen <= schema
    /\ diff.at = "resampled" => bundle <= diff.seen /\ diff.seen <= schema

LEMMA InitOneInv == Init => OneInv
BY ProfileAssumption DEF Init, OneInv, Active

\* A process that takes a message, or the sweep that begins, finds the worker free.
LEMMA FreeWorker ==
  ASSUME TypeOK, workers = 1, Busy < workers
  PROVE  diff.at = "idle" /\ \A j \in Jobs : ~Active(j)
<1> DEFINE active == {j \in Jobs : Active(j)}
<1>1. IsFiniteSet(Jobs)
  BY FS_Interval, ProfileAssumption DEF Jobs
<1>2. IsFiniteSet(active) /\ Cardinality(active) \in Nat
  BY <1>1, FS_Subset, FS_CardinalityType
<1>3. Cardinality(active) = 0 /\ diff.at = "idle"
  BY <1>2 DEF Busy
<1>4. active = {}
  BY <1>2, <1>3, FS_EmptySet
<1>5. QED BY <1>3, <1>4

\* Steps of a request store nothing and touch no task.
LEMMA RequestOneInv ==
  ASSUME IInv, OneInv, UNCHANGED <<workers, schema, task, diff>>,
         bundle' \in {0, bundle}
  PROVE  OneInv'
BY ProfileAssumption DEF OneInv, Active, IInv, TypeOK, Versions

LEMMA TaskOneInv ==
  ASSUME IInv, OneInv, NEW j \in Jobs, TaskStep(j) \/ TaskCrash(j)
  PROVE  OneInv'
<1> SUFFICES ASSUME workers = 1 PROVE OneInv'
  BY DEF OneInv, TaskStep, StartProfile, Introspect, ProfileFails, SelectBundle,
         CommitBundle, MarkSucceeded, MarkFailed, Mark, RequestIndex, TaskCrash
<1>1. /\ TypeOK /\ bundle \in Int /\ schema \in 1 .. MaxVersion /\ bundle <= schema
      /\ UNCHANGED <<schema, diff>>
  BY DEF IInv, OneInv, TypeOK, Versions, TaskStep, StartProfile, Introspect,
         ProfileFails, SelectBundle, CommitBundle, MarkSucceeded, MarkFailed, Mark,
         RequestIndex, TaskCrash
<1>2. \A i \in Jobs \ {j} : task'[i] = task[i]
  <2>1. CASE \E new, jobState, stage : Mark(j, new, jobState, stage)
    BY <1>1, <2>1 DEF Mark, TypeOK
  <2>2. CASE Introspect(j)
    BY <1>1, <2>2 DEF Introspect, TypeOK
  <2>3. CASE \E stage : At(j, stage)
    BY <1>1, <2>3 DEF At, TypeOK
  <2>4. QED
    BY <2>1, <2>2, <2>3
    DEF TaskStep, StartProfile, ProfileFails, SelectBundle, CommitBundle,
        MarkSucceeded, MarkFailed, RequestIndex, TaskCrash
<1>3. diff.at = "idle" /\ \A i \in Jobs \ {j} : ~Active(i)
  <2>1. CASE StartProfile(j)
    BY <1>1, <2>1, FreeWorker DEF StartProfile
  <2>2. CASE Active(j)
    BY <2>2 DEF OneInv
  <2>3. QED
    BY <2>1, <2>2 DEF TaskStep, Introspect, ProfileFails, SelectBundle, CommitBundle,
                      MarkSucceeded, MarkFailed, RequestIndex, TaskCrash, Active
<1>4. \A i \in Jobs \ {j} : ~Active(i)' /\ task'[i].at \notin {"profiled", "inserting", "updating"}
  BY <1>2, <1>3 DEF Active
<1>5. /\ bundle' <= schema
      /\ task'[j].at \in {"profiled", "inserting", "updating"} =>
           bundle' <= task'[j].seen /\ task'[j].seen <= schema
  <2>1. CASE Introspect(j)
    BY <2>1, <1>1 DEF Introspect, TypeOK
  <2>2. CASE SelectBundle(j)
    BY <2>2, <1>1 DEF SelectBundle, At, TypeOK, OneInv
  <2>3. CASE CommitBundle(j)
    <3>1. task[j].seen <= schema
      BY <2>3 DEF CommitBundle, OneInv
    <3>2. bundle' \in {bundle, task[j].seen} /\ task'[j].at \in {"dead", "persisted"}
      BY <2>3 DEF CommitBundle, At, TypeOK, IInv
    <3>3. QED BY <3>1, <3>2, <1>1
  <2>4. CASE \/ StartProfile(j) \/ ProfileFails(j) \/ MarkSucceeded(j) \/ MarkFailed(j)
             \/ RequestIndex(j) \/ TaskCrash(j)
    <3>1. bundle' = bundle /\ task'[j].at \notin {"profiled", "inserting", "updating"}
      BY <2>4, <1>1 DEF StartProfile, ProfileFails, MarkSucceeded, MarkFailed, Mark,
                        RequestIndex, TaskCrash, At, TypeOK
    <3>2. QED BY <3>1, <1>1
  <2>5. QED BY <2>1, <2>2, <2>3, <2>4 DEF TaskStep
<1>6. QED BY <1>1, <1>3, <1>4, <1>5 DEF OneInv

LEMMA DiffOneInv ==
  ASSUME IInv, OneInv, DiffList \/ DiffStep
  PROVE  OneInv'
<1> SUFFICES ASSUME workers = 1 PROVE OneInv'
  BY DEF OneInv, DiffList, DiffStep, DiffIntrospect, DiffCompare, DiffResample, DiffPersist
<1>1. /\ TypeOK /\ bundle \in Int /\ schema \in 1 .. MaxVersion /\ bundle <= schema
      /\ UNCHANGED <<schema, task>>
  BY DEF IInv, OneInv, TypeOK, Versions, DiffList, DiffStep, DiffIntrospect, DiffCompare,
         DiffResample, DiffPersist
<1>2. \A j \in Jobs : ~Active(j)
  <2>1. CASE DiffList
    BY <1>1, <2>1, FreeWorker DEF DiffList
  <2>2. CASE diff.at # "idle"
    BY <2>2 DEF OneInv
  <2>3. QED BY <2>1, <2>2 DEF DiffStep, DiffIntrospect, DiffCompare, DiffResample, DiffPersist
<1>3. \A j \in Jobs : ~Active(j)' /\ task'[j].at \notin {"profiled", "inserting", "updating"}
  BY <1>1, <1>2 DEF Active
<1>4. /\ bundle' <= schema
      /\ diff'.at = "resampled" => bundle' <= diff'.seen /\ diff'.seen <= schema
  BY <1>1 DEF OneInv, DiffList, DiffStep, DiffIntrospect, DiffCompare, DiffResample,
              DiffPersist, Diff
<1>5. QED BY <1>1, <1>3, <1>4 DEF OneInv

LEMMA NextOneInv == IInv /\ OneInv /\ [Next]_vars => OneInv'
<1> SUFFICES ASSUME IInv, OneInv, [Next]_vars PROVE OneInv'
  OBVIOUS
<1>1. ASSUME NEW j \in Jobs,
             Request(j) \/ RefreshConnection(j) \/ Enqueue(j) \/ HandlerCrash(j)
      PROVE  OneInv'
  BY <1>1, RequestOneInv
     DEF Request, CreateConnection, RefreshLoad, SlashRefresh, RefreshConnection,
         Enqueue, HandlerCrash
<1>2. CASE DeleteConnection
  BY <1>2, RequestOneInv DEF DeleteConnection
<1>3. CASE AlterSchema
  BY <1>3, ProfileAssumption DEF AlterSchema, OneInv, Active, IInv, TypeOK, Versions
<1>4. CASE UNCHANGED vars
  BY <1>4 DEF vars, OneInv, Active
<1>5. QED
  BY <1>1, <1>2, <1>3, <1>4, TaskOneInv, DiffOneInv DEF Next

\* With one worker process the agent's schema never goes back to an older version,
\* for any number of refreshes, deletions and crashes around the daily diff.
THEOREM BundleNeverGoesBack == Spec => BundleMonotone
<1> DEFINE Forward == workers = 1 /\ status' # "deleted" => bundle' >= bundle
<1>1. IInv /\ OneInv /\ [Next]_vars => [Forward]_vars
  <2> SUFFICES ASSUME IInv, OneInv, Next, workers = 1, status' # "deleted"
               PROVE  bundle' >= bundle
    OBVIOUS
  <2>1. bundle \in Int
    BY DEF IInv, TypeOK, Versions
  <2>2. ASSUME NEW j \in Jobs, CommitBundle(j)
        PROVE  bundle' >= bundle
    BY <2>1, <2>2 DEF CommitBundle, OneInv
  <2>3. CASE DiffPersist
    BY <2>1, <2>3 DEF DiffPersist, OneInv
  <2>4. CASE /\ \A j \in Jobs : ~CommitBundle(j)
             /\ ~DiffPersist
    <3>1. bundle' = bundle
      BY <2>4 DEF Next, Request, CreateConnection, RefreshLoad, SlashRefresh,
         RefreshConnection, Enqueue, HandlerCrash, TaskStep, StartProfile, Introspect,
         ProfileFails, SelectBundle, MarkSucceeded, MarkFailed, Mark, RequestIndex,
         TaskCrash, DeleteConnection, DiffList, DiffStep, DiffIntrospect, DiffCompare,
         DiffResample, AlterSchema
    <3>2. QED BY <2>1, <3>1
  <2>5. QED BY <2>2, <2>3, <2>4
<1>2. QED
  BY <1>1, InitIInv, NextIInv, InitOneInv, NextOneInv, PTL DEF Spec, BundleMonotone

-----------------------------------------------------------------------------
(***************************************************************************)
(* The task's read of the customer's database, which ConnectionProfile     *)
(* takes in one step (Introspect), is EngineSchema, and the rest of this   *)
(* module is about it, for every set of databases, every cap and any       *)
(* number of faults.  The inductive invariant ProfileInv says that every   *)
(* cell of the bundle has its sample or waits for it once, that every      *)
(* element of the bundle is the whole of a table found, and that what a    *)
(* stored sample lists is true of its column.                              *)
(***************************************************************************)

\* SetToSeq lists a finite set, each member once.
LEMMA ListsOnce ==
  ASSUME NEW X, IsFiniteSet(X)
  PROVE  /\ SetToSeq(X) \in Seq(X)
         /\ \A i, j \in DOMAIN SetToSeq(X) : SetToSeq(X)[i] = SetToSeq(X)[j] => i = j
         /\ \A x \in X : \E i \in DOMAIN SetToSeq(X) : SetToSeq(X)[i] = x
<1> DEFINE n == Cardinality(X)
           f == SetToSeq(X)
<1>1. n \in Nat /\ ExistsBijection(1 .. n, X)
  BY FS_CardinalityType, Zenon
<1>2. PICK g \in [1 .. n -> X] : IsInjective(g)
  <2>1. PICK g : g \in Bijection(1 .. n, X)
    BY <1>1, Zenon DEF ExistsBijection
  <2>2. g \in [1 .. n -> X] /\ IsInjective(g)
    BY <2>1 DEF Bijection, Injection, IsInjective
  <2> QED
    BY <2>2, Zenon
<1>3. f \in [1 .. n -> X] /\ IsInjective(f)
  BY <1>2, Zenon DEF SetToSeq
<1>4. f \in Surjection(1 .. n, X)
  <2>1. f \in Injection(1 .. n, X)
    BY <1>3 DEF Injection, IsInjective
  <2>2. Cardinality(1 .. n) = Cardinality(X)
    <3>1. Cardinality(1 .. n) = IF 1 > n THEN 0 ELSE n - 1 + 1
      <4>1. 1 \in Int /\ n \in Int
        BY <1>1
      <4> QED
        BY <4>1, FS_Interval, Zenon
    <3> QED
      BY <1>1, <3>1
  <2> QED
    BY <2>1, <2>2, FS_Injection, Zenon
<1>5. f \in Seq(X)
  BY <1>1, <1>3
<1>6. \A x \in X : \E i \in DOMAIN f : f[i] = x
  BY <1>3, <1>4 DEF Surjection
<1> QED
  BY <1>3, <1>5, <1>6, Zenon DEF IsInjective

\* Tuples that name a value and tuples that name a position are apart.
LEMMA PathsDiffer ==
  \A f, g, p, q : /\ <<f>> = <<g>> => f = g
                  /\ <<"@", p>> = <<"@", q>> => p = q
                  /\ <<f>> # <<"@", p>>
OBVIOUS

\* A column of a table found is known by its name.
LEMMA NamesApart ==
  ASSUME NEW w \in Worlds, NEW t \in w.tables,
         NEW c \in ColumnsFound(w, t), NEW d \in ColumnsFound(w, t), c.name = d.name
  PROVE  c = d
<1>1. \A x, y \in ToSet(t.cols) : x.name = y.name => x = y
  BY WorldsAssumption, Zenon
<1>2. CASE w.dialect = "mongodb"
  <2>1. c \in InferColumns(t) /\ d \in InferColumns(t)
    BY <1>2, Zenon DEF ColumnsFound
  <2> DEFINE docs == FirstDocs(t)
             Inferred(k) == [name |-> <<k>>, type |-> TypeIn(docs, k), pk |-> k = "_id"]
  <2>2. CASE UNION {DOMAIN doc : doc \in ToSet(docs)} = {}
    BY <2>1, <2>2, Zenon DEF InferColumns
  <2>3. CASE UNION {DOMAIN doc : doc \in ToSet(docs)} # {}
    <3>1. (\E k : c = Inferred(k)) /\ (\E k : d = Inferred(k))
      BY <2>1, <2>3, Zenon DEF InferColumns
    <3>2. PICK k, l : c = Inferred(k) /\ d = Inferred(l)
      BY <3>1, Zenon
    <3>3. c.name = <<k>> /\ d.name = <<l>>
      BY <3>2, Zenon
    <3>4. k = l
      BY <3>3, PathsDiffer, Zenon
    <3> QED
      BY <3>2, <3>4, Zenon
  <2> QED
    BY <2>2, <2>3, Zenon
<1>3. CASE w.dialect = "elasticsearch"
  <2>1. c \in FlattenProperties(t) /\ d \in FlattenProperties(t)
    BY <1>3 DEF ColumnsFound
  <2> DEFINE Node(p) ==
               [name |-> p, pk |-> FALSE,
                type |-> IF \E q \in DOMAIN t.mapping : IsStrictPrefix(p, q)
                         THEN "object" ELSE t.mapping[p]]
  <2>2. (\E p : c = Node(p)) /\ (\E p : d = Node(p))
    BY <2>1, Zenon DEF FlattenProperties
  <2>3. PICK p, q : c = Node(p) /\ d = Node(q)
    BY <2>2, Zenon
  <2>4. c.name = p /\ d.name = q
    BY <2>3, Zenon
  <2> QED
    BY <2>3, <2>4, Zenon
<1>4. CASE w.dialect = "graphql"
  <2>1. c \in GraphqlColumns(w, t) /\ d \in GraphqlColumns(w, t)
    BY <1>4 DEF ColumnsFound
  <2> DEFINE inner == Unwrap(t.type, RootWrappers)
             Field(f) ==
               [name |-> <<f>>, pk |-> FALSE,
                type |-> LET n == Unwrap(w.types[inner][f], FieldWrappers)
                         IN IF n = "none" THEN "Unknown" ELSE n]
  <2>2. (\E f : c = Field(f)) /\ (\E f : d = Field(f))
    BY <2>1, Zenon DEF GraphqlColumns
  <2>3. PICK f, g : c = Field(f) /\ d = Field(g)
    BY <2>2, Zenon
  <2>4. c.name = <<f>> /\ d.name = <<g>>
    BY <2>3, Zenon
  <2>5. f = g
    BY <2>4, PathsDiffer, Zenon
  <2> QED
    BY <2>3, <2>5, Zenon
<1>5. CASE w.dialect = "rest_api"
  <2>1. c \in RestColumns(t) /\ d \in RestColumns(t)
    BY <1>5 DEF ColumnsFound
  <2> DEFINE Field(f) == [name |-> <<f>>, type |-> t.fields[f], pk |-> FALSE]
             Param(p) == [name |-> <<"@", p>>, type |-> "param", pk |-> FALSE]
  <2>2. \A x \in RestColumns(t) : (\E f : x = Field(f)) \/ (\E p : x = Param(p))
    BY Zenon DEF RestColumns
  <2>3. \A f, p : Field(f).name = <<f>> /\ Param(p).name = <<"@", p>>
    BY Zenon
  <2> HIDE DEF Field, Param
  <2>5. CASE \E f : c = Field(f)
    <3>1. PICK f : c = Field(f)
      BY <2>5, Zenon
    <3>2. c.name = <<f>>
      BY <2>3, <3>1, Zenon
    <3>3. ASSUME NEW p, d = Param(p) PROVE FALSE
      <4>1. <<f>> = <<"@", p>>
        BY <2>3, <3>2, <3>3, Zenon
      <4> QED
        BY <4>1, PathsDiffer, Zenon
    <3>4. PICK g : d = Field(g)
      BY <2>1, <2>2, <3>3, Zenon
    <3>5. f = g
      <4>1. <<f>> = <<g>>
        BY <2>3, <3>2, <3>4, Zenon
      <4> QED
        BY <4>1, PathsDiffer, Zenon
    <3> QED
      BY <3>1, <3>4, <3>5, Zenon
  <2>6. CASE \E p : c = Param(p)
    <3>1. PICK p : c = Param(p)
      BY <2>6, Zenon
    <3>2. c.name = <<"@", p>>
      BY <2>3, <3>1, Zenon
    <3>3. ASSUME NEW f, d = Field(f) PROVE FALSE
      <4>1. <<f>> = <<"@", p>>
        BY <2>3, <3>2, <3>3, Zenon
      <4> QED
        BY <4>1, PathsDiffer, Zenon
    <3>4. PICK q : d = Param(q)
      BY <2>1, <2>2, <3>3, Zenon
    <3>5. p = q
      <4>1. <<"@", p>> = <<"@", q>>
        BY <2>3, <3>2, <3>4, Zenon
      <4> QED
        BY <4>1, PathsDiffer, Zenon
    <3> QED
      BY <3>1, <3>4, <3>5, Zenon
  <2> QED
    BY <2>1, <2>2, <2>5, <2>6, Zenon
<1>6. CASE w.dialect = "duckdb" \/ w.dialect = "bigquery"
  <2>1. c \in Unkeyed(t) /\ d \in Unkeyed(t)
    BY <1>6 DEF ColumnsFound
  <2> DEFINE AsColumn(x) == [name |-> x.name, type |-> x.type, pk |-> FALSE]
  <2>2. /\ \E x \in ToSet(t.cols) : c = AsColumn(x)
        /\ \E x \in ToSet(t.cols) : d = AsColumn(x)
    BY <2>1, Zenon DEF Unkeyed
  <2>3. PICK x \in ToSet(t.cols) : c = AsColumn(x)
    BY <2>2, Zenon
  <2>4. PICK y \in ToSet(t.cols) : d = AsColumn(y)
    BY <2>2, Zenon
  <2>5. c.name = x.name /\ d.name = y.name
    BY <2>3, <2>4, Zenon
  <2>6. x = y
    BY <1>1, <2>5, Zenon
  <2> QED
    BY <2>3, <2>4, <2>6, Zenon
<1>7. CASE w.dialect \notin {"mongodb", "elasticsearch", "graphql", "rest_api", "duckdb", "bigquery"}
  <2>1. c \in Told(t) /\ d \in Told(t)
    BY <1>7 DEF ColumnsFound
  <2> DEFINE AsColumn(x) == [name |-> x.name, type |-> x.type, pk |-> x.name \in t.pk]
  <2>2. /\ \E x \in ToSet(t.cols) : c = AsColumn(x)
        /\ \E x \in ToSet(t.cols) : d = AsColumn(x)
    BY <2>1, Zenon DEF Told
  <2>3. PICK x \in ToSet(t.cols) : c = AsColumn(x)
    BY <2>2, Zenon
  <2>4. PICK y \in ToSet(t.cols) : d = AsColumn(y)
    BY <2>2, Zenon
  <2>5. c.name = x.name /\ d.name = y.name
    BY <2>3, <2>4, Zenon
  <2>6. x = y
    BY <1>1, <2>5, Zenon
  <2> QED
    BY <2>3, <2>4, <2>6, Zenon
<1> QED
  BY <1>2, <1>3, <1>4, <1>5, <1>6, <1>7

\* A list of distinct values names values the column has, and all of them
\* unless it says that it is truncated; MongoDB's may do without the null.
LEMMA ListsWhole ==
  ASSUME NEW d, NEW c, Null \notin c.values, IsFiniteSet(c.values),
         NEW s \in Distincts(d, c)
  PROVE  /\ s.listed \subseteq c.values \cup {Null}
         /\ s.truncated \/ c.values \subseteq s.listed \/ (d = "mongodb" /\ c.null)
         /\ \A b : /\ [s EXCEPT !.stats = b].listed = s.listed
                   /\ [s EXCEPT !.stats = b].truncated = s.truncated
<1> DEFINE G == Groups(d, c)
           V(A) == IF d = "mongodb" THEN A \ {Null} ELSE A
           List(A, T) ==
             [Empty EXCEPT !.listed = T, !.truncated = Cardinality(V(A)) > DistinctCap]
           Lists(A) == {List(A, T) : T \in Few(DistinctCap, V(A))}
<1>1. PICK A \in Few(DistinctCap + 1, G) : s \in Lists(A)
  <2>1. Distincts(d, c) = UNION {Lists(A) : A \in Few(DistinctCap + 1, G)}
    BY Zenon DEF Distincts
  <2> HIDE DEF Lists, G
  <2> QED
    BY <2>1, Zenon
<1>2. PICK T \in Few(DistinctCap, V(A)) : s = List(A, T)
  BY <1>1, Zenon
<1>3. s.listed = T /\ s.truncated = (Cardinality(V(A)) > DistinctCap)
  BY <1>2, Zenon DEF Empty
<1>4. /\ G \subseteq c.values \cup {Null} /\ c.values \subseteq G
      /\ Null \in G /\ d = "mongodb" => c.null
  BY Zenon DEF Groups
<1>5. IsFiniteSet(G) /\ IsFiniteSet(A) /\ A \subseteq G
  <2>1. IsFiniteSet(c.values \cup {Null})
    BY FS_AddElement, Zenon
  <2>2. IsFiniteSet(G)
    <3> HIDE DEF G
    <3>1. G \in SUBSET (c.values \cup {Null})
      BY <1>4, Zenon
    <3> QED
      BY <2>1, <3>1, FS_Subset, Zenon
  <2>3. A \subseteq G
    BY <1>1, Zenon DEF Few, kSubset
  <2> HIDE DEF G
  <2>4. A \in SUBSET G
    BY <2>3, Zenon
  <2> QED
    BY <2>2, <2>3, <2>4, FS_Subset, Zenon
<1>6. A = G \/ Cardinality(A) = DistinctCap + 1
  BY <1>1, Zenon DEF Few, kSubset
<1>7. T \subseteq V(A) /\ (Cardinality(V(A)) <= DistinctCap => T = V(A))
  BY <1>2, Zenon DEF Few, kSubset
<1>8. Cardinality(V(A)) \in Nat /\ (V(A) = A \/ (d = "mongodb" /\ Null \in A /\ V(A) = A \ {Null}))
  <2>1. V(A) \in SUBSET A
    BY Zenon
  <2>2. IsFiniteSet(V(A))
    BY <1>5, <2>1, FS_Subset, Zenon
  <2>3. Cardinality(V(A)) \in Nat
    BY <2>2, FS_CardinalityType, Zenon
  <2>4. V(A) = A \/ (d = "mongodb" /\ Null \in A /\ V(A) = A \ {Null})
    OBVIOUS
  <2> QED
    BY <2>3, <2>4, Zenon
<1>9. DistinctCap \in Nat
  BY EngineSchemaAssumption, Zenon
<1>10. Cardinality(V(A)) > DistinctCap => s.truncated
  BY <1>3, Zenon
<1>15. \A b : /\ [s EXCEPT !.stats = b].listed = s.listed
             /\ [s EXCEPT !.stats = b].truncated = s.truncated
  <2> HIDE DEF V
  <2> QED
    BY <1>2, Zenon DEF Empty
<1> HIDE DEF V, G
<1>11. s.truncated \/ T = V(A)
  <2>1. Cardinality(V(A)) > DistinctCap \/ Cardinality(V(A)) <= DistinctCap
    BY <1>8, <1>9
  <2> QED
    BY <1>7, <1>10, <2>1, Zenon
<1>12. s.listed \subseteq c.values \cup {Null}
  BY <1>3, <1>4, <1>5, <1>7, <1>8, Zenon
<1>13. ASSUME T = V(A), A = G PROVE c.values \subseteq s.listed
  BY <1>3, <1>4, <1>8, <1>13
<1>14. ASSUME T = V(A), Cardinality(A) = DistinctCap + 1
       PROVE  s.truncated \/ (d = "mongodb" /\ c.null)
  <2>1. CASE V(A) = A
    <3>1. Cardinality(V(A)) > DistinctCap
      BY <1>9, <1>14, <2>1
    <3> QED
      BY <1>10, <3>1, Zenon
  <2>2. CASE d = "mongodb" /\ Null \in A
    BY <1>4, <1>5, <2>2, Zenon
  <2> QED
    BY <1>8, <2>1, <2>2, Zenon
<1> QED
  BY <1>6, <1>11, <1>12, <1>13, <1>14, <1>15, Zenon

\* So does a list of Elasticsearch's terms.
LEMMA TermsWhole ==
  ASSUME NEW d, NEW c, Null \notin c.values, IsFiniteSet(c.values),
         NEW s \in Terms(d, c)
  PROVE  /\ s.listed \subseteq c.values \cup {Null}
         /\ s.truncated \/ c.values \subseteq s.listed
<1> DEFINE G == Groups(d, c)
           List(A) ==
             [Empty EXCEPT !.listed = A \ {Null}, !.truncated = Cardinality(A) >= TermsCap]
<1>1. PICK A \in Few(TermsCap, G) : s = List(A)
  BY Zenon DEF Terms
<1>2. s.listed = A \ {Null} /\ (Cardinality(A) >= TermsCap => s.truncated)
  BY <1>1, Zenon DEF Empty
<1>3. G \subseteq c.values \cup {Null} /\ c.values \subseteq G
  BY Zenon DEF Groups
<1>4. A \subseteq G /\ (A = G \/ Cardinality(A) = TermsCap)
  BY <1>1, Zenon DEF Few, kSubset
<1>5. TermsCap \in Nat
  BY EngineSchemaAssumption, Zenon
<1> HIDE DEF G
<1>6. CASE A = G
  BY <1>2, <1>3, <1>6
<1>7. CASE Cardinality(A) = TermsCap
  <2>1. Cardinality(A) >= TermsCap
    BY <1>5, <1>7
  <2> QED
    BY <1>2, <1>3, <1>4, <2>1, Zenon
<1> QED
  BY <1>4, <1>6, <1>7, Zenon

\* A declared pair is one column of a declared key with the column it refers to.
LEMMA DeclaredPairs ==
  ASSUME NEW t, NEW p \in Declared(t)
  PROVE  \E k \in t.keys : \E i \in DOMAIN k.cols :
           p = [from |-> <<k.cols[i]>>, to |-> k.to, refs |-> <<k.refs[i]>>]
<1>1. PICK k \in t.keys : p \in PairsOf(k)
  BY Zenon DEF Declared
<1> QED
  BY <1>1, Zenon DEF PairsOf

\* Pairs are split already, and what a prompt names as their targets is one of them.
LEMMA SplitPairs ==
  ASSUME NEW t, NEW F \in SUBSET Declared(t)
  PROVE  /\ Split(F) = F
         /\ \A c : \A target \in TargetsOf(F, c) :
              [from |-> <<c>>, to |-> target[1], refs |-> <<target[2]>>] \in F
<1> DEFINE Pair(a, b, r) == [from |-> <<a>>, to |-> b, refs |-> <<r>>]
           Piece(p, i) == [from |-> <<p.from[i]>>, to |-> p.to, refs |-> <<p.refs[i]>>]
<1>1. \A p \in F : \E a, b, r : p = Pair(a, b, r)
  <2>1. ASSUME NEW p \in F PROVE \E a, b, r : p = Pair(a, b, r)
    <3>1. p \in Declared(t)
      BY Zenon
    <3>2. PICK k \in t.keys : \E i \in DOMAIN k.cols : p = Pair(k.cols[i], k.to, k.refs[i])
      BY <3>1, DeclaredPairs, Zenon
    <3> QED
      BY <3>2, Zenon
  <2> QED
    BY <2>1, Zenon
<1>2. \A a : <<a>>[1] = a /\ DOMAIN <<a>> = {1}
  OBVIOUS
<1>3. \A a, b, r : /\ Pair(a, b, r).from = <<a>> /\ Pair(a, b, r).to = b
                   /\ Pair(a, b, r).refs = <<r>>
  BY Zenon
<1> HIDE DEF Pair
<1>4. \A p \in F : /\ DOMAIN p.from = {1}
                   /\ p = Pair(p.from[1], p.to, p.refs[1])
  <2>1. ASSUME NEW p \in F
        PROVE  DOMAIN p.from = {1} /\ p = Pair(p.from[1], p.to, p.refs[1])
    <3>1. PICK a, b, r : p = Pair(a, b, r)
      BY <1>1, Zenon
    <3>2. p.from = <<a>> /\ p.to = b /\ p.refs = <<r>>
      BY <1>3, <3>1, Zenon
    <3>3. p.from[1] = a /\ p.refs[1] = r /\ DOMAIN p.from = {1}
      BY <1>2, <3>2, Zenon
    <3> QED
      BY <3>1, <3>2, <3>3, Zenon
  <2> QED
    BY <2>1, Zenon
<1>5. \A p \in F : Piece(p, 1) = p
  BY <1>4, Zenon DEF Pair
<1>6. Split(F) = F
  <2> DEFINE Pieces(p) == {Piece(p, i) : i \in DOMAIN p.from}
  <2>1. Split(F) = UNION {Pieces(p) : p \in F}
    BY Zenon DEF Split
  <2>2. ASSUME NEW p \in F PROVE Pieces(p) = {p}
    <3>1. DOMAIN p.from = {1} /\ Piece(p, 1) = p
      BY <1>4, <1>5, Zenon
    <3> HIDE DEF Piece
    <3>2. {Piece(p, i) : i \in {1}} = {Piece(p, 1)}
      BY SMT
    <3> QED
      BY <3>1, <3>2, Zenon
  <2> HIDE DEF Pieces
  <2>3. \A p \in F : Pieces(p) = {p}
    BY <2>2, Zenon
  <2>4. {Pieces(p) : p \in F} = {{p} : p \in F}
    BY <2>3, SMT
  <2>5. UNION {{p} : p \in F} = F
    BY SMT
  <2> QED
    BY <2>1, <2>4, <2>5, Zenon
<1>7. ASSUME NEW c, NEW target \in TargetsOf(F, c)
      PROVE  Pair(c, target[1], target[2]) \in F
  <2>1. PICK p \in F : p.from[1] = c /\ target = <<p.to, p.refs[1]>>
    BY <1>7, Zenon DEF TargetsOf
  <2>2. target[1] = p.to /\ target[2] = p.refs[1]
    BY <2>1
  <2> QED
    BY <1>4, <2>1, <2>2, Zenon
<1> QED
  BY <1>6, <1>7, Zenon DEF Pair

\* A pair that is found is still there when the keys are split.
LEMMA SplitKeeps ==
  ASSUME NEW F, NEW a, NEW b, NEW r, [from |-> <<a>>, to |-> b, refs |-> <<r>>] \in F
  PROVE  [from |-> <<a>>, to |-> b, refs |-> <<r>>] \in Split(F)
<1> DEFINE p == [from |-> <<a>>, to |-> b, refs |-> <<r>>]
           Piece(q, i) == [from |-> <<q.from[i]>>, to |-> q.to, refs |-> <<q.refs[i]>>]
<1>1. p.from = <<a>> /\ p.to = b /\ p.refs = <<r>>
  BY Zenon
<1>2. <<a>>[1] = a /\ <<r>>[1] = r /\ 1 \in DOMAIN <<a>>
  OBVIOUS
<1>3. Piece(p, 1) = p /\ 1 \in DOMAIN p.from
  <2>1. p.from[1] = a /\ p.refs[1] = r /\ 1 \in DOMAIN p.from
    BY <1>1, <1>2, Zenon
  <2>q. QED  BY <1>1, <2>1, Zenon
<1>4. p \in F
  OBVIOUS
<1> DEFINE Pieces(q) == {Piece(q, i) : i \in DOMAIN q.from}
<1>6. Split(F) = UNION {Pieces(q) : q \in F}
  BY Zenon DEF Split
<1> HIDE DEF p, Piece
<1>7. Piece(p, 1) \in Pieces(p)
  BY <1>3, Zenon
<1> HIDE DEF Pieces
<1>5. Piece(p, 1) \in Split(F)
  BY <1>4, <1>6, <1>7, Zenon
<1> QED
  BY <1>3, <1>5, Zenon DEF p

\* The owner of a PostgreSQL table finds every key it declares.
LEMMA PostgresFindsAll ==
  ASSUME NEW w \in Worlds, NEW t \in w.tables, w.owner,
         NEW k \in t.keys, NEW i \in DOMAIN k.cols
  PROVE  [from |-> <<k.cols[i]>>, to |-> k.to, refs |-> <<k.refs[i]>>] \in PostgresKeys(w, t)
<1> DEFINE Used(name) == UNION {UsedAs(u, name) : u \in Beside(w, t)}
           Referred(name) == UNION {ReferredAs(u, name) : u \in w.tables}
           Pair(f, q) == [from |-> <<f>>, to |-> q[1], refs |-> <<q[2]>>]
           Pairs(name) == {Pair(f, q) : f \in Used(name), q \in Referred(name)}
           p == <<k.to, k.refs[i]>>
<1>1. i \in DOMAIN k.refs
  <2>1. k.cols \in Seq(Seq(STRING)) /\ k.refs \in Seq(Seq(STRING)) /\ Len(k.cols) = Len(k.refs)
    BY WorldsAssumption, Zenon
  <2> QED
    BY <2>1
<1>2. k.cols[i] \in Used(k.name)
  <2>1. k \in Named(k.name, Numbered(t)) /\ t \in Beside(w, t)
    BY DEF Named, Numbered, Beside
  <2>2. k.cols[i] \in ToSet(k.cols)
    BY Zenon DEF ToSet
  <2>3. k.cols[i] \in UsedAs(t, k.name)
    BY <2>1, <2>2, Zenon DEF UsedAs
  <2> QED
    BY <2>1, <2>3, Zenon
<1>3. p \in Referred(k.name)
  <2>1. k \in Named(k.name, t.keys)
    BY DEF Named
  <2>2. p \in {k.to} \X ToSet(k.refs)
    <3>1. k.refs[i] \in ToSet(k.refs)
      BY <1>1, Zenon DEF ToSet
    <3> QED
      BY <3>1
  <2> HIDE DEF p
  <2>3. p \in ReferredAs(t, k.name)
    BY <2>1, <2>2, Zenon DEF ReferredAs
  <2> QED
    BY <2>3, Zenon
<1>4. p[1] = k.to /\ p[2] = k.refs[i]
  OBVIOUS
<1>6. PostgresKeys(w, t) = UNION {Pairs(l.name) : l \in t.keys}
  BY SMT DEF PostgresKeys
<1> HIDE DEF Used, Referred, p
<1>5. Pair(k.cols[i], p) \in Pairs(k.name)
  <2> HIDE DEF Pair
  <2> QED
    BY <1>2, <1>3, SMT
<1> HIDE DEF Pairs
<1>7. Pair(k.cols[i], p) \in PostgresKeys(w, t)
  BY <1>5, <1>6, Zenon
<1> QED
  BY <1>4, <1>7, Zenon

\* Where a PostgreSQL key has one column and a name of its own, no other is found.
LEMMA PlainPostgresKeys ==
  ASSUME NEW w \in Worlds, NEW t \in w.tables, Plain(w), w.dialect = "postgres"
  PROVE  PostgresKeys(w, t) \subseteq Declared(t)
<1> DEFINE Used(name) == UNION {UsedAs(u, name) : u \in Beside(w, t)}
           Referred(name) == UNION {ReferredAs(u, name) : u \in w.tables}
           Pair(f, q) == [from |-> <<f>>, to |-> q[1], refs |-> <<q[2]>>]
           Pairs(name) == {Pair(f, q) : f \in Used(name), q \in Referred(name)}
<1>1. ASSUME NEW k \in t.keys, NEW f \in Used(k.name), NEW q \in Referred(k.name)
      PROVE  Pair(f, q) \in Declared(t)
  <2>1. /\ Len(k.cols) = 1
        /\ \A u \in w.tables : \A c \in u.keys \cup u.rules : k.name = c.name => t = u /\ k = c
    BY Zenon DEF Plain
  <2>2. DOMAIN k.cols = {1} /\ DOMAIN k.refs = {1}
    <3>1. k.cols \in Seq(Seq(STRING)) /\ k.refs \in Seq(Seq(STRING)) /\ Len(k.cols) = Len(k.refs)
      BY WorldsAssumption, Zenon
    <3>3. \A s \in Seq(Seq(STRING)) : Len(s) = 1 => DOMAIN s = {1}
      OBVIOUS
    <3> QED
      BY <2>1, <3>1, <3>3, Zenon
  <2>3. ToSet(k.cols) = {k.cols[1]} /\ ToSet(k.refs) = {k.refs[1]}
    BY <2>2, Zenon DEF ToSet
  <2>4. f = k.cols[1]
    <3>1. PICK u \in Beside(w, t) : f \in UsedAs(u, k.name)
      BY Zenon
    <3>2. PICK c \in Named(k.name, Numbered(u)) : f \in ToSet(c.cols)
      BY <3>1, Zenon DEF UsedAs
    <3>3. c = k
      BY <2>1, <3>2 DEF Named, Numbered, Beside
    <3> QED
      BY <2>3, <3>2, <3>3, Zenon
  <2>5. q[1] = k.to /\ q[2] = k.refs[1]
    <3>1. PICK u \in w.tables : q \in ReferredAs(u, k.name)
      BY Zenon
    <3>2. CASE \E l \in Named(k.name, u.keys) : q \in {l.to} \X ToSet(l.refs)
      <4>1. PICK l \in Named(k.name, u.keys) : q \in {l.to} \X ToSet(l.refs)
        BY <3>2, Zenon
      <4>2. l = k
        BY <2>1, <4>1 DEF Named
      <4>3. q \in {k.to} \X {k.refs[1]}
        BY <2>3, <4>1, <4>2, Zenon
      <4> QED
        BY <4>3
    <3>3. CASE \E x \in Named(k.name, u.rules) : q \in {Key(u)} \X ToSet(x.cols)
      <4>1. PICK x \in Named(k.name, u.rules) : q \in {Key(u)} \X ToSet(x.cols)
        BY <3>3, Zenon
      <4>2. x = k /\ u = t
        BY <2>1, <4>1 DEF Named
      <4>3. x \in t.rules
        BY <4>1, <4>2 DEF Named
      <4>4. t.keys \cap t.rules = {}
        BY WorldsAssumption, Zenon
      <4>5. k \in t.rules
        BY <4>2, <4>3, Zenon
      <4> QED
        BY <4>4, <4>5, Zenon
    <3>4. \/ \E l \in Named(k.name, u.keys) : q \in {l.to} \X ToSet(l.refs)
          \/ \E x \in Named(k.name, u.rules) : q \in {Key(u)} \X ToSet(x.cols)
      <4> DEFINE A(l) == {l.to} \X ToSet(l.refs)
                 B(x) == {Key(u)} \X ToSet(x.cols)
                 S == UNION {A(l) : l \in Named(k.name, u.keys)}
                 R == UNION {B(x) : x \in Named(k.name, u.rules)}
      <4>1. q \in S \cup R
        BY <3>1, Zenon DEF ReferredAs
      <4> HIDE DEF A, B
      <4>2. /\ q \in S => \E l \in Named(k.name, u.keys) : q \in A(l)
            /\ q \in R => \E x \in Named(k.name, u.rules) : q \in B(x)
        BY Zenon
      <4> HIDE DEF S, R
      <4>3. q \in S \/ q \in R
        BY <4>1, Zenon
      <4> QED
        BY <4>2, <4>3, Zenon DEF A, B
    <3> QED
      BY <3>2, <3>3, <3>4, Zenon
  <2>6. Pair(f, q) = [from |-> <<k.cols[1]>>, to |-> k.to, refs |-> <<k.refs[1]>>]
    BY <2>4, <2>5, Zenon
  <2>7. Pair(f, q) \in PairsOf(k)
    BY <2>2, <2>6, Zenon DEF PairsOf
  <2> HIDE DEF Pair
  <2> QED
    BY <2>7, Zenon DEF Declared
<1>2. \A x \in PostgresKeys(w, t) :
        \E k \in t.keys : \E f \in Used(k.name), q \in Referred(k.name) : x = Pair(f, q)
  <2>1. PostgresKeys(w, t) \subseteq UNION {Pairs(l.name) : l \in t.keys}
    BY SMT DEF PostgresKeys
  <2> HIDE DEF Used, Referred, Pair
  <2>2. \A x : \A l : x \in Pairs(l.name) =>
          \E f \in Used(l.name), q \in Referred(l.name) : x = Pair(f, q)
    BY SMT
  <2> HIDE DEF Pairs
  <2> QED
    BY <2>1, <2>2, SMT
<1> HIDE DEF Used, Referred, Pair
<1>3. \A x \in PostgresKeys(w, t) : x \in Declared(t)
  BY <1>1, <1>2, Zenon
<1> QED
  BY <1>3, Zenon

\* Oracle's: a key to the own schema is found; one to another schema is not, and nothing in
\* its place where its rule has no namesake at home.
LEMMA OracleFindsOwn ==
  ASSUME NEW w \in Worlds, NEW t \in w.tables, w.dialect = "oracle",
         NEW k \in t.keys, NEW i \in DOMAIN k.cols, k.to[1] = t.schema
  PROVE  [from |-> <<k.cols[i]>>, to |-> k.to, refs |-> <<k.refs[i]>>] \in OracleKeys(w, t)
<1> DEFINE Pair(l, u, c, j) == [from |-> <<l.cols[j]>>, to |-> Key(u), refs |-> <<c.cols[j]>>]
           Pairs(l, u, c) == {Pair(l, u, c, j) : j \in DOMAIN l.cols \cap DOMAIN c.cols}
<1>1. PICK u \in Beside(w, t) : \E c \in Named(k.refers, Numbered(u)) :
        k.to = Key(u) /\ k.refs = c.cols
  BY WorldsAssumption, Zenon
<1>2. PICK c \in Named(k.refers, Numbered(u)) : k.to = Key(u) /\ k.refs = c.cols
  BY <1>1, Zenon
<1>3. i \in DOMAIN k.refs
  <2>1. k.cols \in Seq(Seq(STRING)) /\ k.refs \in Seq(Seq(STRING)) /\ Len(k.cols) = Len(k.refs)
    BY WorldsAssumption, Zenon
  <2> QED
    BY <2>1
<1>4. i \in DOMAIN k.cols \cap DOMAIN c.cols
  BY <1>2, <1>3, Zenon
<1>5. Pair(k, u, c, i) \in Pairs(k, u, c)
  BY <1>4, Zenon
<1>6. OracleKeys(w, t) =
        UNION {UNION {UNION {Pairs(l, v, d) : d \in Named(l.refers, Numbered(v))} :
                      v \in Beside(w, t)} : l \in t.keys}
  BY SMT DEF OracleKeys
<1> HIDE DEF Pairs
<1>7. Pair(k, u, c, i) \in UNION {Pairs(k, u, d) : d \in Named(k.refers, Numbered(u))}
  <2> HIDE DEF Pair
  <2> QED
    BY <1>5, Zenon
<1>8. Pair(k, u, c, i) \in OracleKeys(w, t)
  <2> DEFINE Over(l, v) == UNION {Pairs(l, v, d) : d \in Named(l.refers, Numbered(v))}
             OverAll(l) == UNION {Over(l, v) : v \in Beside(w, t)}
  <2>1. OracleKeys(w, t) = UNION {OverAll(l) : l \in t.keys}
    BY <1>6, Zenon
  <2>2. Pair(k, u, c, i) \in Over(k, u)
    BY <1>7, Zenon
  <2> HIDE DEF Pair, Over
  <2>3. Pair(k, u, c, i) \in OverAll(k)
    BY <2>2, Zenon
  <2> HIDE DEF OverAll
  <2> QED
    BY <2>1, <2>3, Zenon
<1> QED
  BY <1>2, <1>8, Zenon

LEMMA PlainOracleKeys ==
  ASSUME NEW w \in Worlds, NEW t \in w.tables, Plain(w), w.dialect = "oracle"
  PROVE  OracleKeys(w, t) \subseteq Declared(t)
<1> DEFINE Pair(l, u, c, j) == [from |-> <<l.cols[j]>>, to |-> Key(u), refs |-> <<c.cols[j]>>]
<1>1. \A x \in OracleKeys(w, t) :
        \E k \in t.keys : \E u \in Beside(w, t) : \E c \in Named(k.refers, Numbered(u)) :
          \E j \in DOMAIN k.cols \cap DOMAIN c.cols : x = Pair(k, u, c, j)
  <2> DEFINE Pairs(l, v, d) == {Pair(l, v, d, j) : j \in DOMAIN l.cols \cap DOMAIN d.cols}
             Over(l, v) == UNION {Pairs(l, v, d) : d \in Named(l.refers, Numbered(v))}
             OverAll(l) == UNION {Over(l, v) : v \in Beside(w, t)}
  <2>1. OracleKeys(w, t) = UNION {OverAll(l) : l \in t.keys}
    BY SMT DEF OracleKeys
  <2> SUFFICES ASSUME NEW x \in OracleKeys(w, t)
               PROVE  \E k \in t.keys : \E u \in Beside(w, t) : \E c \in Named(k.refers, Numbered(u)) :
                        \E j \in DOMAIN k.cols \cap DOMAIN c.cols : x = Pair(k, u, c, j)
    BY Zenon
  <2> HIDE DEF Pair, OverAll
  <2>2. PICK k \in t.keys : x \in OverAll(k)
    BY <2>1, Zenon
  <2> HIDE DEF Over
  <2>3. PICK u \in Beside(w, t) : x \in Over(k, u)
    BY <2>2, Zenon DEF OverAll
  <2> HIDE DEF Pairs
  <2>4. PICK c \in Named(k.refers, Numbered(u)) : x \in Pairs(k, u, c)
    BY <2>3, Zenon DEF Over
  <2>5. \E j \in DOMAIN k.cols \cap DOMAIN c.cols : x = Pair(k, u, c, j)
    BY <2>4, Zenon DEF Pairs
  <2> QED
    BY <2>5, Zenon
<1>2. ASSUME NEW k \in t.keys, NEW u \in Beside(w, t), NEW c \in Named(k.refers, Numbered(u)),
             NEW j \in DOMAIN k.cols \cap DOMAIN c.cols
      PROVE  Pair(k, u, c, j) \in Declared(t)
  <2>1. k.to[1] = t.schema
    <3>1. Named(k.refers, Numbered(u)) # {}
      BY Zenon
    <3> QED
      BY <3>1, Zenon DEF Plain
  <2>2. PICK v \in Beside(w, t) : \E d \in Named(k.refers, Numbered(v)) :
          k.to = Key(v) /\ k.refs = d.cols
    BY <2>1, WorldsAssumption, Zenon
  <2>3. PICK d \in Named(k.refers, Numbered(v)) : k.to = Key(v) /\ k.refs = d.cols
    BY <2>2, Zenon
  <2>4. /\ u \in w.tables /\ v \in Beside(w, u)
        /\ c \in Numbered(u) /\ d \in Numbered(v) /\ c.name = d.name
    BY DEF Beside, Named
  <2>5. u = v /\ c = d
    <3>1. \A x \in w.tables : \A y \in Beside(w, x) : \A a \in Numbered(x), b \in Numbered(y) :
            a.name = b.name => x = y /\ a = b
      BY WorldsAssumption
    <3> QED
      BY <2>4, <3>1, Zenon
  <2>6. Pair(k, u, c, j) = [from |-> <<k.cols[j]>>, to |-> k.to, refs |-> <<k.refs[j]>>]
    BY <2>3, <2>5, Zenon
  <2>7. Pair(k, u, c, j) \in PairsOf(k)
    <3>1. j \in DOMAIN k.cols
      BY Zenon
    <3> QED
      BY <2>6, <3>1, Zenon DEF PairsOf
  <2> HIDE DEF Pair
  <2> QED
    BY <2>7, Zenon DEF Declared
<1> HIDE DEF Pair
<1>3. \A x \in OracleKeys(w, t) : x \in Declared(t)
  <2>1. ASSUME NEW x \in OracleKeys(w, t) PROVE x \in Declared(t)
    <3>1. PICK k \in t.keys : \E u \in Beside(w, t) : \E c \in Named(k.refers, Numbered(u)) :
            \E j \in DOMAIN k.cols \cap DOMAIN c.cols : x = Pair(k, u, c, j)
      BY <1>1, Zenon
    <3>2. PICK u \in Beside(w, t) : \E c \in Named(k.refers, Numbered(u)) :
            \E j \in DOMAIN k.cols \cap DOMAIN c.cols : x = Pair(k, u, c, j)
      BY <3>1, Zenon
    <3>3. PICK c \in Named(k.refers, Numbered(u)) :
            \E j \in DOMAIN k.cols \cap DOMAIN c.cols : x = Pair(k, u, c, j)
      BY <3>2, Zenon
    <3>4. PICK j \in DOMAIN k.cols \cap DOMAIN c.cols : x = Pair(k, u, c, j)
      BY <3>3, Zenon
    <3>5. Pair(k, u, c, j) \in Declared(t)
      BY <1>2, Zenon
    <3> QED
      BY <3>4, <3>5, Zenon
  <2> QED
    BY <2>1, Zenon
<1> QED
  BY <1>3, Zenon

\* DuckDB's keys come whole: split, they are the pairs that are declared.
LEMMA WholeKeys ==
  ASSUME NEW w \in Worlds, NEW t \in w.tables, w.dialect = "duckdb"
  PROVE  /\ Split(DuckdbKeys(w, t)) = Declared(t)
         /\ \A c : \A target \in TargetsOf(DuckdbKeys(w, t), c) :
              [from |-> <<c>>, to |-> target[1], refs |-> <<target[2]>>] \in Declared(t)
<1> DEFINE Whole(k) == [from |-> k.cols, to |-> <<t.schema, k.to[2]>>, refs |-> k.refs]
           Piece(p, i) == [from |-> <<p.from[i]>>, to |-> p.to, refs |-> <<p.refs[i]>>]
           Pieces(p) == {Piece(p, i) : i \in DOMAIN p.from}
           Pair(k, i) == [from |-> <<k.cols[i]>>, to |-> k.to, refs |-> <<k.refs[i]>>]
<1>1. \A k \in t.keys : k.to = <<t.schema, k.to[2]>> /\ 1 \in DOMAIN k.cols
  <2>1. ASSUME NEW k \in t.keys PROVE k.to = <<t.schema, k.to[2]>> /\ 1 \in DOMAIN k.cols
    <3>1. /\ k.to \in STRING \X STRING /\ k.to[1] = t.schema
          /\ k.cols \in Seq(Seq(STRING)) /\ k.cols # <<>>
      BY WorldsAssumption, Zenon
    <3>2. k.to = <<t.schema, k.to[2]>>
      BY <3>1
    <3>3. \A s \in Seq(Seq(STRING)) : s # <<>> => 1 \in DOMAIN s
      OBVIOUS
    <3> QED
      BY <3>1, <3>2, <3>3, Zenon
  <2> QED
    BY <2>1, Zenon
<1>2. \A k : Whole(k).from = k.cols /\ Whole(k).to = <<t.schema, k.to[2]>> /\ Whole(k).refs = k.refs
  BY Zenon
<1>3. DuckdbKeys(w, t) = {Whole(k) : k \in t.keys}
  BY Zenon DEF DuckdbKeys
<1> HIDE DEF Whole
<1>4. ASSUME NEW k \in t.keys PROVE Pieces(Whole(k)) = PairsOf(k)
  <2>1. \A i : Piece(Whole(k), i) = Pair(k, i)
    BY <1>1, <1>2, Zenon
  <2>2. PairsOf(k) = {Pair(k, i) : i \in DOMAIN k.cols}
    BY Zenon DEF PairsOf
  <2> HIDE DEF Piece, Pair
  <2> QED
    BY <1>2, <2>1, <2>2, Zenon
<1>5. Split(DuckdbKeys(w, t)) = Declared(t)
  <2>1. Split(DuckdbKeys(w, t)) = UNION {Pieces(p) : p \in DuckdbKeys(w, t)}
    BY Zenon DEF Split
  <2> HIDE DEF Pieces
  <2>2. ASSUME NEW x PROVE x \in Split(DuckdbKeys(w, t)) <=> x \in Declared(t)
    BY <1>3, <1>4, <2>1, SMT DEF Declared
  <2>3. \A x : x \in Split(DuckdbKeys(w, t)) <=> x \in Declared(t)
    BY <2>2, Zenon
  <2> QED
    BY <2>3, Zenon
<1>6. ASSUME NEW c, NEW target \in TargetsOf(DuckdbKeys(w, t), c)
      PROVE  [from |-> <<c>>, to |-> target[1], refs |-> <<target[2]>>] \in Declared(t)
  <2>1. PICK p \in DuckdbKeys(w, t) : p.from[1] = c /\ target = <<p.to, p.refs[1]>>
    BY <1>6, Zenon DEF TargetsOf
  <2>2. PICK k \in t.keys : p = Whole(k)
    BY <1>3, Zenon
  <2>3. p.from = k.cols /\ p.to = k.to /\ p.refs = k.refs
    BY <1>1, <1>2, <2>2, Zenon
  <2>4. target[1] = k.to /\ target[2] = k.refs[1] /\ c = k.cols[1]
    <3>1. target = <<k.to, k.refs[1]>> /\ c = k.cols[1]
      BY <2>1, <2>3, Zenon
    <3> QED
      BY <3>1
  <2>5. Pair(k, 1) \in PairsOf(k)
    BY <1>1, Zenon DEF PairsOf
  <2>6. Pair(k, 1) \in Declared(t)
    <3> HIDE DEF Pair
    <3> QED
      BY <2>5, Zenon DEF Declared
  <2> QED
    BY <2>4, <2>6, Zenon
<1> QED
  BY <1>5, <1>6, Zenon

\* What the catalogue query of each engine finds of a table's keys: all the table declares,
\* but Oracle's to another schema; and nothing else, where the names do not mislead.
LEMMA KeysFoundAreAll ==
  ASSUME NEW w \in Worlds, NEW t \in w.tables, w.dialect \in Counted,
         w.dialect = "postgres" => w.owner, NEW p \in Declared(t)
  PROVE  p \in Split(KeysFound(w, t)) \/ (w.dialect = "oracle" /\ p.to[1] # t.schema)
<1> DEFINE Pair(k, i) == [from |-> <<k.cols[i]>>, to |-> k.to, refs |-> <<k.refs[i]>>]
<1>1. PICK k \in t.keys : \E i \in DOMAIN k.cols : p = Pair(k, i)
  BY DeclaredPairs, Zenon
<1>2. PICK i \in DOMAIN k.cols : p = Pair(k, i)
  BY <1>1, Zenon
<1>3. p.to = k.to
  BY <1>2, Zenon
<1>4. CASE p \in KeysFound(w, t)
  BY <1>2, <1>4, SplitKeeps, Zenon
<1>5. CASE w.dialect = "postgres"
  <2>1. KeysFound(w, t) = PostgresKeys(w, t)
    BY <1>5 DEF KeysFound
  <2>2. p \in PostgresKeys(w, t)
    BY <1>2, <1>5, PostgresFindsAll, Zenon
  <2> QED
    BY <1>4, <2>1, <2>2, Zenon
<1>6. CASE w.dialect = "oracle"
  <2>1. KeysFound(w, t) = OracleKeys(w, t)
    BY <1>6 DEF KeysFound
  <2>2. CASE k.to[1] = t.schema
    <3>1. p \in OracleKeys(w, t)
      BY <1>2, <1>6, <2>2, OracleFindsOwn, Zenon
    <3> QED
      BY <1>4, <2>1, <3>1, Zenon
  <2>3. CASE k.to[1] # t.schema
    BY <1>3, <1>6, <2>3, Zenon
  <2> QED
    BY <2>2, <2>3, Zenon
<1>7. CASE w.dialect = "duckdb"
  <2>1. KeysFound(w, t) = DuckdbKeys(w, t)
    BY <1>7 DEF KeysFound
  <2> QED
    BY <1>7, <2>1, WholeKeys, Zenon
<1>8. CASE w.dialect \in {"mysql", "sqlite", "mssql"}
  <2>1. KeysFound(w, t) = Declared(t)
    BY <1>8 DEF KeysFound, MysqlKeys, SqliteKeys, MssqlKeys
  <2> QED
    BY <1>4, <2>1, Zenon
<1>9. w.dialect \in {"postgres", "sqlite", "mysql", "mssql", "oracle", "duckdb"}
  BY DEF Counted
<1> QED
  BY <1>5, <1>6, <1>7, <1>8, <1>9, Zenon

LEMMA KeysFoundAreDeclared ==
  ASSUME NEW w \in Worlds, NEW t \in w.tables, w.dialect \in Counted, Plain(w)
  PROVE  /\ Split(KeysFound(w, t)) \subseteq Declared(t)
         /\ \A c : \A target \in TargetsOf(KeysFound(w, t), c) :
              [from |-> <<c>>, to |-> target[1], refs |-> <<target[2]>>] \in Declared(t)
<1>1. CASE KeysFound(w, t) \subseteq Declared(t)
  <2> DEFINE F == KeysFound(w, t)
  <2>1. F \in SUBSET Declared(t)
    BY <1>1, Zenon
  <2> HIDE DEF F
  <2>2. /\ Split(F) = F
        /\ \A c : \A target \in TargetsOf(F, c) :
             [from |-> <<c>>, to |-> target[1], refs |-> <<target[2]>>] \in F
    BY <2>1, SplitPairs, Zenon
  <2> QED
    BY <2>1, <2>2, Zenon DEF F
<1>2. CASE w.dialect = "oracle"
  <2>1. KeysFound(w, t) = OracleKeys(w, t)
    BY <1>2 DEF KeysFound
  <2> QED
    BY <1>1, <1>2, <2>1, PlainOracleKeys, Zenon
<1>3. CASE w.dialect = "duckdb"
  <2>1. KeysFound(w, t) = DuckdbKeys(w, t)
    BY <1>3 DEF KeysFound
  <2> QED
    BY <1>3, <2>1, WholeKeys, Zenon
<1>4. CASE w.dialect = "postgres"
  <2>1. KeysFound(w, t) = PostgresKeys(w, t)
    BY <1>4 DEF KeysFound
  <2> QED
    BY <1>1, <1>4, <2>1, PlainPostgresKeys, Zenon
<1>5. CASE w.dialect \in {"mysql", "sqlite", "mssql"}
  <2>1. KeysFound(w, t) = Declared(t)
    BY <1>5 DEF KeysFound, MysqlKeys, SqliteKeys, MssqlKeys
  <2> QED
    BY <1>1, <2>1, Zenon
<1>6. w.dialect \in {"postgres", "sqlite", "mysql", "mssql", "oracle", "duckdb"}
  BY DEF Counted
<1> QED
  BY <1>2, <1>3, <1>4, <1>5, <1>6, Zenon

\* A fourth query put behind three.
LEMMA FourMade ==
  ASSUME NEW T, NEW a \in T, NEW b \in T, NEW c \in T, NEW d \in T
  PROVE  <<a, b, c>> \o <<d>> = <<a, b, c, d>>
<1> DEFINE s == <<a, b, c>> \o <<d>>
<1>1. s \in Seq(T) /\ Len(s) = 4 /\ s[1] = a /\ s[2] = b /\ s[3] = c /\ s[4] = d
  <2>1. \A p, q \in Seq(T) : /\ p \o q \in Seq(T)
                             /\ Len(p \o q) = Len(p) + Len(q)
                             /\ \A i \in 1 .. Len(p) : (p \o q)[i] = p[i]
                             /\ \A i \in 1 .. Len(q) : (p \o q)[Len(p) + i] = q[i]
    OBVIOUS
  <2> QED
    BY <2>1
<1> HIDE DEF s
<1>2. s = <<a, b, c, d>>
  BY <1>1
<1> QED
  BY <1>2 DEF s

\* A query put behind one or two.
LEMMA OneMore ==
  ASSUME NEW T, NEW a \in T, NEW b \in T, NEW c \in T
  PROVE  /\ <<a>> \o <<b>> = <<a, b>>
         /\ <<a, b>> \o <<c>> = <<a, b, c>>
         /\ <<a>> \o <<>> = <<a>> /\ <<a, b>> \o <<>> = <<a, b>>
<1>1. \A s, t \in Seq(T) : /\ s \o t \in Seq(T)
                           /\ Len(s \o t) = Len(s) + Len(t)
                           /\ \A i \in 1 .. Len(s) : (s \o t)[i] = s[i]
                           /\ \A i \in 1 .. Len(t) : (s \o t)[Len(s) + i] = t[i]
  OBVIOUS
<1>2. <<a>> \o <<b>> = <<a, b>>
  <2> DEFINE s == <<a>> \o <<b>>
  <2>1. s \in Seq(T) /\ Len(s) = 2 /\ s[1] = a /\ s[2] = b
    BY <1>1
  <2> HIDE DEF s
  <2>2. s = <<a, b>>
    BY <2>1
  <2> QED
    BY <2>2 DEF s
<1>3. <<a, b>> \o <<c>> = <<a, b, c>>
  <2> DEFINE s == <<a, b>> \o <<c>>
  <2>1. s \in Seq(T) /\ Len(s) = 3 /\ s[1] = a /\ s[2] = b /\ s[3] = c
    BY <1>1
  <2> HIDE DEF s
  <2>2. s = <<a, b, c>>
    BY <2>1
  <2> QED
    BY <2>2 DEF s
<1>4. \A s \in Seq(T) : s \o <<>> = s
  OBVIOUS
<1>5. <<a>> \in Seq(T) /\ <<a, b>> \in Seq(T)
  OBVIOUS
<1> QED
  BY <1>2, <1>3, <1>4, <1>5, Zenon

\* The queries a sample is made of: four at most, and a count is never the last.
LEMMA QueriesEnd ==
  ASSUME NEW d, NEW c
  PROVE  /\ Queries(d, c) \in Seq({"count", "distinct", "stats", "some", "terms"})
         /\ Len(Queries(d, c)) <= 4
         /\ \A i \in DOMAIN Queries(d, c) :
              Queries(d, c)[i] = "count" => i < Len(Queries(d, c))
<1> DEFINE Q == Queries(d, c)
<1>1. CASE d \in Counted
  <2>1. \/ Q = <<>> \/ Q = <<"count", "some">> \/ Q = <<"count", "distinct", "some">>
        \/ Q = <<"count", "stats", "some">> \/ Q = <<"count", "distinct", "stats", "some">>
    <3> DEFINE A == IF Textual(c) \/ FewValues(c) THEN <<"distinct">> ELSE <<>>
               B == IF Numeric(d, c) THEN <<"stats">> ELSE <<>>
    <3>1. Q = IF Temporal(d, c) THEN <<>> ELSE <<"count">> \o A \o B \o <<"some">>
      BY <1>1 DEF Queries, Counted
    <3>2. (A = <<>> \/ A = <<"distinct">>) /\ (B = <<>> \/ B = <<"stats">>)
      BY Zenon
    <3>3. /\ <<"count">> \o <<>> \o <<>> \o <<"some">> = <<"count", "some">>
          /\ <<"count">> \o <<"distinct">> \o <<>> \o <<"some">> = <<"count", "distinct", "some">>
          /\ <<"count">> \o <<>> \o <<"stats">> \o <<"some">> = <<"count", "stats", "some">>
          /\ <<"count">> \o <<"distinct">> \o <<"stats">> \o <<"some">>
               = <<"count", "distinct", "stats", "some">>
      <4> DEFINE T == {"count", "distinct", "stats", "some"}
      <4>1. "count" \in T /\ "distinct" \in T /\ "stats" \in T /\ "some" \in T
        BY Zenon
      <4> HIDE DEF T
      <4>2. <<"count">> \o <<>> = <<"count">>
        BY <4>1, OneMore, Zenon
      <4>3. <<"count">> \o <<"some">> = <<"count", "some">>
        BY <4>1, OneMore, Zenon
      <4>4. /\ <<"count">> \o <<"distinct">> = <<"count", "distinct">>
            /\ <<"count", "distinct">> \o <<>> = <<"count", "distinct">>
        BY <4>1, OneMore, Zenon
      <4>5. <<"count">> \o <<"stats">> = <<"count", "stats">>
        BY <4>1, OneMore, Zenon
      <4>6. <<"count", "distinct">> \o <<"some">> = <<"count", "distinct", "some">>
        BY <4>1, OneMore, Zenon
      <4>7. <<"count", "stats">> \o <<"some">> = <<"count", "stats", "some">>
        BY <4>1, OneMore, Zenon
      <4>8. <<"count", "distinct">> \o <<"stats">> = <<"count", "distinct", "stats">>
        BY <4>1, OneMore, Zenon
      <4>9. <<"count", "distinct", "stats">> \o <<"some">> = <<"count", "distinct", "stats", "some">>
        BY <4>1, FourMade, ZenonT(60)
      <4>10. <<"count">> \o <<>> \o <<>> \o <<"some">> = <<"count", "some">>
        BY <4>2, <4>3, Zenon
      <4>11. <<"count">> \o <<"distinct">> \o <<>> \o <<"some">> = <<"count", "distinct", "some">>
        BY <4>4, <4>6, Zenon
      <4>12. <<"count">> \o <<>> \o <<"stats">> \o <<"some">> = <<"count", "stats", "some">>
        BY <4>2, <4>5, <4>7, Zenon
      <4>13. <<"count">> \o <<"distinct">> \o <<"stats">> \o <<"some">>
               = <<"count", "distinct", "stats", "some">>
        BY <4>4, <4>8, <4>9, Zenon
      <4> QED
        BY <4>10, <4>11, <4>12, <4>13, Zenon
    <3> HIDE DEF A, B, Q
    <3> QED
      BY <3>1, <3>2, <3>3, Zenon
  <2> HIDE DEF Q
  <2>2. CASE Q = <<>>
    BY <2>2 DEF Q
  <2>3. CASE Q = <<"count", "some">>
    BY <2>3 DEF Q
  <2>4. CASE Q = <<"count", "distinct", "some">>
    BY <2>4 DEF Q
  <2>5. CASE Q = <<"count", "stats", "some">>
    BY <2>5 DEF Q
  <2>6. CASE Q = <<"count", "distinct", "stats", "some">>
    BY <2>6 DEF Q
  <2> QED
    BY <2>1, <2>2, <2>3, <2>4, <2>5, <2>6, Zenon
<1>2. CASE d \notin Counted
  <2>1. \/ Q = <<>> \/ Q = <<"distinct">> \/ Q = <<"stats">> \/ Q = <<"terms">>
        \/ Q = <<"distinct", "stats">>
    <3>1. CASE d = "clickhouse"
      BY <1>2, <3>1 DEF Queries
    <3>2. CASE d = "elasticsearch"
      BY <1>2, <3>2 DEF Queries
    <3>3. CASE d = "mongodb"
      <4> DEFINE B == IF Numeric(d, c) THEN <<"stats">> ELSE <<>>
      <4>1. Q = <<"distinct">> \o B
        BY <1>2, <3>3 DEF Queries
      <4>2. B = <<>> \/ B = <<"stats">>
        BY Zenon
      <4>3. /\ <<"distinct">> \o <<>> = <<"distinct">>
            /\ <<"distinct">> \o <<"stats">> = <<"distinct", "stats">>
        <5>1. "distinct" \in {"distinct", "stats"} /\ "stats" \in {"distinct", "stats"}
          BY Zenon
        <5> QED
          BY <5>1, OneMore, Zenon
      <4> HIDE DEF B, Q
      <4> QED
        BY <4>1, <4>2, <4>3, Zenon
    <3>4. CASE d \notin {"clickhouse", "elasticsearch", "mongodb"}
      BY <1>2, <3>4 DEF Queries
    <3> HIDE DEF Q
    <3>5. d \in {"clickhouse", "elasticsearch", "mongodb"} =>
            d = "clickhouse" \/ d = "elasticsearch" \/ d = "mongodb"
      BY Zenon
    <3> QED
      BY <3>1, <3>2, <3>3, <3>4, <3>5, Zenon
  <2> HIDE DEF Q
  <2>2. CASE Q = <<>>
    BY <2>2 DEF Q
  <2>3. CASE Q = <<"distinct">>
    BY <2>3 DEF Q
  <2>4. CASE Q = <<"stats">>
    BY <2>4 DEF Q
  <2>5. CASE Q = <<"terms">>
    BY <2>5 DEF Q
  <2>6. CASE Q = <<"distinct", "stats">>
    BY <2>6 DEF Q
  <2> QED
    BY <2>1, <2>2, <2>3, <2>4, <2>5, <2>6, Zenon
<1> QED
  BY <1>1, <1>2, Zenon

\* A table of the bundle is the whole of a table found; DuckDB's constraints may be missing.
Element(e, u) ==
  /\ e.key = Key(u) /\ e.cols = ColumnsFound(world, u)
  /\ \/ e.fks = KeysFound(world, u)
     \/ world.dialect = "duckdb" /\ faults > 0 /\ e.fks = {}
\* There is nothing to list: the endpoint has denied what it was asked.
Untold == tables = {} /\ world.dialect \in Denies /\ faults > 0
TablesInv ==
  /\ \A e \in tables : \E u \in Found(world) : Element(e, u)
  /\ progress \in {"sampling", "done"} =>
       \/ Untold
       \/ \A u \in Found(world) : \E e \in tables : Element(e, u)
  /\ progress = "introspecting" => tables = {} /\ left = <<>> /\ samples = <<>> /\ try = 0

\* Every column of the bundle has its sample or waits for it, and waits once.
Cells(B) == UNION {{e.key} \X e.cols : e \in B}
Spot(cell) == <<cell[1], cell[2].name>>
LeftInv ==
  /\ left \in Seq(Cells(tables))
  /\ \A i, j \in DOMAIN left : Spot(left[i]) = Spot(left[j]) => i = j
  /\ \A i \in DOMAIN left : Spot(left[i]) \notin DOMAIN samples
  /\ \A cell \in Cells(tables) : Spot(cell) \in DOMAIN samples \/ \E i \in DOMAIN left : left[i] = cell

\* While the queries of a column are made, they are those of the column that is next.
TryInv == try # 0 => left # <<>> /\ try \in 1 .. Len(Made)

ProfileInv ==
  /\ world \in Worlds
  /\ progress \in {"introspecting", "sampling", "done", "failed"}
  /\ try \in Nat /\ faults \in 0 .. MaxFaults
  /\ TablesInv /\ LeftInv /\ TryInv
  /\ progress = "done" => left = <<>>
  /\ SurvivesBadColumns /\ SampleSaysAll

\* Two cells of the bundle with the same spot are the same cell.
LEMMA SpotsApart ==
  ASSUME NEW w \in Worlds, NEW B,
         \A e \in B : \E u \in w.tables : e.key = Key(u) /\ e.cols = ColumnsFound(w, u)
  PROVE  \A x, y \in Cells(B) : Spot(x) = Spot(y) => x = y
<1>1. ASSUME NEW x \in Cells(B), NEW y \in Cells(B), Spot(x) = Spot(y) PROVE x = y
  <2>1. PICK d \in B : x \in {d.key} \X d.cols
    BY Zenon DEF Cells
  <2>2. PICK e \in B : y \in {e.key} \X e.cols
    BY Zenon DEF Cells
  <2>3. /\ x = <<x[1], x[2]>> /\ x[1] = d.key /\ x[2] \in d.cols
        /\ y = <<y[1], y[2]>> /\ y[1] = e.key /\ y[2] \in e.cols
    BY <2>1, <2>2
  <2>4. PICK t \in w.tables : d.key = Key(t) /\ d.cols = ColumnsFound(w, t)
    BY Zenon
  <2>5. PICK u \in w.tables : e.key = Key(u) /\ e.cols = ColumnsFound(w, u)
    BY Zenon
  <2>6. x[1] = y[1] /\ x[2].name = y[2].name
    BY <1>1 DEF Spot
  <2>7. t = u
    <3>1. Key(t) = Key(u)
      BY <2>3, <2>4, <2>5, <2>6, Zenon
    <3> QED
      BY <3>1, WorldsAssumption, Zenon
  <2>8. x[2] \in ColumnsFound(w, t) /\ y[2] \in ColumnsFound(w, t)
    BY <2>3, <2>4, <2>5, <2>7, Zenon
  <2>9. x[2] = y[2]
    BY <2>6, <2>8, NamesApart, Zenon
  <2> QED
    BY <2>3, <2>6, <2>9, Zenon
<1> QED
  BY <1>1, Zenon

\* The bundle has finitely many cells.
LEMMA CellsFinite ==
  ASSUME NEW w \in Worlds, NEW B,
         \A e \in B : \E u \in Found(w) : e.key = Key(u) /\ e.cols = ColumnsFound(w, u)
  PROVE  IsFiniteSet(Cells(B))
<1> DEFINE Row(u) == {Key(u)} \X ColumnsFound(w, u)
           Rows == {Row(u) : u \in Found(w)}
           f == [u \in Found(w) |-> Row(u)]
<1>1. \A u \in Found(w) : u \in w.tables /\ Listed(w, u)
  BY Zenon DEF Found
<1>2. IsFiniteSet(Found(w))
  <2>1. IsFiniteSet(w.tables)
    BY WorldsAssumption, Zenon
  <2>2. Found(w) \in SUBSET w.tables
    BY <1>1, Zenon
  <2> QED
    BY <2>1, <2>2, FS_Subset, Zenon
<1>3. \A u \in Found(w) : IsFiniteSet(Row(u))
  <2>1. ASSUME NEW u \in Found(w) PROVE IsFiniteSet(Row(u))
    <3>1. IsFiniteSet(ColumnsFound(w, u))
      BY <1>1, WorldsAssumption, Zenon
    <3>2. IsFiniteSet({Key(u)})
      BY FS_Singleton, Zenon
    <3> QED
      BY <3>1, <3>2, FS_Product, Zenon
  <2> QED
    BY <2>1, Zenon
<1> HIDE DEF Row
<1>4. IsFiniteSet(Rows)
  <2>1. f \in Surjection(Found(w), Rows)
    BY DEF Surjection
  <2> HIDE DEF f, Rows
  <2> QED
    BY <1>2, <2>1, FS_Surjection, Zenon
<1>5. \A r \in Rows : IsFiniteSet(r)
  BY <1>3, Zenon
<1>6. IsFiniteSet(UNION Rows)
  <2> HIDE DEF Rows
  <2> QED
    BY <1>4, <1>5, FS_UNION, Zenon
<1>7. Cells(B) \in SUBSET UNION Rows
  <2>1. ASSUME NEW x \in Cells(B) PROVE x \in UNION Rows
    <3>1. PICK e \in B : x \in {e.key} \X e.cols
      BY Zenon DEF Cells
    <3>2. PICK u \in Found(w) : e.key = Key(u) /\ e.cols = ColumnsFound(w, u)
      BY Zenon
    <3>3. x \in Row(u)
      BY <3>1, <3>2, Zenon DEF Row
    <3> QED
      BY <3>3, Zenon
  <2> HIDE DEF Rows
  <2> QED
    BY <2>1, Zenon
<1> QED
  <2> HIDE DEF Rows
  <2> QED
    BY <1>6, <1>7, FS_Subset, Zenon

\* Nothing is found before the introspection starts.
LEMMA ProfileInit ==
  SchemaInit => ProfileInv
<1> SUFFICES ASSUME SchemaInit PROVE ProfileInv
  OBVIOUS
<1> USE DEF SchemaInit
<1>1. TablesInv
  <2>1. tables = {} /\ left = <<>> /\ samples = <<>> /\ try = 0 /\ progress = "introspecting"
    BY Zenon
  <2>2. progress \notin {"sampling", "done"}
    BY <2>1, Zenon
  <2> QED
    BY <2>1, <2>2, Zenon DEF TablesInv
<1>2. LeftInv
  BY DEF LeftInv, Cells
<1>3. TryInv
  BY Zenon DEF TryInv
<1>4. SurvivesBadColumns /\ SampleSaysAll
  BY DEF SurvivesBadColumns, SampleSaysAll
<1>5. faults \in 0 .. MaxFaults /\ try \in Nat /\ progress = "introspecting"
  BY EngineSchemaAssumption
<1> QED
  BY <1>1, <1>2, <1>3, <1>4, <1>5 DEF ProfileInv

\* What the introspection finds waits to be sampled.
LEMMA StartStep ==
  ASSUME ProfileInv, progress = "introspecting", progress' = "sampling",
         \A e \in tables' : \E u \in Found(world) : Element(e, u)',
         \A u \in Found(world) : \E e \in tables' : Element(e, u)',
         left' = SetToSeq(Cells(tables')),
         faults' \in 0 .. MaxFaults, UNCHANGED <<world, samples, try>>
  PROVE  ProfileInv'
<1>1. world \in Worlds /\ try = 0 /\ samples = <<>>
  BY Zenon DEF ProfileInv, TablesInv
<1>2. world' = world /\ samples' = samples /\ try' = try
  BY Zenon
<1>3. \A e \in tables' : \E u \in Found(world) :
        e.key = Key(u) /\ e.cols = ColumnsFound(world, u)
  <2>1. ASSUME NEW e \in tables' PROVE \E u \in Found(world) :
          e.key = Key(u) /\ e.cols = ColumnsFound(world, u)
    <3>1. PICK u \in Found(world) : Element(e, u)'
      BY Zenon
    <3>2. e.key = Key(u) /\ e.cols = ColumnsFound(world, u)
      BY <1>2, <3>1, Zenon DEF Element
    <3> QED
      BY <3>2, Zenon
  <2> QED
    BY <2>1, Zenon
<1>4. Found(world) \subseteq world.tables
  BY Zenon DEF Found
<1> DEFINE C == Cells(tables')
<1>5. IsFiniteSet(C)
  BY <1>1, <1>3, CellsFinite, Zenon
<1>6. \A x, y \in C : Spot(x) = Spot(y) => x = y
  <2>1. \A e \in tables' : \E u \in world.tables :
          e.key = Key(u) /\ e.cols = ColumnsFound(world, u)
    BY <1>3, <1>4, Zenon
  <2> QED
    BY <1>1, <2>1, SpotsApart, Zenon
<1> HIDE DEF C
<1>7. left' = SetToSeq(C)
  BY Zenon DEF C
<1>8. /\ left' \in Seq(C)
      /\ \A i, j \in DOMAIN left' : left'[i] = left'[j] => i = j
      /\ \A x \in C : \E i \in DOMAIN left' : left'[i] = x
  <2>1. /\ SetToSeq(C) \in Seq(C)
        /\ \A i, j \in DOMAIN SetToSeq(C) : SetToSeq(C)[i] = SetToSeq(C)[j] => i = j
        /\ \A x \in C : \E i \in DOMAIN SetToSeq(C) : SetToSeq(C)[i] = x
    BY <1>5, ListsOnce, Zenon
  <2> QED
    BY <1>7, <2>1, Zenon
<1>9. \A i \in DOMAIN left' : left'[i] \in C
  BY <1>8
<1>10. LeftInv'
  <2>1. \A i, j \in DOMAIN left' : Spot(left'[i]) = Spot(left'[j]) => i = j
    BY <1>6, <1>8, <1>9, Zenon
  <2>2. DOMAIN samples' = {}
    <3>1. DOMAIN <<>> = {}
      OBVIOUS
    <3> QED
      BY <1>1, <1>2, <3>1, Zenon
  <2>3. Cells(tables)' = C
    BY Zenon DEF C, Cells
  <2>4. \A cell : Spot(cell)' = Spot(cell)
    BY Zenon DEF Spot
  <2> QED
    BY <1>8, <2>1, <2>2, <2>3, Zenon DEF LeftInv, Spot
<1>11. TablesInv'
  <2>1. Found(world)' = Found(world)
    BY <1>2, Zenon
  <2>2. progress' # "introspecting"
    BY Zenon
  <2> QED
    BY <2>1, <2>2, Zenon DEF TablesInv
<1>12. TryInv'
  BY <1>1, <1>2, Zenon DEF TryInv
<1>13. SurvivesBadColumns' /\ SampleSaysAll'
  <2>1. SampleSaysAll
    BY Zenon DEF ProfileInv
  <2>2. SampleSaysAll'
    BY <1>2, <2>1, Zenon DEF SampleSaysAll, Source
  <2>3. progress' # "failed"
    BY Zenon
  <2> QED
    BY <2>2, <2>3, Zenon DEF SurvivesBadColumns
<1>14. progress' # "done" /\ progress' \in {"introspecting", "sampling", "done", "failed"}
  BY Zenon
<1>15. world' \in Worlds /\ try' \in Nat
  BY <1>1, <1>2
<1> QED
  BY <1>10, <1>11, <1>12, <1>13, <1>14, <1>15, Zenon DEF ProfileInv

\* The introspection stores every table found, whole.
LEMMA IntrospectStep ==
  ProfileInv /\ IntrospectSchema => ProfileInv'
<1> SUFFICES ASSUME ProfileInv, IntrospectSchema PROVE ProfileInv'
  OBVIOUS
<1>1. /\ progress = "introspecting" /\ progress' = "sampling"
      /\ tables' = {Table(world, t) : t \in Found(world)}
      /\ left' = SetToSeq(Cells(tables'))
      /\ UNCHANGED <<world, samples, try, faults>>
  BY Zenon DEF IntrospectSchema, Cells
<1>2. \A u \in Found(world) : Element(Table(world, u), u)'
  BY <1>1, Zenon DEF Element, Table
<1>3. \A e \in tables' : \E u \in Found(world) : Element(e, u)'
  BY <1>1, <1>2, Zenon
<1>4. \A u \in Found(world) : \E e \in tables' : Element(e, u)'
  BY <1>1, <1>2, Zenon
<1>5. faults' \in 0 .. MaxFaults
  BY <1>1, Zenon DEF ProfileInv
<1> QED
  BY <1>1, <1>3, <1>4, <1>5, StartStep, Zenon

\* A bundle whose constraints DuckDB could not read has none, and a fault was counted.
LEMMA KeysUnreadStep ==
  ProfileInv /\ KeysUnread => ProfileInv'
<1> SUFFICES ASSUME ProfileInv, KeysUnread PROVE ProfileInv'
  OBVIOUS
<1> DEFINE Bare(t) == [Table(world, t) EXCEPT !.fks = {}]
<1>1. /\ progress = "introspecting" /\ progress' = "sampling" /\ world.dialect = "duckdb"
      /\ tables' = {Bare(t) : t \in Found(world)}
      /\ left' = SetToSeq(Cells(tables'))
      /\ UNCHANGED <<world, samples, try>>
      /\ faults < MaxFaults /\ faults' = faults + 1
  BY Zenon DEF KeysUnread, Cells
<1>2. faults' \in 0 .. MaxFaults /\ faults' > 0
  BY <1>1, EngineSchemaAssumption DEF ProfileInv
<1>3. ASSUME NEW u \in Found(world), NEW e, e = Bare(u) PROVE Element(e, u)'
  BY <1>1, <1>2, <1>3, Zenon DEF Element, Table
<1> HIDE DEF Bare
<1>4. \A e \in tables' : \E u \in Found(world) : Element(e, u)'
  BY <1>1, <1>3, Zenon
<1>5. \A u \in Found(world) : \E e \in tables' : Element(e, u)'
  BY <1>1, <1>3, Zenon
<1> QED
  BY <1>1, <1>2, <1>4, <1>5, StartStep, Zenon

\* The column that is next is one of a table of the database, which is the one its sample
\* is taken from.
LEMMA NextColumn ==
  ASSUME ProfileInv, left # <<>>
  PROVE  /\ Column \in Cells(tables) /\ Here = Spot(Column)
         /\ Here \notin DOMAIN samples
         /\ \E u \in Found(world) :
              /\ Column[1] = Key(u) /\ Column[2] \in ColumnsFound(world, u)
              /\ Source(Here[1]) = u
              /\ Behind.type = Column[2].type
              /\ \A c \in ToSet(u.cols) : c.name = Here[2] =>
                   /\ Behind.values = c.values /\ Behind.null = c.null
                   /\ IsFiniteSet(c.values) /\ Null \notin c.values
<1>1. LeftInv /\ TablesInv /\ world \in Worlds
  BY Zenon DEF ProfileInv
<1>2. left \in Seq(Cells(tables)) /\ \A i \in DOMAIN left : Spot(left[i]) \notin DOMAIN samples
  BY <1>1, Zenon DEF LeftInv
<1>3. Column = left[1] /\ 1 \in DOMAIN left /\ left[1] \in Cells(tables)
  BY <1>2 DEF Column
<1>4. Here = Spot(Column)
  BY Zenon DEF Here, Spot
<1>5. Here \notin DOMAIN samples
  BY <1>2, <1>3, <1>4, Zenon
<1>6. PICK e \in tables : Column \in {e.key} \X e.cols
  BY <1>3, Zenon DEF Cells
<1>7. PICK u \in Found(world) : Element(e, u)
  BY <1>1, Zenon DEF TablesInv
<1>8. Column[1] = Key(u) /\ Column[2] \in ColumnsFound(world, u)
  <2>1. Column[1] = e.key /\ Column[2] \in e.cols
    BY <1>6
  <2> QED
    BY <1>7, <2>1, Zenon DEF Element
<1>9. u \in world.tables
  BY Zenon DEF Found
<1>10. Here[1] = Column[1] /\ Here[2] = Column[2].name
  BY DEF Here
<1> DEFINE t == CHOOSE v \in world.tables : Key(v) = Column[1]
<1>11. t = u
  <2>1. t \in world.tables /\ Key(t) = Column[1]
    BY <1>8, <1>9, Zenon
  <2>2. Key(t) = Key(u)
    BY <1>8, <2>1, Zenon
  <2> HIDE DEF t
  <2> QED
    BY <1>1, <1>9, <2>1, <2>2, WorldsAssumption, Zenon
<1>12. Source(Here[1]) = u
  BY <1>10, <1>11, Zenon DEF Source
<1> DEFINE held == {c \in ToSet(t.cols) : c.name = Column[2].name}
           there == IF held = {} THEN Unheld ELSE CHOOSE c \in held : TRUE
<1>13. Behind = [name |-> Column[2].name, type |-> Column[2].type,
                   values |-> there.values, null |-> there.null, rows |-> there.rows]
  BY Zenon DEF Behind
<1> HIDE DEF there
<1>14. /\ Behind.type = Column[2].type
       /\ Behind.values = there.values /\ Behind.null = there.null
  BY <1>13, Zenon
<1>15. ASSUME NEW c \in ToSet(u.cols), c.name = Here[2]
       PROVE  /\ Behind.values = c.values /\ Behind.null = c.null
              /\ IsFiniteSet(c.values) /\ Null \notin c.values
  <2> HIDE DEF t
  <2>1. c \in held
    BY <1>10, <1>11, <1>15, Zenon
  <2>2. there = CHOOSE d \in held : TRUE
    BY <2>1, Zenon DEF there
  <2> DEFINE d == CHOOSE x \in held : TRUE
  <2>3. d \in held
    BY <2>1, Zenon
  <2>4. there = d
    BY <2>2, Zenon
  <2> HIDE DEF d
  <2>5. d \in ToSet(u.cols) /\ d.name = c.name
    BY <1>10, <1>11, <1>15, <2>3, Zenon
  <2>6. d = c
    BY <1>1, <1>9, <2>5, WorldsAssumption, Zenon
  <2>7. IsFiniteSet(c.values) /\ Null \notin c.values
    BY <1>1, <1>9, WorldsAssumption, Zenon
  <2> QED
    BY <1>14, <2>4, <2>6, <2>7, Zenon
<1>16. /\ Column[1] = Key(u) /\ Column[2] \in ColumnsFound(world, u)
       /\ Source(Here[1]) = u
       /\ Behind.type = Column[2].type
       /\ \A c \in ToSet(u.cols) : c.name = Here[2] =>
            /\ Behind.values = c.values /\ Behind.null = c.null
            /\ IsFiniteSet(c.values) /\ Null \notin c.values
  BY <1>8, <1>12, <1>14, <1>15, Zenon
<1> QED
  BY <1>3, <1>4, <1>5, <1>16, Zenon

\* What the next sample may say.
Truthful(s) ==
  s.listed # {} =>
    \A c \in ToSet(Source(Here[1]).cols) : c.name = Here[2] =>
      /\ s.listed \subseteq c.values \cup {Null}
      /\ s.truncated \/ c.values \subseteq s.listed \/ (world.dialect = "mongodb" /\ c.null)

\* Storing a truthful sample of the next column keeps the invariant.
LEMMA SampledStep ==
  ASSUME ProfileInv, progress = "sampling", left # <<>>, NEW s, Sampled(s), Truthful(s),
         faults' \in 0 .. MaxFaults, faults' >= faults
  PROVE  ProfileInv'
<1>1. /\ samples' = [k \in DOMAIN samples \cup {Here} |-> IF k = Here THEN s ELSE samples[k]]
      /\ left' = Tail(left) /\ try' = 0
      /\ world' = world /\ tables' = tables /\ progress' = progress
  BY Zenon DEF Sampled
<1>2. LeftInv /\ TablesInv /\ world \in Worlds /\ SampleSaysAll
  BY Zenon DEF ProfileInv
<1>3. Here = Spot(Column) /\ Here \notin DOMAIN samples
  BY NextColumn, Zenon
<1>4. DOMAIN samples' = DOMAIN samples \cup {Here}
  BY <1>1, Zenon
<1>5. samples'[Here] = s /\ \A k \in DOMAIN samples : samples'[k] = samples[k]
  BY <1>1, <1>3, Zenon
<1>6. LeftInv'
  <2>1. /\ left \in Seq(Cells(tables)) /\ left # <<>>
        /\ \A i, j \in DOMAIN left : Spot(left[i]) = Spot(left[j]) => i = j
        /\ \A i \in DOMAIN left : Spot(left[i]) \notin DOMAIN samples
    BY <1>2, Zenon DEF LeftInv
  <2>2. /\ Tail(left) \in Seq(Cells(tables))
        /\ 1 \in DOMAIN left /\ Column = left[1]
        /\ \A i \in DOMAIN Tail(left) : i + 1 \in DOMAIN left /\ i + 1 # 1 /\ Tail(left)[i] = left[i + 1]
        /\ \A i \in DOMAIN left : i # 1 => i - 1 \in DOMAIN Tail(left) /\ left[i] = Tail(left)[i - 1]
    BY <2>1 DEF Column
  <2>3. \A i, j \in DOMAIN Tail(left) : Spot(Tail(left)[i]) = Spot(Tail(left)[j]) => i = j
    <3>1. ASSUME NEW i \in DOMAIN Tail(left), NEW j \in DOMAIN Tail(left),
                 Spot(Tail(left)[i]) = Spot(Tail(left)[j])
          PROVE  i = j
      <4>0. /\ i + 1 \in DOMAIN left /\ j + 1 \in DOMAIN left
            /\ Tail(left)[i] = left[i + 1] /\ Tail(left)[j] = left[j + 1]
        BY <2>2, Zenon
      <4>1. i + 1 = j + 1
        BY <2>1, <3>1, <4>0, Zenon
      <4>2. i \in Nat /\ j \in Nat
        BY <2>1
      <4> QED
        BY <4>1, <4>2
    <3> QED
      BY <3>1, Zenon
  <2>4. \A i \in DOMAIN Tail(left) : Spot(Tail(left)[i]) \notin DOMAIN samples \cup {Here}
    <3>1. ASSUME NEW i \in DOMAIN Tail(left) PROVE Spot(Tail(left)[i]) \notin DOMAIN samples \cup {Here}
      <4>1. Spot(left[i + 1]) # Spot(left[1])
        BY <2>1, <2>2, Zenon
      <4> QED
        BY <1>3, <2>1, <2>2, <4>1, Zenon
    <3> QED
      BY <3>1, Zenon
  <2>5. \A cell \in Cells(tables) : Spot(cell) \in DOMAIN samples \cup {Here}
                                      \/ \E i \in DOMAIN Tail(left) : Tail(left)[i] = cell
    <3>1. ASSUME NEW cell \in Cells(tables), Spot(cell) \notin DOMAIN samples \cup {Here}
          PROVE  \E i \in DOMAIN Tail(left) : Tail(left)[i] = cell
      <4>1. PICK i \in DOMAIN left : left[i] = cell
        BY <1>2, <3>1, Zenon DEF LeftInv
      <4>2. i # 1
        BY <1>3, <2>2, <3>1, <4>1, Zenon
      <4> QED
        BY <2>2, <4>1, <4>2, Zenon
    <3> QED
      BY <3>1, Zenon
  <2>6. Cells(tables)' = Cells(tables) /\ \A cell : Spot(cell)' = Spot(cell)
    BY <1>1, Zenon DEF Cells, Spot
  <2>7. left' = Tail(left)
    BY <1>1, Zenon
  <2> QED
    BY <1>1, <1>4, <2>2, <2>3, <2>4, <2>5, <2>6, <2>7, Zenon DEF LeftInv, Cells, Spot
<1>7. TablesInv'
  <2>1. \A e : \A u : Element(e, u) => Element(e, u)'
    <3>1. faults > 0 => faults' > 0
      BY DEF ProfileInv
    <3> QED
      BY <1>1, <3>1, Zenon DEF Element
  <2>2. Found(world)' = Found(world) /\ progress' = "sampling"
    BY <1>1, Zenon
  <2>3. progress' # "introspecting"
    BY <2>2, Zenon
  <2>4. /\ \A e \in tables : \E u \in Found(world) : Element(e, u)
        /\ \/ Untold
           \/ \A u \in Found(world) : \E e \in tables : Element(e, u)
    BY <1>2, Zenon DEF TablesInv
  <2>5. Untold => Untold'
    <3>1. faults > 0 => faults' > 0
      BY DEF ProfileInv
    <3> QED
      BY <1>1, <3>1, Zenon DEF Untold
  <2> QED
    BY <1>1, <2>1, <2>2, <2>3, <2>4, <2>5, Zenon DEF TablesInv
<1>8. TryInv'
  BY <1>1, Zenon DEF TryInv
<1>9. SampleSaysAll'
  <2>1. \A key : Source(key)' = Source(key)
    BY <1>1, Zenon DEF Source
  <2>2. ASSUME NEW k \in DOMAIN samples', samples'[k].listed # {},
               NEW c \in ToSet(Source(k[1]).cols), c.name = k[2]
        PROVE  /\ samples'[k].listed \subseteq c.values \cup {Null}
               /\ \/ samples'[k].truncated \/ c.values \subseteq samples'[k].listed
                  \/ world.dialect = "mongodb" /\ c.null
    <3>1. CASE k = Here
      BY <1>5, <2>2, <3>1, Zenon DEF Truthful
    <3>2. CASE k # Here
      <4>1. k \in DOMAIN samples /\ samples'[k] = samples[k]
        BY <1>4, <1>5, <3>2, Zenon
      <4>2. c \in {d \in ToSet(Source(k[1]).cols) : d.name = k[2]}
        BY <2>2, Zenon
      <4> QED
        BY <1>2, <2>2, <4>1, <4>2, Zenon DEF SampleSaysAll
    <3> QED
      BY <3>1, <3>2, Zenon
  <2>3. world' = world
    BY <1>1, Zenon
  <2> QED
    BY <2>1, <2>2, <2>3, Zenon DEF SampleSaysAll
<1>10. SurvivesBadColumns' /\ progress' # "done" /\ progress' = "sampling"
  <2>1. progress' = "sampling"
    BY <1>1, Zenon
  <2>2. progress' # "failed" /\ progress' # "done"
    BY <2>1, Zenon
  <2> QED
    BY <2>1, <2>2, Zenon DEF SurvivesBadColumns
<1>11. world' \in Worlds /\ try' \in Nat
  BY <1>1, <1>2
<1>12. progress' \in {"introspecting", "sampling", "done", "failed"}
  BY <1>10, Zenon
<1> QED
  BY <1>6, <1>7, <1>8, <1>9, <1>10, <1>11, <1>12, Zenon DEF ProfileInv

\* A step that leaves the samples, and what waits, as they are.
LEMMA MadeStays ==
  world' = world /\ left' = left => Made' = Made /\ Behind' = Behind
BY Zenon DEF Made, Behind, Column

\* A step that stores no sample keeps it, as long as the query under way is one of those made.
LEMMA QuietStep ==
  ASSUME ProfileInv, UNCHANGED <<world, tables, samples, left>>,
         progress = "sampling", progress' \in {"sampling", "done", "failed"},
         progress' = "done" => left = <<>>,
         try' \in Nat, try' # 0 => left # <<>> /\ try' \in 1 .. Len(Made),
         faults' \in 0 .. MaxFaults, faults' >= faults,
         SurvivesBadColumns'
  PROVE  ProfileInv'
<1>1. world' = world /\ tables' = tables /\ samples' = samples /\ left' = left
  BY Zenon
<1>2. LeftInv /\ TablesInv /\ world \in Worlds /\ SampleSaysAll
  BY Zenon DEF ProfileInv
<1>3. LeftInv'
  BY <1>1, <1>2, Zenon DEF LeftInv, Cells, Spot
<1>4. TablesInv'
  <2>1. \A e : \A u : Element(e, u) => Element(e, u)'
    <3>1. faults > 0 => faults' > 0
      BY DEF ProfileInv
    <3> QED
      BY <1>1, <3>1, Zenon DEF Element
  <2>2. Found(world)' = Found(world) /\ progress' # "introspecting"
    <3>1. progress' = "sampling" \/ progress' = "done" \/ progress' = "failed"
      BY Zenon
    <3> QED
      BY <1>1, <3>1, Zenon
  <2>3. /\ \A e \in tables : \E u \in Found(world) : Element(e, u)
        /\ \/ Untold
           \/ \A u \in Found(world) : \E e \in tables : Element(e, u)
    BY <1>2, Zenon DEF TablesInv
  <2>5. Untold => Untold'
    <3>1. faults > 0 => faults' > 0
      BY DEF ProfileInv
    <3> QED
      BY <1>1, <3>1, Zenon DEF Untold
  <2> QED
    BY <1>1, <2>1, <2>2, <2>3, <2>5, Zenon DEF TablesInv
<1>5. TryInv'
  BY <1>1, MadeStays, Zenon DEF TryInv
<1>6. SampleSaysAll'
  BY <1>1, <1>2, Zenon DEF SampleSaysAll, Source
<1>7. world' \in Worlds
  BY <1>1, <1>2
<1>8. /\ progress' = "done" => left' = <<>>
      /\ progress' \in {"introspecting", "sampling", "done", "failed"}
  BY <1>1, Zenon
<1> QED
  BY <1>3, <1>4, <1>5, <1>6, <1>7, <1>8, Zenon DEF ProfileInv

\* The bounds are numbers.
LEMMA BoundsAreNumbers ==
  MaxFaults \in Nat /\ DistinctCap \in Nat /\ TermsCap \in Nat
BY EngineSchemaAssumption

\* Faults are counted up to their bound.
LEMMA FaultBounds ==
  ASSUME ProfileInv, UNCHANGED faults \/ (faults < MaxFaults /\ faults' = faults + 1)
  PROVE  faults' \in 0 .. MaxFaults /\ faults' >= faults
BY BoundsAreNumbers DEF ProfileInv

\* An empty sample says nothing of its column.
LEMMA EmptySaysNothing ==
  Truthful(Empty)
BY Zenon DEF Truthful, Empty

\* An introspection that fails leaves nothing.
LEMMA FailedIntrospection ==
  ProfileInv /\ IntrospectFails => ProfileInv'
<1> SUFFICES ASSUME ProfileInv, IntrospectFails PROVE ProfileInv'
  OBVIOUS
<1>1. /\ progress = "introspecting" /\ progress' = "failed"
      /\ world' = world /\ tables' = tables /\ samples' = samples /\ left' = left /\ try' = try
      /\ \/ (\E t \in Found(world) : Unreadable(world, t)) /\ UNCHANGED faults
         \/ faults < MaxFaults /\ faults' = faults + 1
  BY Zenon DEF IntrospectFails
<1>2. LeftInv /\ TablesInv /\ world \in Worlds /\ SampleSaysAll
  BY Zenon DEF ProfileInv
<1>3. tables = {} /\ try = 0
  BY <1>1, <1>2, Zenon DEF TablesInv
<1>4. faults' \in 0 .. MaxFaults
  BY <1>1, FaultBounds, Zenon
<1>5. LeftInv'
  BY <1>1, <1>2, Zenon DEF LeftInv, Cells, Spot
<1>6. TablesInv'
  <2>1. progress' # "introspecting" /\ progress' \notin {"sampling", "done"}
    BY <1>1, Zenon
  <2>2. tables' = {}
    BY <1>1, <1>3, Zenon
  <2> QED
    BY <2>1, <2>2, Zenon DEF TablesInv
<1>7. TryInv' /\ try' \in Nat
  BY <1>1, <1>3 DEF TryInv
<1>8. SampleSaysAll'
  BY <1>1, <1>2, Zenon DEF SampleSaysAll, Source
<1>9. SurvivesBadColumns'
  <2>1. CASE faults' = 0
    <3>1. faults \in Nat
      BY BoundsAreNumbers DEF ProfileInv
    <3>2. ~(faults' = faults + 1)
      BY <2>1, <3>1
    <3>3. \E t \in world.tables : Unreadable(world, t)
      BY <1>1, <3>2, Zenon DEF Found
    <3>4. (\E t \in world.tables : Unreadable(world, t))'
      BY <1>1, <3>3, Zenon
    <3> QED
      BY <2>1, <3>4, Zenon DEF SurvivesBadColumns
  <2>2. CASE faults' # 0
    BY <1>1, <1>3, <2>2, Zenon DEF SurvivesBadColumns
  <2> QED
    BY <2>1, <2>2, Zenon
<1>10. world' \in Worlds
  BY <1>1, <1>2
<1>11. progress' # "done" /\ progress' \in {"introspecting", "sampling", "done", "failed"}
  BY <1>1, Zenon
<1> QED
  BY <1>4, <1>5, <1>6, <1>7, <1>8, <1>9, <1>10, <1>11, Zenon DEF ProfileInv

\* An introspection that is denied leaves nothing to sample.
LEMMA DeniedStep ==
  ProfileInv /\ Denied => ProfileInv'
<1> SUFFICES ASSUME ProfileInv, Denied PROVE ProfileInv'
  OBVIOUS
<1>1. /\ progress = "introspecting" /\ progress' = "sampling" /\ world.dialect \in Denies
      /\ faults < MaxFaults /\ faults' = faults + 1
      /\ tables' = {} /\ left' = <<>>
      /\ world' = world /\ samples' = samples /\ try' = try
  BY Zenon DEF Denied
<1>2. TablesInv /\ world \in Worlds /\ SampleSaysAll
  BY Zenon DEF ProfileInv
<1>3. try = 0 /\ samples = <<>>
  BY <1>1, <1>2, Zenon DEF TablesInv
<1>4. faults' \in 0 .. MaxFaults /\ faults' > 0
  BY <1>1, BoundsAreNumbers DEF ProfileInv
<1>5. LeftInv'
  BY <1>1 DEF LeftInv, Cells
<1>6. TablesInv'
  <2>1. progress' # "introspecting" /\ Untold'
    BY <1>1, <1>4, Zenon DEF Untold
  <2> QED
    BY <1>1, <2>1, Zenon DEF TablesInv
<1>7. TryInv' /\ try' \in Nat
  BY <1>1, <1>3 DEF TryInv
<1>8. SampleSaysAll'
  BY <1>1, <1>2, Zenon DEF SampleSaysAll, Source
<1>9. /\ progress' # "done" /\ progress' \in {"introspecting", "sampling", "done", "failed"}
      /\ progress' # "failed" /\ world' \in Worlds
  BY <1>1, <1>2, Zenon
<1>10. SurvivesBadColumns'
  BY <1>9, Zenon DEF SurvivesBadColumns
<1> QED
  BY <1>4, <1>5, <1>6, <1>7, <1>8, <1>9, <1>10, Zenon DEF ProfileInv

\* A column whose sampling is left out gets the empty sample.
LEMMA SkipStep ==
  ProfileInv /\ Skip => ProfileInv'
<1> SUFFICES ASSUME ProfileInv, Skip PROVE ProfileInv'
  OBVIOUS
<1>1. progress = "sampling" /\ left # <<>> /\ Sampled(Empty) /\ UNCHANGED faults
  BY Zenon DEF Skip
<1>2. faults' \in 0 .. MaxFaults /\ faults' >= faults
  BY <1>1, FaultBounds, Zenon
<1> QED
  BY <1>1, <1>2, EmptySaysNothing, SampledStep, Zenon

\* So does a column no connection could be had for, where the sampler catches it.
LEMMA ConnectFailsStep ==
  ProfileInv /\ ConnectFails => ProfileInv'
<1> SUFFICES ASSUME ProfileInv, ConnectFails PROVE ProfileInv'
  OBVIOUS
<1>1. /\ progress = "sampling" /\ Connects(world.dialect) /\ try = 0
      /\ faults < MaxFaults /\ faults' = faults + 1
      /\ progress' = "failed" /\ UNCHANGED <<world, tables, samples, left, try>>
  BY Zenon DEF ConnectFails, Abort
<1>2. faults' \in 0 .. MaxFaults /\ faults' >= faults
  BY <1>1, FaultBounds, Zenon
<1>3. faults' # 0
  BY <1>1, BoundsAreNumbers DEF ProfileInv
<1>4. world'.dialect \in Counted \cup {"clickhouse"}
  BY <1>1, Zenon DEF Connects
<1>5. SurvivesBadColumns'
  BY <1>3, <1>4, Zenon DEF SurvivesBadColumns, Counted
<1>6. /\ progress' \in {"sampling", "done", "failed"} /\ progress' # "done"
      /\ try' \in Nat /\ try' = 0
  BY <1>1
<1> QED
  BY <1>1, <1>2, <1>5, <1>6, QuietStep, Zenon

\* The first query of a column begins.
LEMMA BeginStep ==
  ProfileInv /\ Begin => ProfileInv'
<1> SUFFICES ASSUME ProfileInv, Begin PROVE ProfileInv'
  OBVIOUS
<1>1. /\ progress = "sampling" /\ left # <<>> /\ Made # <<>> /\ try' = 1
      /\ UNCHANGED <<world, tables, samples, left, faults>> /\ progress' = progress
  BY Zenon DEF Begin, Skipped
<1>2. faults' \in 0 .. MaxFaults /\ faults' >= faults
  BY <1>1, FaultBounds, Zenon
<1>3. try' \in Nat /\ try' \in 1 .. Len(Made)
  <2>1. Made \in Seq({"count", "distinct", "stats", "some", "terms"})
    BY QueriesEnd, Zenon DEF Made
  <2> QED
    BY <1>1, <2>1
<1>4. /\ progress' \in {"sampling", "done", "failed"} /\ progress' # "done"
      /\ progress' # "failed"
  BY <1>1
<1>5. SurvivesBadColumns'
  BY <1>4, Zenon DEF SurvivesBadColumns
<1> QED
  BY <1>1, <1>2, <1>3, <1>4, <1>5, QuietStep, Zenon

\* The bundle is done when no column waits.
LEMMA FinishStep ==
  ProfileInv /\ Finish => ProfileInv'
<1> SUFFICES ASSUME ProfileInv, Finish PROVE ProfileInv'
  OBVIOUS
<1>1. /\ progress = "sampling" /\ left = <<>> /\ progress' = "done"
      /\ UNCHANGED <<world, tables, samples, left, try, faults>>
  BY Zenon DEF Finish
<1>2. faults' \in 0 .. MaxFaults /\ faults' >= faults
  BY <1>1, FaultBounds, Zenon
<1>3. try = 0
  BY <1>1, Zenon DEF ProfileInv, TryInv
<1>4. try' \in Nat /\ try' = 0
  BY <1>1, <1>3
<1>5. progress' \in {"sampling", "done", "failed"} /\ progress' # "failed"
  BY <1>1
<1>6. SurvivesBadColumns'
  BY <1>5, Zenon DEF SurvivesBadColumns
<1> QED
  BY <1>1, <1>2, <1>4, <1>5, <1>6, QuietStep, Zenon

\* What the query for distinct values returns is true of its column, whatever its statistics.
LEMMA ListIsTruthful ==
  ASSUME ProfileInv, left # <<>>, NEW s \in Distincts(world.dialect, Behind)
  PROVE  Truthful(s) /\ \A b : Truthful([s EXCEPT !.stats = b])
<1>2. PICK u \in Found(world) :
        /\ Source(Here[1]) = u
        /\ \A c \in ToSet(u.cols) : c.name = Here[2] =>
             /\ Behind.values = c.values /\ Behind.null = c.null
             /\ IsFiniteSet(c.values) /\ Null \notin c.values
  BY NextColumn, Zenon
<1>3. ASSUME NEW c \in ToSet(Source(Here[1]).cols), c.name = Here[2]
      PROVE  /\ s.listed \subseteq c.values \cup {Null}
             /\ s.truncated \/ c.values \subseteq s.listed \/ (world.dialect = "mongodb" /\ c.null)
             /\ \A b : /\ [s EXCEPT !.stats = b].listed = s.listed
                       /\ [s EXCEPT !.stats = b].truncated = s.truncated
  <2>1. /\ Behind.values = c.values /\ Behind.null = c.null
        /\ IsFiniteSet(Behind.values) /\ Null \notin Behind.values
    BY <1>2, <1>3, Zenon
  <2>2. /\ s.listed \subseteq Behind.values \cup {Null}
        /\ s.truncated \/ Behind.values \subseteq s.listed
             \/ (world.dialect = "mongodb" /\ Behind.null)
        /\ \A b : /\ [s EXCEPT !.stats = b].listed = s.listed
                  /\ [s EXCEPT !.stats = b].truncated = s.truncated
    BY <2>1, ListsWhole, Zenon
  <2> QED
    BY <2>1, <2>2, Zenon
<1>4. Truthful(s)
  BY <1>3, Zenon DEF Truthful
<1>5. ASSUME NEW b PROVE Truthful([s EXCEPT !.stats = b])
  <2> DEFINE r == [s EXCEPT !.stats = b]
  <2>1. ASSUME NEW c \in ToSet(Source(Here[1]).cols), c.name = Here[2]
        PROVE  /\ r.listed \subseteq c.values \cup {Null}
               /\ r.truncated \/ c.values \subseteq r.listed \/ (world.dialect = "mongodb" /\ c.null)
    <3>1. r.listed = s.listed /\ r.truncated = s.truncated
      BY <1>3, <2>1, Zenon
    <3> HIDE DEF r
    <3> QED
      BY <1>3, <2>1, <3>1, Zenon
  <2> HIDE DEF r
  <2>2. Truthful(r)
    BY <2>1, Zenon DEF Truthful
  <2> QED
    BY <2>2, Zenon DEF r
<1> QED
  BY <1>4, <1>5, Zenon

\* So is what Elasticsearch's aggregation returns.
LEMMA TermsAreTruthful ==
  ASSUME ProfileInv, left # <<>>, NEW s \in Terms(world.dialect, Behind)
  PROVE  Truthful(s)
<1>2. PICK u \in Found(world) :
        /\ Source(Here[1]) = u
        /\ \A c \in ToSet(u.cols) : c.name = Here[2] =>
             /\ Behind.values = c.values /\ Behind.null = c.null
             /\ IsFiniteSet(c.values) /\ Null \notin c.values
  BY NextColumn, Zenon
<1>3. ASSUME NEW c \in ToSet(Source(Here[1]).cols), c.name = Here[2]
      PROVE  /\ s.listed \subseteq c.values \cup {Null}
             /\ s.truncated \/ c.values \subseteq s.listed
  <2>1. /\ Behind.values = c.values
        /\ IsFiniteSet(Behind.values) /\ Null \notin Behind.values
    BY <1>2, <1>3, Zenon
  <2>2. /\ s.listed \subseteq Behind.values \cup {Null}
        /\ s.truncated \/ Behind.values \subseteq s.listed
    BY <2>1, TermsWhole, Zenon
  <2> QED
    BY <2>1, <2>2, Zenon
<1> QED
  BY <1>3, Zenon DEF Truthful

\* While a query is under way, it is one of those the column has.
LEMMA UnderWay ==
  ASSUME ProfileInv, try > 0
  PROVE  /\ left # <<>> /\ try \in 1 .. Len(Made) /\ Len(Made) \in 0 .. 4
         /\ Made[try] = "count" => try + 1 \in 1 .. Len(Made)
<1>1. left # <<>> /\ try \in 1 .. Len(Made)
  BY DEF ProfileInv, TryInv
<1>2. /\ Made \in Seq({"count", "distinct", "stats", "some", "terms"})
      /\ Len(Made) <= 4
      /\ \A i \in DOMAIN Made : Made[i] = "count" => i < Len(Made)
  BY QueriesEnd, Zenon DEF Made
<1>3. DOMAIN Made = 1 .. Len(Made) /\ Len(Made) \in Nat
  BY <1>2
<1>4. Made[try] = "count" => try < Len(Made)
  BY <1>1, <1>2, <1>3, Zenon
<1> DEFINE n == Len(Made)
<1>5. try \in 1 .. n /\ n \in Nat /\ n <= 4
  BY <1>1, <1>2, <1>3, Zenon
<1> HIDE DEF n
<1>6. n \in 0 .. 4 /\ (try < n => try + 1 \in 1 .. n)
  BY <1>5
<1> QED
  BY <1>1, <1>4, <1>6, Zenon DEF n

\* A query that answers starts the next one or stores the sample.
LEMMA QueryStep ==
  ProfileInv /\ Query => ProfileInv'
<1> SUFFICES ASSUME ProfileInv, Query PROVE ProfileInv'
  OBVIOUS
<1>1. progress = "sampling" /\ try > 0 /\ UNCHANGED faults
  BY Zenon DEF Query
<1>2. left # <<>>
  BY <1>1, UnderWay, Zenon
<1>3. faults' \in 0 .. MaxFaults /\ faults' >= faults
  BY <1>1, FaultBounds, Zenon
<1>4. CASE /\ Made[try] = "count" /\ try' = try + 1
           /\ UNCHANGED <<world, tables, samples, left, progress>>
  <2>1. try' \in 1 .. Len(Made)
    BY <1>1, <1>4, UnderWay, Zenon
  <2>2. try' \in Nat
    BY <1>1, <2>1, UnderWay
  <2>3. /\ progress' \in {"sampling", "done", "failed"} /\ progress' # "done"
        /\ progress' # "failed"
    BY <1>1, <1>4
  <2>4. SurvivesBadColumns'
    BY <2>3, Zenon DEF SurvivesBadColumns
  <2> QED
    BY <1>1, <1>2, <1>3, <1>4, <2>1, <2>2, <2>3, <2>4, QuietStep, Zenon
<1>5. CASE \E s : Sampled(s) /\ Truthful(s)
  BY <1>1, <1>2, <1>3, <1>5, SampledStep, Zenon
<1>6. \A s \in Distincts(world.dialect, Behind) : \A b : Truthful([s EXCEPT !.stats = b])
  BY <1>2, ListIsTruthful, Zenon
<1>7. \A s \in Terms(world.dialect, Behind) : Truthful(s)
  BY <1>2, TermsAreTruthful, Zenon
<1>8. Truthful([Empty EXCEPT !.stats = TRUE])
  BY Zenon DEF Truthful, Empty
<1>9. \A s \in SomeRows(Behind) : Truthful(s)
  BY Zenon DEF Truthful, SomeRows, Empty
<1>10. \/ /\ Made[try] = "count" /\ try' = try + 1
          /\ UNCHANGED <<world, tables, samples, left, progress>>
       \/ \E s \in Distincts(world.dialect, Behind) : \E b : Sampled([s EXCEPT !.stats = b])
       \/ \E s \in Terms(world.dialect, Behind) : Sampled(s)
       \/ Sampled([Empty EXCEPT !.stats = TRUE])
       \/ \E s \in SomeRows(Behind) : Sampled(s)
  BY Zenon DEF Query
<1> QED
  BY <1>4, <1>5, <1>6, <1>7, <1>8, <1>9, <1>10, Zenon

\* Statistics that fail cost the sample its statistics.
LEMMA StatsFailStep ==
  ProfileInv /\ StatsFail => ProfileInv'
<1> SUFFICES ASSUME ProfileInv, StatsFail PROVE ProfileInv'
  OBVIOUS
<1>1. /\ progress = "sampling" /\ try = 1
      /\ faults < MaxFaults /\ faults' = faults + 1
      /\ \E s \in Distincts(world.dialect, Behind) : Sampled(s)
  BY Zenon DEF StatsFail
<1>2. left # <<>>
  <2>1. try > 0
    BY <1>1
  <2> QED
    BY <2>1, UnderWay, Zenon
<1>3. faults' \in 0 .. MaxFaults /\ faults' >= faults
  BY <1>1, FaultBounds, Zenon
<1>4. PICK s : Sampled(s) /\ Truthful(s)
  BY <1>1, <1>2, ListIsTruthful, Zenon
<1> QED
  BY <1>1, <1>2, <1>3, <1>4, SampledStep, Zenon

\* Only the samplers of PostgreSQL and MySQL let a failed query out.
LEMMA OnlyTwoRaise ==
  ASSUME NEW d, NEW query, After(SamplerOf(d), query) = "raise"
  PROVE  d = "postgres" \/ d = "mysql"
BY DEF After, SamplerOf, Sampler, PostgresSample, SqliteSample, DuckdbSample,
       MysqlSample, MssqlSample, OracleSample, ClickhouseSample, MongoSample,
       ElasticsearchSample, NoSample

\* A query that fails ends the profile, empties the sample or is passed over, by the engine.
LEMMA QueryFailsStep ==
  ProfileInv /\ QueryFails => ProfileInv'
<1> SUFFICES ASSUME ProfileInv, QueryFails PROVE ProfileInv'
  OBVIOUS
<1>1. /\ progress = "sampling" /\ try > 0
      /\ \/ Impossible(world.dialect, Behind, Made[try]) /\ UNCHANGED faults
         \/ faults < MaxFaults /\ faults' = faults + 1
  BY Zenon DEF QueryFails
<1>2. left # <<>> /\ try \in 1 .. Len(Made) /\ Len(Made) \in 0 .. 4
  BY <1>1, UnderWay, Zenon
<1>3. faults' \in 0 .. MaxFaults /\ faults' >= faults
  BY <1>1, FaultBounds, Zenon
<1>4. CASE Sampled(Empty)
  BY <1>1, <1>2, <1>3, <1>4, EmptySaysNothing, SampledStep, Zenon
<1>5. CASE /\ try < Len(Made) /\ try' = try + 1
           /\ UNCHANGED <<world, tables, samples, left, progress>>
  <2>1. try' \in Nat /\ try' \in 1 .. Len(Made)
    BY <1>2, <1>5
  <2>2. /\ progress' \in {"sampling", "done", "failed"} /\ progress' # "done"
        /\ progress' # "failed"
    BY <1>1, <1>5
  <2>3. SurvivesBadColumns'
    BY <2>2, Zenon DEF SurvivesBadColumns
  <2> QED
    BY <1>1, <1>2, <1>3, <1>5, <2>1, <2>2, <2>3, QuietStep, Zenon
<1>6. CASE After(How, Made[try]) = "raise" /\ Abort
  <2>1. /\ progress' = "failed" /\ UNCHANGED <<world, tables, samples, left, try>>
    BY <1>6, Zenon DEF Abort
  <2>2. world.dialect = "postgres" \/ world.dialect = "mysql"
    BY <1>6, OnlyTwoRaise, Zenon DEF How
  <2>3. ASSUME faults' = 0 PROVE SurvivesBadColumns'
    <3>1. Impossible(world.dialect, Behind, Made[try])
      <4>1. faults \in Nat
        BY BoundsAreNumbers DEF ProfileInv
      <4>2. ~(faults' = faults + 1)
        BY <2>3, <4>1
      <4> QED
        BY <1>1, <4>2, Zenon
    <3>2. world.dialect = "postgres" /\ (Behind.type = "json" \/ Behind.type = "interval")
      BY <2>2, <3>1 DEF Impossible
    <3>3. PICK u \in Found(world) :
            Column[2] \in ColumnsFound(world, u) /\ Behind.type = Column[2].type
      BY <1>2, NextColumn, Zenon
    <3>4. Column[2] \in Told(u)
      BY <3>2, <3>3 DEF ColumnsFound
    <3>5. PICK c \in ToSet(u.cols) :
            Column[2] = [name |-> c.name, type |-> c.type, pk |-> c.name \in u.pk]
      BY <3>4, Zenon DEF Told
    <3>6. c.type = "json" \/ c.type = "interval"
      <4>1. Column[2].type = c.type
        BY <3>5, SMT
      <4> QED
        BY <3>2, <3>3, <4>1, Zenon
    <3>7. u \in world.tables /\ c.type \in {"json", "interval"}
      BY <3>6, Zenon DEF Found
    <3>8. \E t \in world.tables : \E x \in ToSet(t.cols) : x.type \in {"json", "interval"}
      BY <3>7, Zenon
    <3>9. (world.dialect = "postgres" /\ \E t \in world.tables : \E x \in ToSet(t.cols) :
             x.type \in {"json", "interval"})'
      BY <2>1, <3>2, <3>8, Zenon
    <3> QED
      BY <2>3, <3>9, Zenon DEF SurvivesBadColumns
  <2>4. ASSUME faults' # 0 PROVE SurvivesBadColumns'
    <3>1. world'.dialect \in Counted \cup {"clickhouse"}
      BY <2>1, <2>2, Zenon DEF Counted
    <3> QED
      BY <2>4, <3>1, Zenon DEF SurvivesBadColumns, Counted
  <2>5. /\ progress' \in {"sampling", "done", "failed"} /\ progress' # "done"
        /\ try' \in Nat /\ try' \in 1 .. Len(Made)
    BY <1>2, <2>1
  <2>6. SurvivesBadColumns'
    BY <2>3, <2>4, Zenon
  <2> QED
    BY <1>1, <1>2, <1>3, <2>1, <2>5, <2>6, QuietStep, Zenon
<1>7. \/ After(How, Made[try]) = "raise" /\ Abort
      \/ Sampled(Empty)
      \/ /\ try < Len(Made) /\ try' = try + 1
         /\ UNCHANGED <<world, tables, samples, left, progress>>
  BY Zenon DEF QueryFails
<1> QED
  BY <1>4, <1>5, <1>6, <1>7, Zenon

\* Nothing changes in a stuttering step.
LEMMA ProfileStutter ==
  ProfileInv /\ UNCHANGED schemaVars => ProfileInv'
<1> SUFFICES ASSUME ProfileInv, UNCHANGED schemaVars PROVE ProfileInv'
  OBVIOUS
<1>1. /\ world' = world /\ tables' = tables /\ samples' = samples /\ left' = left
      /\ try' = try /\ progress' = progress /\ faults' = faults
  BY Zenon DEF schemaVars
<1>2. LeftInv' /\ TryInv'
  BY <1>1, MadeStays, Zenon DEF ProfileInv, LeftInv, TryInv, Cells, Spot
<1>3. TablesInv'
  BY <1>1, Zenon DEF ProfileInv, TablesInv, Element, Untold
<1>4. SampleSaysAll'
  BY <1>1, Zenon DEF ProfileInv, SampleSaysAll, Source
<1>5. SurvivesBadColumns'
  BY <1>1, Zenon DEF ProfileInv, SurvivesBadColumns
<1> QED
  BY <1>1, <1>2, <1>3, <1>4, <1>5, Zenon DEF ProfileInv

\* Every reachable state of the profiling satisfies ProfileInv, for every set of
\* databases, every cap and any number of faults.
THEOREM ProfileInvariance ==
  SchemaSpec => []ProfileInv
<1>1. ProfileInv /\ [SchemaNext]_schemaVars => ProfileInv'
  BY IntrospectStep, FailedIntrospection, DeniedStep, KeysUnreadStep, SkipStep, ConnectFailsStep, BeginStep,
     QueryStep, StatsFailStep, QueryFailsStep, FinishStep, ProfileStutter, Zenon DEF SchemaNext
<1> QED
  BY <1>1, ProfileInit, PTL DEF SchemaSpec

\* The type invariant follows from ProfileInv.
LEMMA ProfileTyped ==
  ProfileInv => SchemaTypeOK
<1> SUFFICES ASSUME ProfileInv PROVE SchemaTypeOK
  OBVIOUS
<1>1. /\ progress \in {"introspecting", "sampling", "done", "failed"}
      /\ try \in Nat /\ faults \in 0 .. MaxFaults /\ TablesInv /\ LeftInv
  BY Zenon DEF ProfileInv
<1>2. try \in 0 .. 4
  <2>1. ASSUME try > 0
        PROVE  try \in 0 .. 4
    <3>1. try \in 1 .. Len(Made) /\ Len(Made) \in 0 .. 4
      BY <2>1, UnderWay, Zenon
    <3>2. \A n \in 0 .. 4 : \A k \in 1 .. n : k \in 0 .. 4
      OBVIOUS
    <3> QED
      BY <3>1, <3>2, Zenon
  <2>2. ASSUME ~(try > 0)
        PROVE  try \in 0 .. 4
    BY <1>1, <2>2
  <2> QED
    BY <2>1, <2>2, Zenon
<1>3. \A t \in tables : \E u \in world.tables : t.key = <<u.schema, u.name>>
  BY <1>1, Zenon DEF TablesInv, Element, Key, Found
<1>4. {<<c[1], c[2].name>> : c \in ToSet(left)} \cap DOMAIN samples = {}
  <2> SUFFICES ASSUME NEW c \in ToSet(left), <<c[1], c[2].name>> \in DOMAIN samples
               PROVE  FALSE
    OBVIOUS
  <2>1. PICK i \in DOMAIN left : left[i] = c
    BY Zenon DEF ToSet
  <2>2. Spot(left[i]) \in DOMAIN samples
    BY <2>1 DEF Spot
  <2> QED
    BY <1>1, <2>2, Zenon DEF LeftInv
<1> QED
  BY <1>1, <1>2, <1>3, <1>4, Zenon DEF SchemaTypeOK

\* Done is sampled: each column of each table in scope has its sample.
LEMMA ProfileWhole ==
  ProfileInv => WholeDatabase
<1> SUFFICES ASSUME ProfileInv, progress = "done",
                    ~(tables = {} /\ world.dialect \in Denies /\ faults > 0),
                    NEW t \in world.tables, InScope(world, t), ~t.internal,
                    t.kind = "view" => world.dialect = "duckdb",
                    NEW c \in ColumnsFound(world, t)
             PROVE  <<Key(t), c.name>> \in DOMAIN samples
  BY Zenon DEF WholeDatabase
<1>1. TablesInv /\ LeftInv /\ left = <<>>
  BY Zenon DEF ProfileInv
<1>2. t \in Found(world)
  <2>1. Listed(world, t)
    BY Zenon DEF Listed
  <2>2. ColumnsFound(world, t) # {}
    BY Zenon
  <2> QED
    BY <2>1, <2>2, Zenon DEF Found
<1>3. PICK e \in tables : Element(e, t)
  <2>1. progress \in {"sampling", "done"}
    BY Zenon
  <2> QED
    BY <1>1, <1>2, <2>1, Zenon DEF TablesInv, Untold
<1> DEFINE cell == <<Key(t), c>>
<1>4. cell \in Cells(tables)
  <2>1. e.key = Key(t) /\ e.cols = ColumnsFound(world, t)
    BY <1>3, Zenon DEF Element
  <2>2. cell \in {e.key} \X e.cols
    BY <2>1
  <2> HIDE DEF cell
  <2> QED
    BY <2>2, Zenon DEF Cells
<1>5. Spot(cell) = <<Key(t), c.name>>
  BY DEF Spot
<1>6. ~ \E i \in DOMAIN left : left[i] = cell
  <2>1. DOMAIN <<>> = {}
    OBVIOUS
  <2> QED
    BY <1>1, <2>1, Zenon
<1> HIDE DEF cell
<1>7. Spot(cell) \in DOMAIN samples \/ \E i \in DOMAIN left : left[i] = cell
  BY <1>1, <1>4, Zenon DEF LeftInv
<1>8. Spot(cell) \in DOMAIN samples
  BY <1>6, <1>7, Zenon
<1> QED
  BY <1>5, <1>8, Zenon

\* The keys of an element are those of the table it was taken from.
LEMMA ProfileKeys ==
  ProfileInv => KeysAsDeclared
<1> DEFINE AllIn(t) ==
             \A p \in Declared(Source(t.key)) :
               \/ p \in Split(t.fks)
               \/ world.dialect = "oracle" /\ p.to[1] # t.key[1]
               \/ world.dialect = "duckdb" /\ t.fks = {} /\ faults > 0
           NoMore(t) ==
             /\ Split(t.fks) \subseteq Declared(Source(t.key))
             /\ \A c \in t.cols : \A target \in TargetsOf(t.fks, c.name) :
                  [from |-> <<c.name>>, to |-> target[1], refs |-> <<target[2]>>]
                    \in Declared(Source(t.key))
<1> SUFFICES ASSUME ProfileInv, NEW t \in tables, world.dialect \in Counted
             PROVE  /\ (world.dialect = "postgres" => world.owner) => AllIn(t)
                    /\ Plain(world) => NoMore(t)
  BY Zenon DEF KeysAsDeclared
<1>1. world \in Worlds /\ TablesInv
  BY Zenon DEF ProfileInv
<1>2. PICK u \in Found(world) : Element(t, u)
  BY <1>1, Zenon DEF TablesInv
<1>3. u \in world.tables /\ t.key = Key(u)
  BY <1>2, Zenon DEF Found, Element
<1>4. Source(t.key) = u
  <2> DEFINE v == Source(t.key)
  <2>1. v \in world.tables /\ Key(v) = Key(u)
    BY <1>3, Zenon DEF Source
  <2> HIDE DEF v
  <2>2. v = u
    BY <1>1, <1>3, <2>1, WorldsAssumption, Zenon
  <2> QED
    BY <2>2, Zenon DEF v
<1>5. t.key[1] = u.schema
  BY <1>3 DEF Key
<1>6. CASE t.fks = KeysFound(world, u)
  <2>1. ASSUME world.dialect = "postgres" => world.owner PROVE AllIn(t)
    <3>1. \A p \in Declared(u) :
            p \in Split(KeysFound(world, u)) \/ (world.dialect = "oracle" /\ p.to[1] # u.schema)
      BY <1>1, <1>3, <2>1, KeysFoundAreAll, Zenon
    <3> QED
      BY <1>4, <1>5, <1>6, <3>1, Zenon
  <2>2. ASSUME Plain(world) PROVE NoMore(t)
    <3>1. /\ Split(KeysFound(world, u)) \subseteq Declared(u)
          /\ \A c : \A target \in TargetsOf(KeysFound(world, u), c) :
               [from |-> <<c>>, to |-> target[1], refs |-> <<target[2]>>] \in Declared(u)
      BY <1>1, <1>3, <2>2, KeysFoundAreDeclared, Zenon
    <3> QED
      BY <1>4, <1>6, <3>1, Zenon
  <2> QED
    BY <2>1, <2>2, Zenon
<1>7. CASE world.dialect = "duckdb" /\ faults > 0 /\ t.fks = {}
  <2>1. Split({}) = {} /\ \A c : TargetsOf({}, c) = {}
    BY Zenon DEF Split, TargetsOf
  <2> QED
    BY <1>7, <2>1, Zenon
<1> QED
  BY <1>2, <1>6, <1>7, Zenon DEF Element

\* A profile that is done has every base table in scope with a sample of each of its
\* columns; one query that fails ends it only in the engines and the steps that let it
\* (schema_profiler.profile over the thirteen engines).
THEOREM ProfilesAreSound ==
  SchemaSpec => []ProfileSound
<1>1. ProfileInv => ProfileSound
  BY ProfileTyped, ProfileWhole, Zenon DEF ProfileSound, ProfileInv
<1> QED
  BY <1>1, ProfileInvariance, PTL

\* The foreign keys of the bundle are those the database declares, pair by pair:
\* none is invented, and none is missing but Oracle's to another schema and those
\* DuckDB could not read (the introspections of engines/*.py).
THEOREM KeysAreAsDeclared ==
  SchemaSpec => []KeysAsDeclared
<1> QED
  BY ProfileKeys, ProfileInvariance, PTL

\* A list of distinct values that does not say it is truncated has every value of its
\* column, whatever was asked for on the way and whatever failed (sampling of
\* engines/*.py).
THEOREM SamplesSayAll ==
  SchemaSpec => []SampleSaysAll
<1>1. ProfileInv => SampleSaysAll
  BY Zenon DEF ProfileInv
<1> QED
  BY <1>1, ProfileInvariance, PTL
=============================================================================
