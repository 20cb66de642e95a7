-------------------------- MODULE ConnectionProfile --------------------------
(***************************************************************************)
(* The life of one WorkspaceConnection: the handlers of api/workspaces.py  *)
(* and the slash command of api/chat.py that create profile jobs, the      *)
(* Celery task that runs them (workers/profile_task.py), the daily drift   *)
(* check that rewrites the same schema bundle (workers/diff_task.py), and  *)
(* the crashes that can fall between their commits.                        *)
(*                                                                         *)
(* Connections share no row, so one of them is modelled.  A bundle is      *)
(* abstracted to the version of the customer's schema it was read from, 0  *)
(* standing for no row.  SQLAlchemy writes an assigned column only when it *)
(* differs from the value the session has loaded, so a request or a task   *)
(* that loaded the status it assigns writes nothing.                       *)
(***************************************************************************)
EXTENDS Integers, FiniteSets

CONSTANTS MaxJobs,     \* bound: profile jobs of the connection
          MaxVersion,  \* bound: versions of the customer's schema
          MaxWorkers,  \* bound: concurrency of the Celery worker
          Crashes      \* bound: processes that die before their next step

ASSUME ProfileAssumption ==
  /\ MaxJobs \in Nat \ {0}
  /\ MaxVersion \in Nat \ {0}
  /\ MaxWorkers \in Nat \ {0}
  /\ Crashes \in Nat

VARIABLES workers,  \* concurrency the deployment has chosen
          status,   \* workspace_connections.status
          bundle,   \* version in schema_bundles, 0 without a row
          schema,   \* version of the customer's database
          job,      \* profile_jobs.state by job
          handler,  \* progress of the request that created the job
          queue,    \* profile messages in Redis
          task,     \* progress of the Celery task of the job
          diff,     \* progress of the daily diff for this connection
          crashes   \* crashes so far

vars == <<workers, status, bundle, schema, job, handler, queue, task, diff, crashes>>

Jobs == 1 .. MaxJobs
Versions == 0 .. MaxVersion
Statuses == {"absent", "pending", "profiling", "ready", "error", "deleted"}
InProgress == {"pending", "profiling"}

Exists == status \notin {"absent", "deleted"}

\* Jobs are numbered in the order their requests arrive.
Fresh(j) == handler[j] = "idle" /\ \A i \in 1 .. (j - 1) : handler[i] # "idle"

Active(j) == task[j].at \notin {"idle", "done", "dead"}
Busy == Cardinality({j \in Jobs : Active(j)})
          + (IF diff.at = "idle" THEN 0 ELSE 1)

Init ==
  /\ workers \in 1 .. MaxWorkers
  /\ status = "absent"
  /\ bundle = 0
  /\ schema = 1
  /\ job = [j \in Jobs |-> "unused"]
  /\ handler = [j \in Jobs |-> "idle"]
  /\ queue = {}
  /\ task = [j \in Jobs |-> [at |-> "idle", seen |-> 0, read |-> "absent"]]
  /\ diff = [at |-> "idle", seen |-> 0]
  /\ crashes = 0

-----------------------------------------------------------------------------
(* Requests.  Each commits its rows and sends the message afterwards. *)

\* create_connection, and the upload of a data file.
CreateConnection(j) ==
  /\ status = "absent"
  /\ Fresh(j)
  /\ status' = "pending"
  /\ job' = [job EXCEPT ![j] = "queued"]
  /\ handler' = [handler EXCEPT ![j] = "committed"]
  /\ UNCHANGED <<workers, bundle, schema, queue, task, diff, crashes>>

\* refresh_connection loads the row ...
RefreshLoad(j) ==
  /\ Exists
  /\ Fresh(j)
  /\ handler' = [handler EXCEPT ![j] =
                   IF status = "profiling" THEN "reloading" ELSE "loading"]
  /\ UNCHANGED <<workers, status, bundle, schema, job, queue, task, diff, crashes>>

\* ... and commits the job and the status, unless the connection is gone.
RefreshConnection(j) ==
  /\ handler[j] \in {"loading", "reloading"}
  /\ \/ /\ Exists
        /\ status' = IF handler[j] = "loading" THEN "profiling" ELSE status
        /\ job' = [job EXCEPT ![j] = "queued"]
        /\ handler' = [handler EXCEPT ![j] = "committed"]
     \/ /\ ~Exists
        /\ handler' = [handler EXCEPT ![j] = "refused"]
        /\ UNCHANGED <<status, job>>
  /\ UNCHANGED <<workers, bundle, schema, queue, task, diff, crashes>>

Enqueue(j) ==
  /\ handler[j] = "committed"
  /\ handler' = [handler EXCEPT ![j] = "sent"]
  /\ queue' = queue \cup {j}
  /\ UNCHANGED <<workers, status, bundle, schema, job, task, diff, crashes>>

\* The /refresh-schema command commits a job and sends nothing.
SlashRefresh(j) ==
  /\ Exists
  /\ Fresh(j)
  /\ job' = [job EXCEPT ![j] = "queued"]
  /\ handler' = [handler EXCEPT ![j] = "slash"]
  /\ UNCHANGED <<workers, status, bundle, schema, queue, task, diff, crashes>>

\* The bundle and the jobs go with the connection; messages and tasks do not.
DeleteConnection ==
  /\ Exists
  /\ status' = "deleted"
  /\ bundle' = 0
  /\ job' = [j \in Jobs |-> IF job[j] = "unused" THEN "unused" ELSE "deleted"]
  /\ UNCHANGED <<workers, schema, handler, queue, task, diff, crashes>>

\* A process that dies, or a broker that refuses the message, after a commit.
HandlerCrash(j) ==
  /\ crashes < Crashes
  /\ handler[j] = "committed"
  /\ handler' = [handler EXCEPT ![j] = "crashed"]
  /\ crashes' = crashes + 1
  /\ UNCHANGED <<workers, status, bundle, schema, job, queue, task, diff>>

-----------------------------------------------------------------------------
(* The profile task *)

At(j, stage) == task' = [task EXCEPT ![j].at = stage]

\* Messages are acknowledged on receipt.  _mark_running skips a missing row.
StartProfile(j) ==
  /\ j \in queue
  /\ Busy < workers
  /\ queue' = queue \ {j}
  /\ job' = [job EXCEPT ![j] = IF @ = "queued" THEN "running" ELSE @]
  /\ At(j, "started")
  /\ UNCHANGED <<workers, status, bundle, schema, handler, diff, crashes>>

\* _load_connection and profile: a missing connection raises before anything is
\* loaded, and the customer's database may raise after.
Introspect(j) ==
  /\ task[j].at = "started"
  /\ task' = [task EXCEPT ![j] = [at   |-> IF Exists THEN "profiled" ELSE "failing",
                                  seen |-> schema,
                                  read |-> IF Exists THEN status ELSE "absent"]]
  /\ UNCHANGED <<workers, status, bundle, schema, job, handler, queue, diff, crashes>>
ProfileFails(j) ==
  /\ task[j].at = "profiled"
  /\ At(j, "failing")
  /\ UNCHANGED <<workers, status, bundle, schema, job, handler, queue, diff, crashes>>

\* _persist_bundle reads the row first, then inserts or updates it.
SelectBundle(j) ==
  /\ task[j].at = "profiled"
  /\ At(j, IF bundle = 0 THEN "inserting" ELSE "updating")
  /\ UNCHANGED <<workers, status, bundle, schema, job, handler, queue, diff, crashes>>

\* A row inserted or deleted meanwhile fails the flush, and so does a deleted
\* connection.  _mark_failed then raises as well, because nobody rolled the
\* session back, and the task ends with nothing recorded.
CommitBundle(j) ==
  LET conflict == ~Exists \/ (task[j].at = "inserting") # (bundle = 0)
  IN  /\ task[j].at \in {"inserting", "updating"}
      /\ bundle' = IF conflict THEN bundle ELSE task[j].seen
      /\ At(j, IF conflict THEN "dead" ELSE "persisted")
      /\ UNCHANGED <<workers, status, schema, job, handler, queue, diff, crashes>>

\* The session still holds the connection, so marking one that was deleted
\* updates no row, which raises, unless the status it holds is the new one.
Lost(j, new) == ~Exists /\ task[j].read \notin {"absent", new}

\* The commit that ends a task: the connection and the job, or neither.
Mark(j, new, jobState, stage) ==
  /\ status' = IF Exists /\ task[j].read # new THEN new ELSE status
  /\ job' = [job EXCEPT ![j] = IF @ = "deleted" \/ Lost(j, new) THEN @
                               ELSE jobState]
  /\ task' = [task EXCEPT ![j] = [at   |-> IF Lost(j, new) THEN "dead" ELSE stage,
                                  seen |-> @.seen,
                                  read |-> new]]
  /\ UNCHANGED <<workers, bundle, schema, handler, queue, diff, crashes>>

\* Mutant: the job and the connection are marked before the bundle is stored.
MarkSucceededEarly(j) ==
  /\ task[j].at \in {"profiled", "persisted"}
  /\ Mark(j, "ready", "succeeded",
          IF task[j].at = "profiled" THEN "profiled" ELSE "succeeded")

MarkSucceeded(j) ==
  /\ task[j].at = "persisted"
  /\ Mark(j, "ready", "succeeded", "succeeded")

\* run_index_connection.delay is inside the same try: when the broker refuses
\* it, the handler below marks the succeeded job as failed.
RequestIndex(j) ==
  /\ task[j].at = "succeeded"
  /\ \/ At(j, "done") /\ UNCHANGED crashes
     \/ At(j, "failing") /\ crashes < Crashes /\ crashes' = crashes + 1
  /\ UNCHANGED <<workers, status, bundle, schema, job, handler, queue, diff>>

\* Mutant: only the job is marked.
MarkFailedJobOnly(j) ==
  /\ task[j].at = "failing"
  /\ job' = [job EXCEPT ![j] = IF @ = "deleted" THEN @ ELSE "failed"]
  /\ At(j, "done")
  /\ UNCHANGED <<workers, status, bundle, schema, handler, queue, diff, crashes>>

MarkFailed(j) ==
  /\ task[j].at = "failing"
  /\ Mark(j, "error", "failed", "done")

\* The hard time limit, a restart, or a soft time limit that unwinds the event
\* loop: the message is gone and nothing is recorded.
TaskCrash(j) ==
  /\ crashes < Crashes
  /\ Active(j)
  /\ At(j, "dead")
  /\ crashes' = crashes + 1
  /\ UNCHANGED <<workers, status, bundle, schema, job, handler, queue, diff>>

-----------------------------------------------------------------------------
(* The daily diff, and the customer *)

Diff(stage, seen) == diff' = [at |-> stage, seen |-> seen]

\* Mutant: the sweep runs beside the worker instead of in it.
DiffListAnywhere ==
  /\ diff.at = "idle"
  /\ status = "ready"
  /\ Diff("listed", 0)
  /\ UNCHANGED <<workers, status, bundle, schema, job, handler, queue, task, crashes>>

\* The sweep lists ready connections once, and comes to this one later.
DiffList ==
  /\ diff.at = "idle"
  /\ status = "ready"
  /\ Busy < workers
  /\ Diff("listed", 0)
  /\ UNCHANGED <<workers, status, bundle, schema, job, handler, queue, task, crashes>>

\* A connection deleted meanwhile ends the check, and so does an exception.
DiffIntrospect ==
  /\ diff.at = "listed"
  /\ \/ Exists /\ Diff("introspected", schema)
     \/ Diff("idle", 0)
  /\ UNCHANGED <<workers, status, bundle, schema, job, handler, queue, task, crashes>>

\* The stored bundle is read after the customer's schema.
DiffCompare ==
  /\ diff.at = "introspected"
  /\ IF diff.seen # bundle THEN Diff("drifted", 0) ELSE Diff("idle", 0)
  /\ UNCHANGED <<workers, status, bundle, schema, job, handler, queue, task, crashes>>

\* The drifted schema is read a second time, with samples.
DiffResample ==
  /\ diff.at = "drifted"
  /\ \/ Diff("resampled", schema)
     \/ Diff("idle", 0)
  /\ UNCHANGED <<workers, status, bundle, schema, job, handler, queue, task, crashes>>

\* Neither the status nor the jobs are touched.  A conflict with a profile task
\* or a deletion is logged by the sweep.
DiffPersist ==
  /\ diff.at = "resampled"
  /\ bundle' = IF Exists THEN diff.seen ELSE bundle
  /\ Diff("idle", 0)
  /\ UNCHANGED <<workers, status, schema, job, handler, queue, task, crashes>>

AlterSchema ==
  /\ schema < MaxVersion
  /\ schema' = schema + 1
  /\ UNCHANGED <<workers, status, bundle, job, handler, queue, task, diff, crashes>>

-----------------------------------------------------------------------------

Request(j) == CreateConnection(j) \/ RefreshLoad(j) \/ SlashRefresh(j)

TaskStep(j) ==
  \/ StartProfile(j)
  \/ Introspect(j)
  \/ ProfileFails(j)
  \/ SelectBundle(j)
  \/ CommitBundle(j)
  \/ MarkSucceeded(j)
  \/ RequestIndex(j)
  \/ MarkFailed(j)

DiffStep == DiffIntrospect \/ DiffCompare \/ DiffResample \/ DiffPersist

Next ==
  \/ \E j \in Jobs :
       \/ Request(j)
       \/ RefreshConnection(j)
       \/ Enqueue(j)
       \/ HandlerCrash(j)
       \/ TaskStep(j)
       \/ TaskCrash(j)
  \/ DeleteConnection
  \/ DiffList
  \/ DiffStep
  \/ AlterSchema

Spec == Init /\ [][Next]_vars

\* A handler and a worker that are alive go on: every engine call has a timeout
\* and the task a time limit.  Users, beat and the customer owe nothing.
FairSpec ==
  /\ Spec
  /\ \A j \in Jobs :
       /\ WF_vars(RefreshConnection(j))
       /\ WF_vars(Enqueue(j))
       /\ SF_vars(TaskStep(j))
  /\ WF_vars(DiffStep)

-----------------------------------------------------------------------------
(* Properties *)

\* The type invariant: rows and processes keep to the states their readers know,
\* and a queued message belongs to a job whose request has sent it.
TypeOK ==
  /\ workers \in 1 .. MaxWorkers
  /\ status \in Statuses
  /\ bundle \in Versions
  /\ schema \in 1 .. MaxVersion
  /\ job \in [Jobs -> {"unused", "queued", "running", "succeeded", "failed",
                       "deleted"}]
  /\ handler \in [Jobs -> {"idle", "loading", "reloading", "committed", "sent",
                           "slash", "refused", "crashed"}]
  /\ queue \subseteq {j \in Jobs : handler[j] = "sent"}
  /\ task \in [Jobs -> [at : {"idle", "started", "profiled", "inserting",
                              "updating", "persisted", "succeeded", "failing",
                              "done", "dead"},
                        seen : Versions, read : Statuses]]
  /\ diff \in [at : {"idle", "listed", "introspected", "drifted", "resampled"},
              seen : Versions]
  /\ crashes \in 0 .. Crashes

\* schema_loader takes the first ready connection and then insists on a bundle:
\* a ready connection always has one, whatever refreshes, diffs and deletions
\* overlap and wherever a process dies.
ReadyHasBundle == status = "ready" => bundle # 0

\* A connection that shows as in progress has a job that is not finished: its
\* status is never left behind by the job that should have moved it on.
InProgressHasJob ==
  status \in InProgress =>
    \E j \in Jobs : job[j] \in {"queued", "running"}

\* A connection in error has a failed job that holds the reason.
ErrorHasJob == status = "error" => \E j \in Jobs : job[j] = "failed"

\* What the status of a connection says is true of its bundle and of its jobs.
StatusSound == TypeOK /\ ReadyHasBundle /\ InProgressHasJob /\ ErrorHasJob

\* With one worker process (README.md:112, --pool=solo) the agent's schema never
\* goes back to an older version, though the diff and the profile task read and
\* write the bundle in separate steps.
BundleMonotone ==
  [][workers = 1 /\ status' # "deleted" => bundle' >= bundle]_vars

\* Every profile that is asked for settles, as long as no process dies: not
\* when two jobs collide on the bundle's first insert, nor when a task assigns a
\* status it had already loaded and so writes nothing, is the connection left
\* in progress.
Settles ==
  status \in InProgress /\ crashes = 0 ~> status \notin InProgress \/ crashes > 0

-----------------------------------------------------------------------------
(* What the repository says and the code does not do *)

\* BACKEND_SURFACE.md:198-200: a new connection "lands as `pending`, profiles in
\* the background, eventually flips to `ready` (or `error`/`auth_error`)".  A
\* process that dies after a commit leaves it there: nothing sends the message
\* again, and the daily diff skips what is not ready.
EventuallyFlips == status \in InProgress ~> status \notin InProgress

\* BACKEND_SURFACE.md:560: /refresh-schema will "Enqueue a re-profile for the
\* current connection".  chat.py commits the job and never calls delay.
SlashRefreshRuns ==
  \A j \in Jobs : handler[j] = "slash" ~> job[j] # "queued"

\* index_task.py:6-9: indexing failures "don't poison the workspace".  A broker
\* that refuses the index message makes profile_task mark the connection it has
\* just made ready as failed.
IndexingDoesNotPoison ==
  [][\A j \in Jobs : job[j] = "succeeded" => job'[j] # "failed"]_vars
=============================================================================
