------------------------------- MODULE RagIndex -------------------------------
(***************************************************************************)
(* The schema chunks of one workspace in rag_chunks: the profile and diff  *)
(* tasks store a bundle and then ask for a reindex (workers/profile_task,  *)
(* workers/diff_task), and the index task (workers/index_task.py,          *)
(* services/rag/indexer.py) reads the bundle, compares it with the rows of *)
(* its connection, embeds what changed and writes one transaction.         *)
(*                                                                         *)
(* There is one chunk per table, and UNIQUE (workspace_id, kind,           *)
(* source_key) leaves one row per table name, whichever connection it      *)
(* belongs to: `index' is a function of the name.  The text of a chunk is  *)
(* abstracted to the version of its table, 0 standing for no such table.   *)
(* A row is identified by its name and the task that inserted it.          *)
(***************************************************************************)
EXTENDS Integers, FiniteSets

CONSTANTS Conns,       \* connections of the workspace
          Tables,      \* table names, schema.table
          Owned,       \* Owned[c]: the names connection c may have
          MaxVersion,  \* bound: versions of a table
          MaxTasks,    \* bound: bundles stored, each with its index task
          MaxRetries,  \* max_retries of index_task.py
          MaxWorkers,  \* bound: concurrency of the Celery worker
          Crashes      \* bound: processes that die between two commits

ASSUME IndexAssumption ==
  /\ Conns # {}
  /\ "nobody" \notin Conns
  /\ Owned \in [Conns -> SUBSET Tables]
  /\ MaxVersion \in Nat \ {0}
  /\ MaxTasks \in Nat \ {0}
  /\ MaxRetries \in Nat
  /\ MaxWorkers \in Nat \ {0}
  /\ Crashes \in Nat

VARIABLES workers, \* concurrency the deployment has chosen
          live,    \* connections that exist
          bundle,  \* schema_bundles, by connection
          index,   \* rag_chunks rows, by table name
          task,    \* index tasks
          crashes  \* crashes so far

vars == <<workers, live, bundle, index, task, crashes>>

Tasks == 1 .. MaxTasks
Versions == 0 .. MaxVersion
Bundles == [Tables -> Versions]
NoRow == [owner |-> "nobody", hash |-> 0, by |-> 0]
Row == [owner : Conns, hash : Versions \ {0}, by : Tasks]
Rows == {NoRow} \cup Row

Stages == {"idle", "stored", "queued", "loaded", "embedding", "writing",
           "committing", "done", "failed", "lost"}
TaskRecord == [at : Stages, conn : Conns, tries : 0 .. MaxRetries,
               saw : Bundles, rows : [Tables -> Rows], dirty : SUBSET Tables]

Empty == [k \in Tables |-> 0]
Bare == [k \in Tables |-> NoRow]
BundlesOf(c) ==
  {b \in Bundles : \A k \in Tables : b[k] # 0 => k \in Owned[c]} \ {Empty}

Fresh(t) == task[t].at = "idle" /\ \A u \in 1 .. (t - 1) : task[u].at # "idle"
\* A run of a task that is over leaves nothing but its row changes.
Ends(t, stage, tries) ==
  task' = [task EXCEPT ![t] = [at |-> stage, conn |-> @.conn, tries |-> tries,
                               saw |-> Empty, rows |-> Bare, dirty |-> {}]]
Busy == Cardinality({t \in Tasks :
          task[t].at \in {"loaded", "embedding", "writing", "committing"}})

Init ==
  /\ workers \in 1 .. MaxWorkers
  /\ live = Conns
  /\ bundle = [c \in Conns |-> Empty]
  /\ index = Bare
  /\ task = [t \in Tasks |-> [at |-> "idle", conn |-> CHOOSE c \in Conns : TRUE,
                              tries |-> 0, saw |-> Empty, rows |-> Bare,
                              dirty |-> {}]]
  /\ crashes = 0

-----------------------------------------------------------------------------
(* The tasks that ask for a reindex *)

\* profile_task and diff_task commit the bundle; a profile may find nothing new.
StoreBundle(t, c) ==
  /\ Fresh(t)
  /\ c \in live
  /\ \E b \in BundlesOf(c) : bundle' = [bundle EXCEPT ![c] = b]
  /\ task' = [task EXCEPT ![t].at = "stored", ![t].conn = c]
  /\ UNCHANGED <<workers, live, index, crashes>>

\* run_index_connection.delay comes after the commit.
RequestIndex(t) ==
  /\ task[t].at = "stored"
  /\ task' = [task EXCEPT ![t].at = "queued"]
  /\ UNCHANGED <<workers, live, bundle, index, crashes>>

\* A process that dies in between, or a broker that refuses the message; and an
\* index task that dies, its message acknowledged and its transaction rolled
\* back.
Crash(t) ==
  /\ crashes < Crashes
  /\ task[t].at \notin {"idle", "queued", "done", "failed", "lost"}
  /\ Ends(t, "lost", task[t].tries)
  /\ crashes' = crashes + 1
  /\ UNCHANGED <<workers, live, bundle, index>>

-----------------------------------------------------------------------------
(* The index task *)

\* reindex_connection: a connection that is gone leaves nothing to do.
LoadBundle(t) ==
  /\ task[t].at = "queued"
  /\ Busy < workers
  /\ IF task[t].conn \in live
     THEN task' = [task EXCEPT ![t].at = "loaded",
                               ![t].saw = bundle[task[t].conn]]
     ELSE task' = [task EXCEPT ![t].at = "done"]
  /\ UNCHANGED <<workers, live, bundle, index, crashes>>

\* Mutant: the rows of the whole workspace are compared.
LoadExistingUnscoped(t) ==
  /\ task[t].at = "loaded"
  /\ task' = [task EXCEPT ![t].at = "embedding", ![t].rows = index]
  /\ UNCHANGED <<workers, live, bundle, index, crashes>>

\* _load_existing: the rows of this connection.
LoadExisting(t) ==
  /\ task[t].at = "loaded"
  /\ task' = [task EXCEPT ![t].at = "embedding",
                ![t].rows = [k \in Tables |->
                   IF index[k].owner = task[t].conn THEN index[k] ELSE NoRow]]
  /\ UNCHANGED <<workers, live, bundle, index, crashes>>

\* What the comparison leaves to do, by name.
Inserts(t) == {k \in Tables : task[t].saw[k] # 0 /\ task[t].rows[k] = NoRow}
Updates(t) == {k \in Tables : /\ task[t].saw[k] # 0
                              /\ task[t].rows[k] # NoRow
                              /\ task[t].rows[k].hash # task[t].saw[k]}

Embed(t) ==
  /\ task[t].at = "embedding"
  /\ task' = [task EXCEPT ![t].at = "writing"]
  /\ UNCHANGED <<workers, live, bundle, index, crashes>>

\* Mutant: the attempts are not counted.
TritonFailsUncounted(t) ==
  /\ task[t].at = "embedding"
  /\ Inserts(t) \cup Updates(t) # {}
  /\ Ends(t, "queued", task[t].tries)
  /\ UNCHANGED <<workers, live, bundle, index, crashes>>

\* autoretry_for TritonUnavailable sends the message again, five times at most.
\* Nothing to embed needs no server.
TritonFails(t) ==
  /\ task[t].at = "embedding"
  /\ Inserts(t) \cup Updates(t) # {}
  /\ IF task[t].tries < MaxRetries
     THEN Ends(t, "queued", task[t].tries + 1)
     ELSE Ends(t, "failed", task[t].tries)
  /\ UNCHANGED <<workers, live, bundle, index, crashes>>

\* An UPDATE goes by id and misses a row that was deleted or replaced meanwhile.
Updated(t, k) == k \in Updates(t) /\ index[k].by = task[t].rows[k].by
\* Mutant: _delete_orphans finds nothing to prune.
OrphanKept(t, k) == FALSE
Orphan(t, k) == index[k].owner = task[t].conn /\ task[t].saw[k] = 0

\* The rows as the INSERTs, the UPDATEs and _delete_orphans leave them.
Written(t) ==
  [k \in Tables |->
     CASE k \in Inserts(t) ->
            [owner |-> task[t].conn, hash |-> task[t].saw[k], by |-> t]
       [] k \notin Inserts(t) /\ Updated(t, k) ->
            [index[k] EXCEPT !.hash = task[t].saw[k]]
       [] OTHER -> IF Orphan(t, k) THEN NoRow ELSE index[k]]
Touched(t) == {k \in Tables : Written(t)[k] # index[k]}

\* A name that is taken, and a connection that is gone, fail an INSERT.
Conflict(t) ==
  /\ Inserts(t) # {}
  /\ \/ \E k \in Inserts(t) : index[k] # NoRow
     \/ task[t].conn \notin live

\* Mutant: rag_chunks without its foreign key to the connection.
WriteNoForeignKey(t) ==
  /\ task[t].at = "writing"
  /\ \A u \in Tasks : Touched(t) \cap task[u].dirty = {}
  /\ IF \E k \in Inserts(t) : index[k] # NoRow
     THEN Ends(t, "failed", task[t].tries)
     ELSE task' = [task EXCEPT ![t].at = "committing", ![t].rows = Written(t),
                               ![t].dirty = Touched(t)]
  /\ UNCHANGED <<workers, live, bundle, index, crashes>>

\* The statements run in one transaction.  They wait for the rows another has
\* written and not committed, and an error rolls everything back.
Write(t) ==
  /\ task[t].at = "writing"
  /\ \A u \in Tasks : Touched(t) \cap task[u].dirty = {}
  /\ IF Conflict(t)
     THEN Ends(t, "failed", task[t].tries)
     ELSE task' = [task EXCEPT ![t].at = "committing", ![t].rows = Written(t),
                               ![t].dirty = Touched(t)]
  /\ UNCHANGED <<workers, live, bundle, index, crashes>>

Commit(t) ==
  /\ task[t].at = "committing"
  /\ index' = [k \in Tables |->
                 IF k \in task[t].dirty THEN task[t].rows[k] ELSE index[k]]
  /\ Ends(t, "done", task[t].tries)
  /\ UNCHANGED <<workers, live, bundle, crashes>>

-----------------------------------------------------------------------------

\* The bundle and the rows go in the same transaction (ON DELETE CASCADE), which
\* waits for one that has written rows of the connection.
DeleteConnection(c) ==
  /\ c \in live
  /\ \A u \in Tasks : task[u].at = "committing" => task[u].conn # c
  /\ live' = live \ {c}
  /\ bundle' = [bundle EXCEPT ![c] = Empty]
  /\ index' = [k \in Tables |-> IF index[k].owner = c THEN NoRow ELSE index[k]]
  /\ UNCHANGED <<workers, task, crashes>>

IndexStep(t) ==
  \/ RequestIndex(t)
  \/ LoadBundle(t)
  \/ LoadExisting(t)
  \/ Embed(t)
  \/ TritonFails(t)
  \/ Write(t)
  \/ Commit(t)

Next ==
  \/ \E t \in Tasks : IndexStep(t) \/ Crash(t)
  \/ \E t \in Tasks, c \in Conns : StoreBundle(t, c)
  \/ \E c \in Conns : DeleteConnection(c)

Spec == Init /\ [][Next]_vars

\* A worker that is alive goes on with its task and takes the messages in turn;
\* embedding has a client timeout.  Whether Triton answers is left open.
FairSpec == Spec /\ \A t \in Tasks : SF_vars(IndexStep(t))

-----------------------------------------------------------------------------
(* Properties *)

\* The type invariant: a table name has at most one row, and a task holds locks
\* only while its transaction is open.
TypeOK ==
  /\ workers \in 1 .. MaxWorkers
  /\ live \subseteq Conns
  /\ bundle \in [Conns -> Bundles]
  /\ index \in [Tables -> Rows]
  /\ task \in [Tasks -> TaskRecord]
  /\ \A t \in Tasks : task[t].dirty # {} => task[t].at = "committing"
  /\ crashes \in 0 .. Crashes

\* The retriever never meets a chunk of a connection that was deleted, though an
\* index task may be anywhere in its pipeline when the deletion commits.
OwnersLive == \A k \in Tables : index[k] # NoRow => index[k].owner \in live

\* Both together, at every commit of every task and deletion.
IndexSound == TypeOK /\ OwnersLive

\* indexer.py:281-282: connections "don't clobber each other".  A task changes or
\* removes only rows of its own connection, and gives it only free names.
OwnerKept ==
  [][\A k \in Tables :
       index[k] # NoRow /\ index'[k] # index[k] =>
         \/ index[k].owner \notin live'
         \/ \E t \in Tasks : /\ task[t].at = "committing" /\ task'[t].at = "done"
                             /\ task[t].conn = index[k].owner
                             /\ index'[k].owner \in {index[k].owner, "nobody"}]_vars

\* The index of a connection is its bundle whenever no task of it is under way,
\* provided none of them failed: what a task inserts, updates and prunes adds up.
Settled(c) ==
  \A t \in Tasks : task[t].conn = c => task[t].at \in {"idle", "done"}
IndexIsBundle(c) ==
  \A k \in Tables : IF bundle[c][k] = 0
                    THEN index[k].owner # c
                    ELSE index[k].owner = c /\ index[k].hash = bundle[c][k]

\* It is so with one worker process (README.md:112, --pool=solo), where the index
\* tasks of a connection run one after the other.
IndexFollowsBundle ==
  workers = 1 => \A c \in live : Settled(c) => IndexIsBundle(c)

\* Every reindex that is asked for ends, however often Triton fails and however
\* tasks wait for each other's rows.
IndexEnds ==
  \A t \in Tasks :
    task[t].at = "stored" ~> task[t].at \in {"done", "failed", "lost"}

-----------------------------------------------------------------------------
(* What the repository says and the code does not do *)

\* indexer.py:281-282: the reindex "narrows by connection_id so two connections
\* in the same workspace don't clobber each other".  The unique key does not
\* have the connection, so a name both of them have fails the second one's task.
ConnectionsIndexApart ==
  \A t \in Tasks :
    task[t].at = "failed" /\ task[t].conn \in live => task[t].tries = MaxRetries

\* celery_app.py:37-39: "If a workspace's schema actually changed, the diff task
\* re-profiles + enqueues a RAG re-index".  Two index tasks of one connection
\* may overlap, and the one with the older bundle may write last.
DriftReachesIndex == \A c \in live : Settled(c) => IndexIsBundle(c)
=============================================================================
