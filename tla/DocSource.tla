------------------------------ MODULE DocSource ------------------------------
(***************************************************************************)
(* Document sources: the API (api/doc_sources.py), the harvest task and    *)
(* the daily recrawl (workers/harvest_task.py), the transaction that wipes *)
(* and reloads a source's chunks (reindex_harvested_source), and the file  *)
(* watcher that asks for harvests.                                         *)
(*                                                                         *)
(* The contents of a folder are a version; Contents[v] are the names of    *)
(* the files of version v.  A row of rag_chunks stands for the chunks of   *)
(* one file; it is identified by the file and the run that inserted it.    *)
(* A run slot holds one message and the harvest it becomes, and is free    *)
(* again when the harvest is over.                                         *)
(***************************************************************************)
EXTENDS FileWatcher

CONSTANTS Names,      \* names of files
          Contents,   \* Contents[v]: the files with text in a folder at version v
          Workspaces, \* workspaces
          WorkspaceOf,\* the workspace of each source
          MaxRuns,    \* bound: messages and harvests at a time
          MaxRetries, \* max_retries of run_harvest_doc_source
          MaxWorkers, \* bound: concurrency of the Celery worker
          Faults      \* bound: processes that die, messages that are lost, and crawls
                      \* that leave out a file they cannot read

ASSUME DocSourceAssumption ==
  /\ DOMAIN Contents \subseteq Nat
  /\ 1 \in DOMAIN Contents
  /\ \A v \in DOMAIN Contents : Contents[v] \subseteq Names
  /\ IsFiniteSet(Names)
  /\ WorkspaceOf \in [Sources -> Workspaces]
  /\ MaxRuns \in Nat \ {0}
  /\ MaxRetries \in Nat
  /\ MaxWorkers \in Nat \ {0}
  /\ Faults \in Nat

VARIABLES workers, \* concurrency the deployment has chosen
          src,     \* doc_sources rows: status and doc_count
          folder,  \* the version of each folder
          rows,    \* committed chunks of each source
          run,     \* messages and harvests
          crashes, \* crashes so far
          skips,   \* crawls so far that have left out a file
          unread   \* history: watched sources that went since a reload read the sources

docVars == <<workers, src, folder, rows, run, crashes, skips, unread>>
vars == <<watcherVars, docVars>>

Runs == 1 .. MaxRuns
Versions == DOMAIN Contents
\* A source is deleted by a request, or dropped with its workspace.
Gone == {"deleted", "dropped"}
Statuses == {"unborn", "idle", "harvesting", "ready", "error"} \cup Gone
Row == [name : Names, version : Versions, by : Runs]
Stages == {"free", "queued", "marked", "crawled", "waiting",
           "wiped", "stored", "failing", "retrying"}

Exists(s) == src[s].status \notin Gone \cup {"unborn"}
Active == {s \in Sources : Exists(s) /\ src[s].status # "error"}
FreeRun(t) == run[t].at = "free" /\ \A u \in 1 .. (t - 1) : run[u].at # "free"
Busy == Cardinality({t \in Runs :
          run[t].at \notin {"free", "queued"}})

Moves(t, stage) == run' = [run EXCEPT ![t].at = stage]
Idle(s) ==
  [at |-> "free", source |-> s, tries |-> 0, saw |-> 1, got |-> {}, victims |-> {}]
Frees(t) == run' = [run EXCEPT ![t] = Idle(@.source)]
\* What it has read is forgotten, and its transaction is rolled back.
Aborts(t, stage) ==
  run' = [run EXCEPT ![t] = [Idle(@.source) EXCEPT !.at = stage, !.tries = run[t].tries]]
Enqueues(t, s) ==
  /\ FreeRun(t)
  /\ run' = [run EXCEPT ![t] = [Idle(s) EXCEPT !.at = "queued"]]

\* A message that is never sent.
Lost ==
  /\ crashes + skips < Faults
  /\ crashes' = crashes + 1
  /\ UNCHANGED run

Init ==
  /\ WatcherInit
  /\ workers \in 1 .. MaxWorkers
  /\ src = [s \in Sources |-> [status |-> "unborn", docs |-> 0]]
  /\ folder = [s \in Sources |-> 1]
  /\ rows = [s \in Sources |-> {}]
  /\ run = [t \in Runs |-> Idle(CHOOSE s \in Sources : TRUE)]
  /\ crashes = 0
  /\ skips = 0
  /\ unread = {}

-----------------------------------------------------------------------------
(* The API *)

CreateSource(s, r) ==
  /\ src[s].status = "unborn"
  /\ src' = [src EXCEPT ![s].status = "idle"]
  /\ BeginReload(r)
  /\ UNCHANGED <<watched, timer, stray, workers, folder, rows, run, crashes, skips, unread>>

Unread(gone) ==
  unread' = unread \cup (gone \cap (watched \cup UNION {reload[r].wanted : r \in Reloads}))

\* The chunks and the row go in one transaction; a harvest that has not
\* committed is not seen.
DeleteSource(s, r) ==
  /\ Exists(s)
  /\ src' = [src EXCEPT ![s] = [status |-> "deleted", docs |-> 0]]
  /\ rows' = [rows EXCEPT ![s] = {}]
  /\ Unread({s})
  /\ BeginReload(r)
  /\ UNCHANGED <<watched, timer, stray, workers, folder, run, crashes, skips>>

\* delete_workspace: the foreign keys take its sources, and every chunk of it; the
\* watcher is not told.
DeleteWorkspace(w) ==
  /\ \E s \in Sources : WorkspaceOf[s] = w /\ src[s].status # "dropped"
  /\ src' = [s \in Sources |-> IF WorkspaceOf[s] = w
                               THEN [status |-> "dropped", docs |-> 0] ELSE src[s]]
  /\ rows' = [s \in Sources |-> IF WorkspaceOf[s] = w THEN {} ELSE rows[s]]
  /\ Unread({s \in Sources : WorkspaceOf[s] = w})
  /\ UNCHANGED <<watcherVars, workers, folder, run, crashes, skips>>

\* crawl_doc_source commits the status and then sends the message; the process may
\* die, or the broker refuse, in between.
CrawlNow(s) ==
  /\ Exists(s)
  /\ src' = [src EXCEPT ![s].status = "harvesting"]
  /\ \/ /\ \E t \in Runs : Enqueues(t, s)
        /\ UNCHANGED crashes
     \/ Lost
  /\ UNCHANGED <<watcherVars, workers, folder, rows, skips, unread>>

-----------------------------------------------------------------------------
(* One harvest *)

\* _harvest_async: a source that is gone leaves nothing to do.
StartHarvest(t) ==
  /\ run[t].at = "queued"
  /\ Busy < workers
  /\ IF Exists(run[t].source)
     THEN /\ src' = [src EXCEPT ![run[t].source].status = "harvesting"]
          /\ Moves(t, "marked")
     ELSE Frees(t) /\ UNCHANGED src
  /\ UNCHANGED <<watcherVars, workers, folder, rows, crashes, skips, unread>>

\* The files are read and extracted before the transaction begins.  What cannot be
\* listed, read or extracted is left out: a few files, or all of them.
Crawl(t) ==
  /\ run[t].at = "marked"
  /\ \E got \in SUBSET Contents[folder[run[t].source]] :
       /\ skips' = IF got = Contents[folder[run[t].source]] THEN skips ELSE skips + 1
       /\ crashes + skips' <= Faults
       /\ run' = [run EXCEPT ![t].at = "crawled", ![t].got = got,
                             ![t].saw = folder[run[t].source]]
  /\ UNCHANGED <<watcherVars, workers, src, folder, rows, crashes, unread>>

CrawlFails(t) ==
  /\ run[t].at = "marked"
  /\ Aborts(t, "failing")
  /\ UNCHANGED <<watcherVars, workers, src, folder, rows, crashes, skips, unread>>

Files(t) == run[t].got
\* Mutant: only the files that are still there are replaced.
VictimsSeen(t) == {x \in rows[run[t].source] : x.name \in Files(t)}
\* The DELETE takes every chunk of the source that is committed when it starts.
Victims(t) == rows[run[t].source]

\* Mutant: the DELETE is committed before the files are embedded.
WipeCommits(t) ==
  /\ run[t].at = "crawled"
  /\ run' = [run EXCEPT ![t].at = "waiting", ![t].victims = Victims(t)]
  /\ rows' = [rows EXCEPT ![run[t].source] = @ \ Victims(t)]
  /\ UNCHANGED <<watcherVars, workers, src, folder, crashes, skips, unread>>

Wipe(t) ==
  /\ run[t].at = "crawled"
  /\ run' = [run EXCEPT ![t].at = "waiting", ![t].victims = Victims(t)]
  /\ UNCHANGED <<watcherVars, workers, src, folder, rows, crashes, skips, unread>>

\* It waits for a transaction that has deleted one of its rows.
Locks(t) ==
  /\ run[t].at = "waiting"
  /\ \A u \in Runs : run[u].at = "wiped" => run[u].victims \cap run[t].victims = {}
  /\ Moves(t, "wiped")
  /\ UNCHANGED <<watcherVars, workers, src, folder, rows, crashes, skips, unread>>

\* A crawl that has read nothing commits at once and embeds nothing.
EmbedFails(t) ==
  /\ run[t].at = "wiped"
  /\ Files(t) # {}
  /\ \E stage \in {"retrying", "failing"} : Aborts(t, stage)
  /\ UNCHANGED <<watcherVars, workers, src, folder, rows, crashes, skips, unread>>

\* Chunks another run has inserted since the DELETE keep their keys.
Survivors(t) == rows[run[t].source] \ run[t].victims
NewRows(t) == {[name |-> n, version |-> run[t].saw, by |-> t] : n \in Files(t)}
\* The insert fails on one of them, or if the workspace is gone.
Refused(t) ==
  \/ \E x \in Survivors(t) : x.name \in Files(t)
  \/ Files(t) # {} /\ src[run[t].source].status = "dropped"
Store(t) ==
  /\ run[t].at = "wiped"
  /\ IF Refused(t)
     THEN Aborts(t, "failing") /\ UNCHANGED rows
     ELSE /\ rows' = [rows EXCEPT ![run[t].source] = Survivors(t) \cup NewRows(t)]
          /\ run' = [run EXCEPT ![t].at = "stored", ![t].victims = {}]
  /\ UNCHANGED <<watcherVars, workers, src, folder, crashes, skips, unread>>

MarkReady(t) ==
  /\ run[t].at = "stored"
  /\ src' = [src EXCEPT ![run[t].source] =
               IF Exists(run[t].source)
               THEN [status |-> "ready", docs |-> Cardinality(Files(t))] ELSE @]
  /\ Frees(t)
  /\ UNCHANGED <<watcherVars, workers, folder, rows, crashes, skips, unread>>

\* autoretry_for TritonUnavailable; any other failure ends the task.
Ends(t) ==
  IF run[t].at = "retrying" /\ run[t].tries < MaxRetries
  THEN run' = [run EXCEPT ![t] = [Idle(@.source) EXCEPT !.at = "queued",
                                                        !.tries = run[t].tries + 1]]
  ELSE Frees(t)

\* Mutant: the handler of TritonUnavailable raises without marking the source.
MarkErrorNotOnRetry(t) ==
  /\ run[t].at \in {"failing", "retrying"}
  /\ src' = [src EXCEPT ![run[t].source] =
               IF Exists(run[t].source) /\ run[t].at = "failing"
               THEN [@ EXCEPT !.status = "error"] ELSE @]
  /\ Ends(t)
  /\ UNCHANGED <<watcherVars, workers, folder, rows, crashes, skips, unread>>

MarkError(t) ==
  /\ run[t].at \in {"failing", "retrying"}
  /\ src' = [src EXCEPT ![run[t].source] =
               IF Exists(run[t].source) THEN [@ EXCEPT !.status = "error"] ELSE @]
  /\ Ends(t)
  /\ UNCHANGED <<watcherVars, workers, folder, rows, crashes, skips, unread>>

\* A worker dies or reaches its time limit: the message was acknowledged on receipt.
Crash(t) ==
  /\ crashes + skips < Faults
  /\ run[t].at \notin {"free", "queued"}
  /\ Frees(t)
  /\ crashes' = crashes + 1
  /\ UNCHANGED <<watcherVars, workers, src, folder, rows, skips, unread>>

HarvestStep(t) ==
  \/ StartHarvest(t)
  \/ Crawl(t)
  \/ CrawlFails(t)
  \/ Wipe(t)
  \/ Locks(t)
  \/ EmbedFails(t)
  \/ Store(t)
  \/ MarkReady(t)
  \/ MarkError(t)

-----------------------------------------------------------------------------
(* The daily recrawl *)

\* Mutant: only sources that are ready are crawled again.
RecrawledReady(s) == src[s].status = "ready"
\* Sources that are being harvested are skipped.
Recrawled(s) == Exists(s) /\ src[s].status # "harvesting"

\* The sources are listed and their messages sent at once.
Recrawl(s) ==
  /\ Recrawled(s)
  /\ \E t \in Runs : Enqueues(t, s)
  /\ UNCHANGED <<watcherVars, workers, src, folder, rows, crashes, skips, unread>>

-----------------------------------------------------------------------------
(* The folder and its watcher *)

\* A file is created, changed or moved.
FolderChanges(s) ==
  /\ folder[s] + 1 \in Versions
  /\ folder' = [folder EXCEPT ![s] = @ + 1]
  /\ Event(s)
  /\ UNCHANGED <<watched, stray, reload, workers, src, rows, run, crashes, skips, unread>>

\* _fire: an enqueue that raises is logged.
Sends(s) ==
  \/ /\ \E t \in Runs : Enqueues(t, s)
     /\ UNCHANGED crashes
  \/ Lost

Fire(s) ==
  /\ FireSends(s)
  /\ Sends(s)
  /\ UNCHANGED <<workers, src, folder, rows, skips, unread>>

StrayFire(s) ==
  /\ StrayFireSends(s)
  /\ Sends(s)
  /\ UNCHANGED <<workers, src, folder, rows, skips, unread>>

Reload(r) ==
  /\ \/ ReloadReads(r, Active) /\ unread' = {}
     \/ (ReloadFails(r) \/ ReloadApplies(r)) /\ UNCHANGED unread
  /\ UNCHANGED <<workers, src, folder, rows, run, crashes, skips>>

Thread(s) ==
  /\ TimerExpires(s) \/ ThreadEnds(s)
  /\ UNCHANGED docVars

\* The API process dies and starts again.
RestartApi ==
  /\ crashes + skips < Faults
  /\ crashes' = crashes + 1
  /\ Restart
  /\ unread' = {}
  /\ UNCHANGED <<workers, src, folder, rows, run, skips>>

Next ==
  \/ \E s \in Sources, r \in Reloads : CreateSource(s, r) \/ DeleteSource(s, r)
  \/ \E w \in Workspaces : DeleteWorkspace(w)
  \/ \E t \in Runs : HarvestStep(t) \/ Crash(t)
  \/ \E s \in Sources : CrawlNow(s) \/ Recrawl(s) \/ FolderChanges(s)
  \/ \E s \in Sources : Fire(s) \/ StrayFire(s) \/ Thread(s)
  \/ \E r \in Reloads : Reload(r)
  \/ RestartApi

Spec == Init /\ [][Next]_vars

\* A worker that is alive goes on, and takes messages in turn; beat fires daily;
\* a thread and a coroutine of a live process go on.  Nothing makes a user act.
FairSpec ==
  /\ Spec
  /\ \A t \in Runs : SF_vars(HarvestStep(t))
  /\ \A s \in Sources : SF_vars(Recrawl(s)) /\ SF_vars(Fire(s)) /\ WF_vars(Thread(s))
  /\ \A r \in Reloads : WF_vars(Reload(r))

-----------------------------------------------------------------------------
(* Properties *)

\* The type invariant: a timer belongs to a watch, and a harvest that is not in its
\* transaction has deleted nothing.
TypeOK ==
  /\ WatcherTypeOK
  /\ workers \in 1 .. MaxWorkers
  /\ src \in [Sources -> [status : Statuses, docs : 0 .. Cardinality(Names)]]
  /\ folder \in [Sources -> Versions]
  /\ rows \in [Sources -> SUBSET Row]
  /\ run \in [Runs -> [at : Stages, source : Sources, tries : 0 .. MaxRetries,
                       saw : Versions, got : SUBSET Names, victims : SUBSET Row]]
  /\ \A t \in Runs :
       run[t].at \notin {"waiting", "wiped"} => run[t].victims = {}
  /\ crashes \in Nat /\ skips \in Nat /\ crashes + skips <= Faults
  /\ unread \subseteq Sources

\* "Wipe-and-reload is honest" (indexer.py:184-187): with one worker process the
\* chunks of a source are those of one crawl, whatever else happens to the source.
OneCrawl ==
  workers = 1 =>
    \A s \in Sources : \A x, y \in rows[s] : x.by = y.by /\ x.version = y.version

\* With one worker process the doc_count of a ready source counts its files in
\* the index, although both are written by different transactions.
ReadyCount ==
  workers = 1 =>
    \A s \in Sources : src[s].status = "ready" => src[s].docs = Cardinality(rows[s])

\* harvest_task.py:17-19: a harvest that fails leaves the chunks that are indexed.  A
\* chunk goes only with its source or its workspace, or in the commit of a harvest
\* that puts everything it has read in the place of what it has wiped.
ChunksReplaced ==
  [][\A s \in Sources : \A x \in rows[s] \ rows'[s] :
       \/ src'[s].status \in Gone
       \/ \E t \in Runs : /\ run[t].source = s /\ run[t].at = "wiped"
                          /\ run'[t].at = "stored"
                          /\ x \in run[t].victims /\ NewRows(t) \subseteq rows'[s]]_vars

\* doc_sources.py:231-234: where requests reload the watcher one at a time
\* (MaxReloads = 1), a source that is gone is watched, once the requests are over,
\* only if no reload has read the sources since: the reload of its request failed,
\* or it went with its workspace, which reloads nothing.
WatchedExist ==
  MaxReloads = 1 /\ (\A r \in Reloads : reload[r].at = "idle") =>
    \A s \in watched : Exists(s) \/ s \in unread

\* What the index, the row and the watcher say of a source agrees.
SourcesSound == TypeOK /\ OneCrawl /\ ReadyCount /\ WatchedExist

\* No source is left harvesting, unless a process dies: every failure and every
\* overlap of harvests ends with a status the recrawl takes up again.
HarvestSettles ==
  \A s \in Sources :
    src[s].status = "harvesting" ~> src[s].status # "harvesting" \/ crashes > 0

\* A change of the folder reaches the index in the end, even if its event was lost or
\* a crawl could not read the file: the recrawl finds it unless harvests of the source
\* fail, or a process dies.  A file that no crawl can ever read is not in Contents.
Fresh(s) == {x.name : x \in rows[s]} = Contents[folder[s]]
            /\ \A x \in rows[s] : x.version = folder[s]
ChangesReachIndex ==
  \A s \in Sources :
    Exists(s) ~> Fresh(s) \/ src[s].status \in Gone \cup {"error"} \/ crashes > 0

-----------------------------------------------------------------------------
(* What the repository says and the code does not do *)

\* api/doc_sources.py:10 says DELETE deletes the source "(+ chunks)".  A harvest
\* that is under way inserts its chunks afterwards, and nothing removes them.
DeletedLeavesNoChunks ==
  \A s \in Sources :
    src[s].status = "deleted" /\ (\A t \in Runs : run[t].at = "free") => rows[s] = {}

\* harvest_task.py:14-16 promises that after an error "the agent's retriever keeps
\* working with whatever chunks are already indexed", and indexer.py:184-187 wipes the
\* chunks because files may have been renamed or removed.  A file that is there and
\* could not be read once loses its chunks as well, and the source is ready.
UnreadFilesKeepChunks ==
  [][workers = 1 =>
       \A s \in Sources : \A x \in rows[s] :
         x.name \in Contents[folder[s]] /\ src'[s].status \notin Gone =>
           \E y \in rows'[s] : y.name = x.name]_vars

\* doc_sources.py:231-234 says folder sources "stop being watched immediately" after
\* a delete.  The watch of a source outlives its workspace, and a reload that fails.
GoneAreNotWatched ==
  MaxReloads = 1 /\ (\A r \in Reloads : reload[r].at = "idle") =>
    \A s \in watched : Exists(s)
=============================================================================
