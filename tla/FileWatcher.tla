----------------------------- MODULE FileWatcher -----------------------------
(***************************************************************************)
(* The real-time watcher of folder sources in the API process              *)
(* (services/file_watcher.py): a supervisor whose reload reconciles the    *)
(* watches with the sources in the database, and one debounced handler per *)
(* watch, whose timer thread enqueues a harvest.                           *)
(*                                                                         *)
(* What the sources are, and what enqueueing does, belongs to DocSource,   *)
(* which extends this module and composes its actions.                     *)
(***************************************************************************)
EXTENDS Integers, FiniteSets

CONSTANTS Sources,    \* document sources of kind `folder'
          MaxReloads  \* bound: requests that reload the watcher at a time

ASSUME WatcherAssumption == Sources # {} /\ MaxReloads \in Nat \ {0}

VARIABLES watched, \* _watches: sources with a handler
          timer,   \* the timer thread of a source's handler
          stray,   \* sources whose handler was cancelled while it fired
          reload   \* reloads under way

watcherVars == <<watched, timer, stray, reload>>

Reloads == 1 .. MaxReloads
\* A timer that has sent its message is alive until its thread returns.
TimerStates == {"off", "armed", "firing", "ending"}
NoReload == [at |-> "idle", wanted |-> {}]
ReloadBegun == [at |-> "begun", wanted |-> {}]

WatcherInit ==
  /\ watched = {}
  /\ timer = [s \in Sources |-> "off"]
  /\ stray = {}
  /\ reload = [r \in Reloads |-> NoReload]

\* _trigger: an event on a watched folder arms the timer unless it is alive.
Event(s) ==
  timer' = [timer EXCEPT ![s] =
              IF s \in watched /\ @ = "off" THEN "armed" ELSE @]

TimerExpires(s) ==
  /\ timer[s] = "armed"
  /\ timer' = [timer EXCEPT ![s] = "firing"]
  /\ UNCHANGED <<watched, stray, reload>>

\* _fire calls the enqueue function; DocSource says what that does.
FireSends(s) ==
  /\ timer[s] = "firing"
  /\ timer' = [timer EXCEPT ![s] = "ending"]
  /\ UNCHANGED <<watched, stray, reload>>

StrayFireSends(s) ==
  /\ s \in stray
  /\ stray' = stray \ {s}
  /\ UNCHANGED <<watched, timer, reload>>

ThreadEnds(s) ==
  /\ timer[s] = "ending"
  /\ timer' = [timer EXCEPT ![s] = "off"]
  /\ UNCHANGED <<watched, stray, reload>>

\* A request that changes a folder source ends with a reload.
BeginReload(r) ==
  /\ reload[r].at = "idle"
  /\ \A q \in 1 .. (r - 1) : reload[q].at # "idle"
  /\ reload' = [reload EXCEPT ![r] = ReloadBegun]

\* _refresh_watcher logs a reload that raises: the watches stay as they are.
ReloadFails(r) ==
  /\ reload[r].at = "begun"
  /\ reload' = [reload EXCEPT ![r] = NoReload]
  /\ UNCHANGED <<watched, timer, stray>>

\* _load_active_folder_sources, before the lock is taken.
ReloadReads(r, active) ==
  /\ reload[r].at = "begun"
  /\ reload' = [reload EXCEPT ![r] = [at |-> "loaded", wanted |-> active]]
  /\ UNCHANGED <<watched, timer, stray>>

\* Under the lock: dropped sources lose their handler, whose cancel stops a
\* timer that waits but not one that fires; new ones get a fresh handler, except
\* those whose root is no directory or cannot be scheduled.
ReloadApplies(r) ==
  /\ reload[r].at = "loaded"
  /\ \E skipped \in SUBSET (reload[r].wanted \ watched) :
       watched' = reload[r].wanted \ skipped
  /\ timer' = [s \in Sources |-> IF s \in watched \ reload[r].wanted
                                 THEN "off" ELSE timer[s]]
  /\ stray' = stray \cup {s \in watched \ reload[r].wanted : timer[s] = "firing"}
  /\ reload' = [reload EXCEPT ![r] = NoReload]

\* lifespan: a new process has no watches, no threads, and reloads once.
Restart ==
  /\ watched' = {}
  /\ timer' = [s \in Sources |-> "off"]
  /\ stray' = {}
  /\ reload' = [r \in Reloads |-> IF r = 1 THEN ReloadBegun ELSE NoReload]

WatcherTypeOK ==
  /\ watched \subseteq Sources
  /\ timer \in [Sources -> TimerStates]
  /\ stray \subseteq Sources
  /\ reload \in [Reloads -> [at : {"idle", "begun", "loaded"},
                             wanted : SUBSET Sources]]
  /\ \A s \in Sources : timer[s] # "off" => s \in watched
=============================================================================
