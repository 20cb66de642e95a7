------------------------------ MODULE QueryCache ------------------------------
(***************************************************************************)
(* The query result cache in Redis (services/query_cache.py) between the   *)
(* turns that read and fill it (agents/nodes/query_executor.py) and the    *)
(* requests that invalidate it: refresh and delete of a connection         *)
(* (api/workspaces.py) and /clear-cache (api/chat.py).                     *)
(*                                                                         *)
(* The shape of a customer database is a version.  Turns run in the API    *)
(* and in the Celery worker, so a turn may fill the cache while a request  *)
(* scans it.  An entry carries the time it has left; at 0 it is gone.      *)
(***************************************************************************)
EXTENDS Integers, FiniteSets

CONSTANTS Connections,
          Keys,          \* queries, up to white space
          MaxVersion,    \* bound: versions of a customer database
          TTL,           \* QUERY_CACHE_TTL_S, in units of Time
          MaxTurns,      \* bound: query executions at a time
          MaxRequests,   \* bound: invalidations at a time
          Outages        \* bound: calls to Redis that fail

ASSUME CacheAssumption ==
  /\ Connections # {} /\ Keys # {}
  /\ MaxVersion \in Nat \ {0} /\ TTL \in Nat \ {0}
  /\ MaxTurns \in Nat \ {0} /\ MaxRequests \in Nat \ {0} /\ Outages \in Nat

VARIABLES live,     \* connections that exist
          version,  \* the shape of each customer database
          cache,    \* Redis: the entries of each connection
          turn,     \* executions of query_executor
          scan,     \* invalidations under way
          outages

cacheVars == <<live, version, cache, turn, scan, outages>>

Turns == 1 .. MaxTurns
Requests == 1 .. MaxRequests
Versions == 1 .. MaxVersion

\* seen: the invalidations that began after the entry was written (history).
NoEntry == [version |-> 0, left |-> 0, seen |-> {}]
CacheEntry == [version : Versions, left : 1 .. TTL, seen : SUBSET Requests]
AnyConnection == CHOOSE c \in Connections : TRUE
NoTurn == [at |-> "idle", conn |-> AnyConnection, key |-> CHOOSE k \in Keys : TRUE,
           got |-> 0]
NoRequest == [at |-> "idle", conn |-> AnyConnection, todo |-> {}, floor |-> 0]
Cached(c, k) == cache[c][k] # NoEntry

CacheInit ==
  /\ live = Connections
  /\ version = [c \in Connections |-> 1]
  /\ cache = [c \in Connections |-> [k \in Keys |-> NoEntry]]
  /\ turn = [t \in Turns |-> NoTurn]
  /\ scan = [q \in Requests |-> NoRequest]
  /\ outages = 0

\* A call to Redis that fails is logged: the caller goes on without the cache.
RedisFails ==
  /\ outages < Outages
  /\ outages' = outages + 1

Moves(t, stage) == turn' = [turn EXCEPT ![t].at = stage]

-----------------------------------------------------------------------------
(* query_executor.run *)

BeginTurn(t, c, k) ==
  /\ turn[t].at = "idle" /\ \A u \in 1 .. (t - 1) : turn[u].at # "idle"
  /\ c \in live
  /\ turn' = [turn EXCEPT ![t] = [at |-> "lookup", conn |-> c, key |-> k, got |-> 0]]
  /\ UNCHANGED <<live, version, cache, scan, outages>>

Ends(t) == turn' = [turn EXCEPT ![t] = NoTurn]

\* Mutant: a hit starts the time to live anew.
HitSlides(t) ==
  /\ turn[t].at = "lookup"
  /\ Cached(turn[t].conn, turn[t].key)
  /\ Ends(t)
  /\ cache' = [cache EXCEPT ![turn[t].conn][turn[t].key].left = TTL]
  /\ UNCHANGED <<live, version, scan, outages>>

\* The cache is read before the connection is, so a turn that has begun is
\* answered although its connection has been deleted.
Hit(t) ==
  /\ turn[t].at = "lookup"
  /\ Cached(turn[t].conn, turn[t].key)
  /\ Ends(t)
  /\ UNCHANGED <<live, version, cache, scan, outages>>

Miss(t) ==
  /\ turn[t].at = "lookup"
  /\ \/ ~Cached(turn[t].conn, turn[t].key) /\ UNCHANGED outages
     \/ RedisFails
  /\ Moves(t, "loading")
  /\ UNCHANGED <<live, version, cache, scan>>

\* The connection and its credentials are loaded; the engine is not checked again.
LoadConnection(t) ==
  /\ turn[t].at = "loading"
  /\ IF turn[t].conn \in live THEN Moves(t, "querying") ELSE Ends(t)
  /\ UNCHANGED <<live, version, cache, scan, outages>>

Query(t) ==
  /\ turn[t].at = "querying"
  /\ \/ turn' = [turn EXCEPT ![t].at = "storing", ![t].got = version[turn[t].conn]]
     \/ Ends(t)
  /\ UNCHANGED <<live, version, cache, scan, outages>>

Stored(t) == [version |-> turn[t].got, left |-> TTL, seen |-> {}]

\* A result above QUERY_CACHE_MAX_ROWS or QUERY_CACHE_MAX_BYTES is not stored.
Store(t) ==
  /\ turn[t].at = "storing"
  /\ \/ /\ cache' = [cache EXCEPT ![turn[t].conn][turn[t].key] = Stored(t)]
        /\ UNCHANGED outages
     \/ UNCHANGED <<cache, outages>>
     \/ RedisFails /\ UNCHANGED cache
  /\ Ends(t)
  /\ UNCHANGED <<live, version, scan>>

-----------------------------------------------------------------------------
(* invalidate_connection *)

\* SCAN returns at least the keys that are there from its start to its end.
BeginScan(q, c) ==
  /\ scan[q].at = "idle" /\ \A r \in 1 .. (q - 1) : scan[r].at # "idle"
  /\ scan' = [scan EXCEPT ![q] =
       [at |-> "scanning", conn |-> c, todo |-> {k \in Keys : Cached(c, k)},
        floor |-> version[c]]]
  /\ cache' = [cache EXCEPT ![c] = [k \in Keys |->
                 IF Cached(c, k) THEN [cache[c][k] EXCEPT !.seen = @ \cup {q}]
                 ELSE NoEntry]]

\* refresh_connection, after the commit and the message, and /clear-cache.
Refresh(q, c) ==
  /\ c \in live
  /\ BeginScan(q, c)
  /\ UNCHANGED <<live, version, turn, outages>>

Delete(q, c) ==
  /\ c \in live
  /\ live' = live \ {c}
  /\ BeginScan(q, c)
  /\ UNCHANGED <<version, turn, outages>>

\* Mutant: the scan stops after its first batch.
DeleteKeyFirstBatch(q, k) ==
  /\ scan[q].at = "scanning"
  /\ k \in scan[q].todo
  /\ cache' = [cache EXCEPT ![scan[q].conn][k] = NoEntry]
  /\ scan' = [scan EXCEPT ![q].todo = {}]
  /\ UNCHANGED <<live, version, turn, outages>>

DeleteKey(q, k) ==
  /\ scan[q].at = "scanning"
  /\ k \in scan[q].todo
  /\ cache' = [cache EXCEPT ![scan[q].conn][k] = NoEntry]
  /\ scan' = [scan EXCEPT ![q].todo = @ \ {k}]
  /\ UNCHANGED <<live, version, turn, outages>>

\* A key whose DELETE fails is skipped.
SkipKey(q, k) ==
  /\ scan[q].at = "scanning"
  /\ k \in scan[q].todo
  /\ RedisFails
  /\ scan' = [scan EXCEPT ![q].todo = @ \ {k}]
  /\ UNCHANGED <<live, version, cache, turn>>

EndScan(q) ==
  /\ scan[q].at = "scanning"
  /\ scan[q].todo = {}
  /\ scan' = [scan EXCEPT ![q].at = "finished"]
  /\ UNCHANGED <<live, version, cache, turn, outages>>

Unmark(q) == [c \in Connections |-> [k \in Keys |->
                [cache[c][k] EXCEPT !.seen = @ \ {q}]]]

Respond(q) ==
  /\ scan[q].at = "finished"
  /\ scan' = [scan EXCEPT ![q] = NoRequest]
  /\ cache' = Unmark(q)
  /\ UNCHANGED <<live, version, turn, outages>>

\* Redis fails in the middle of the scan, or the process dies after its commit.
ScanFails(q) ==
  /\ scan[q].at = "scanning"
  /\ RedisFails
  /\ scan' = [scan EXCEPT ![q] = NoRequest]
  /\ cache' = Unmark(q)
  /\ UNCHANGED <<live, version, turn>>

-----------------------------------------------------------------------------
(* The environment *)

\* A customer database changes.  The daily diff that stores the new schema does
\* not touch the cache (workers/diff_task.py).
DatabaseChanges(c) ==
  /\ version[c] < MaxVersion
  /\ version' = [version EXCEPT ![c] = @ + 1]
  /\ UNCHANGED <<live, cache, turn, scan, outages>>

\* Mutant: entries are written without a time to live.
AgeNever(e) == e
Age(e) == IF e.left <= 1 THEN NoEntry ELSE [e EXCEPT !.left = @ - 1]
Time ==
  /\ \E c \in Connections, k \in Keys : Cached(c, k)
  /\ cache' = [c \in Connections |-> [k \in Keys |-> Age(cache[c][k])]]
  /\ UNCHANGED <<live, version, turn, scan, outages>>

TurnStep(t) ==
  \/ Hit(t)
  \/ Miss(t)
  \/ LoadConnection(t)
  \/ Query(t)
  \/ Store(t)

ScanStep(q) ==
  \/ \E k \in Keys : DeleteKey(q, k)
  \/ EndScan(q)
  \/ Respond(q)

CacheNext ==
  \/ \E t \in Turns : TurnStep(t) \/ \E c \in Connections, k \in Keys : BeginTurn(t, c, k)
  \/ \E q \in Requests : ScanStep(q) \/ ScanFails(q) \/ \E k \in Keys : SkipKey(q, k)
  \/ \E q \in Requests, c \in Connections : Refresh(q, c) \/ Delete(q, c)
  \/ \E c \in Connections : DatabaseChanges(c)
  \/ Time

CacheSpec == CacheInit /\ [][CacheNext]_cacheVars

\* Time passes, and turns and requests that have begun go on.
CacheFairSpec ==
  /\ CacheSpec
  /\ WF_cacheVars(Time)
  /\ \A t \in Turns : WF_cacheVars(TurnStep(t))
  /\ \A q \in Requests : WF_cacheVars(ScanStep(q))

-----------------------------------------------------------------------------
(* Properties *)

\* The type invariant: no entry outlives the time to live, and no turn has a
\* version from the future of its database.
CacheTypeOK ==
  /\ live \subseteq Connections
  /\ version \in [Connections -> Versions]
  /\ cache \in [Connections -> [Keys -> CacheEntry \cup {NoEntry}]]
  /\ turn \in [Turns -> [at : {"idle", "lookup", "loading", "querying", "storing"},
                         conn : Connections, key : Keys, got : 0 .. MaxVersion]]
  /\ \A t \in Turns : turn[t].got <= version[turn[t].conn]
  /\ scan \in [Requests -> [at : {"idle", "scanning", "finished"},
                            conn : Connections, todo : SUBSET Keys,
                            floor : 0 .. MaxVersion]]
  /\ outages \in 0 .. Outages

\* query_cache.py:14-16: an invalidation that finishes has removed every entry that
\* was there when it began, whatever turns and other requests wrote meanwhile, as
\* long as Redis answers.
InvalidationComplete ==
  \A q \in Requests : scan[q].at = "finished" /\ outages = 0 =>
    \A k \in Keys : q \notin cache[scan[q].conn][k].seen

\* The cache keeps its bounds, and an invalidation its word.
CacheSound == CacheTypeOK /\ InvalidationComplete

\* An answer of an old shape is served for a while only, whether a late turn stored
\* it, the invalidation was lost, or nothing invalidates at all: no entry stays
\* behind its database for good, however often it is read.
StaleAnswersEnd ==
  \A c \in Connections, k \in Keys :
    Cached(c, k) /\ cache[c][k].version < version[c] ~>
      cache[c][k] = NoEntry \/ cache[c][k].version = version[c]

\* The same for the entries of a connection that is deleted.
DeletedAreForgotten ==
  \A c \in Connections :
    c \notin live ~> \A k \in Keys : ~Cached(c, k)

-----------------------------------------------------------------------------
(* What the repository says and the code does not do *)

\* query_cache.py:154-156: entries are dropped "so a schema change can never serve
\* up a stale row shape".  A turn that queried before the change stores its rows
\* while the request runs or later, and the next turn is answered from them.
NoStaleShape ==
  \A q \in Requests : scan[q].at = "finished" /\ outages = 0 =>
    \A k \in Keys : LET e == cache[scan[q].conn][k] IN
      e = NoEntry \/ e.version >= scan[q].floor
=============================================================================
