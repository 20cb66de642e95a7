------------------------------- MODULE Engines -------------------------------
(***************************************************************************)
(* A call of a database through its engine (engines/*.py): who validates   *)
(* the query, what is opened, who ends the wait when nothing is answered,  *)
(* what is closed on the way out, how many rows come back.                 *)
(*                                                                         *)
(* Questions come from the API process and share its threads.  The health  *)
(* sweep (workers/health_task.py, services/connection_health.py) is a      *)
(* caller that probes its connections one after the other and stamps them  *)
(* in one transaction.                                                     *)
(*                                                                         *)
(* What an engine's execute does is a script: the exchanges it makes, in   *)
(* order, each with the limits that end a wait for its answer.             *)
(***************************************************************************)
EXTENDS Validators, FiniteSets

CONSTANTS Callers,   \* questions, and the sweep
          Sweeper,
          Ids,       \* of connections
          Jobs,      \* what the callers call, one connection after the other
          PoolSize,  \* threads of a process
          MaxFaults  \* bound: exchanges that fail, databases that stall

ASSUME EnginesAssumption == Sweeper \in Callers /\ PoolSize \in Nat \ {0} /\ MaxFaults \in Nat

\* A connection, with what is asked of it and the dialect the planner's model says that
\* is in (QueryPlan.dialect): nothing holds it to the dialect of the connection.
Connections ==
  [id : Ids, dialect : Dialects, keys : SUBSET STRING, attached : SUBSET STRING,
   readable : BOOLEAN, oauth : BOOLEAN, ask : Queries, declared : Dialects,
   catalog : SUBSET Seq(STRING), tables : Seq([schema : STRING, name : STRING, rows : Nat])]
\* The sweep lists the rows of a table, each once.
ASSUME JobsAssumption ==
  \A j \in Jobs :
    /\ j \in [Callers -> Seq(Connections)]
    /\ \A m, n \in DOMAIN j[Sweeper] : j[Sweeper][m] = j[Sweeper][n] => m = n

VARIABLES todo,      \* what each caller has left
          call,      \* the call each caller waits for
          open,      \* <<caller, connection>>: what is open
          adrift,    \* threads whose caller has gone on
          answers,   \* what each caller got
          db,        \* each database: up, slow to run a statement, or gone
          faults,
          listed,    \* the connections the sweep has read
          stamps,    \* the verdicts of the sweep, not committed yet
          flushed,   \* connections whose rows the sweep has locked
          sweep,     \* idle, probing, committed, failed
          wanted,    \* connections someone wants to delete
          deleted

callVars == <<todo, call, open, adrift, answers, db, faults>>
sweepVars == <<listed, stamps, flushed, sweep, wanted, deleted>>
vars == <<callVars, sweepVars>>

Threaded(d) == d \in {"duckdb", "snowflake", "bigquery"}

-----------------------------------------------------------------------------
(* What a connection must say before an engine is made of it *)

PostgresKeys == {"host", "port", "db_name", "user", "password"}
MysqlKeys == {"host", "port", "db_name", "user", "password"}
SqliteKeys == {"path"}
MssqlKeys == {"host", "db_name", "user", "password"}
OracleKeys == {"host", "port", "db_name", "user", "password"}
ClickhouseKeys == {"host", "db_name"}
SnowflakeKeys == {"account", "warehouse", "database", "schema", "user", "secret"}
BigqueryKeys == {"project", "dataset", "service_account_json"}
MongodbKeys == {"host", "db_name"}
ElasticsearchKeys == {"hosts"}
GraphqlKeys == {"endpoint"}
RestKeys == {"base_url"}

\* The file, and of each file attached to it a path, a view and a known extension.
DuckdbConfigured(c) == "path" \in c.keys /\ c.attached \subseteq {"csv", "parquet", "json"}

KeysOf(d) ==
  CASE d = "postgres"   -> PostgresKeys   [] d = "mysql"         -> MysqlKeys
    [] d = "sqlite"     -> SqliteKeys     [] d = "mssql"         -> MssqlKeys
    [] d = "oracle"     -> OracleKeys     [] d = "clickhouse"    -> ClickhouseKeys
    [] d = "snowflake"  -> SnowflakeKeys  [] d = "bigquery"      -> BigqueryKeys
    [] d = "mongodb"    -> MongodbKeys    [] d = "elasticsearch" -> ElasticsearchKeys
    [] d = "graphql"    -> GraphqlKeys    [] d = "rest_api"      -> RestKeys

\* get_engine
Configured(c) ==
  IF c.dialect = "duckdb" THEN DuckdbConfigured(c)
  ELSE \* Oracle takes service_name for db_name.
       LET keys == IF c.dialect = "oracle" /\ "service_name" \in c.keys
                   THEN c.keys \cup {"db_name"} ELSE c.keys
       IN KeysOf(c.dialect) \subseteq keys

-----------------------------------------------------------------------------
(* Scripts *)

\* `engine' is the wait_for around the whole call, `statement' one around the
\* statement; each fires once.  `server' is a limit the session sets on its
\* statements, `driver' the limit of the client on an exchange.
Step(op, ends) == [op |-> op, asks |-> TRUE, ends |-> ends]
Local(op) == [op |-> op, asks |-> FALSE, ends |-> {}]

PostgresExecute ==
  <<Step("connect", {"engine"}), Step("session", {"engine"}),
    Step("run", {"engine", "server"}), Step("close", {"engine"})>>
\* aiosqlite has one thread a connection: the close waits behind the statement.
SqliteExecute ==
  <<Step("connect", {"engine"}), Step("run", {"engine"}), Step("close", {"engine"})>>
MysqlExecute ==
  <<Step("connect", {"engine"}), Step("session", {"engine"}),
    Step("run", {"engine", "statement", "server"}), Step("close", {"engine"})>>
\* QUERY_GOVERNOR_COST_LIMIT bounds an estimate, it ends nothing that runs.
MssqlExecute ==
  <<Step("connect", {"engine"}), Step("session", {"engine"}),
    Step("run", {"engine"}), Step("close", {"engine"})>>
\* call_timeout bounds every round trip of the connection.
OracleExecute ==
  <<Step("connect", {"engine"}), Step("session", {"engine", "driver"}),
    Step("run", {"engine", "driver"}), Step("close", {"engine", "driver"})>>
ClickhouseExecute ==
  <<Step("connect", {"driver"}), Step("run", {"statement", "server"}), Local("close")>>
\* The views over the attached files are made as it connects.
\* Mutant: the wait_for is left out.
DuckdbExecuteUnbounded == <<Step("connect", {}), Step("run", {}), Local("close")>>
DuckdbExecute ==
  <<Step("connect", {"engine"}), Step("run", {"engine"}), Local("close")>>
SnowflakeExecute ==
  <<Step("connect", {"engine"}), Step("run", {"engine"}), Step("close", {"engine"})>>
BigqueryExecute ==
  <<Local("client"), Step("run", {"engine"}), Local("close")>>
\* The constructor makes the client, aclose closes it.
MongodbExecute ==
  <<Local("client"), Step("session", {"driver"}), Step("run", {"server"}), Local("close")>>
ElasticsearchExecute ==
  <<Local("client"), Step("run", {"driver"}), Local("close")>>
GraphqlExecute ==
  <<Local("client"), Step("run", {"statement", "driver"}), Local("close")>>
\* _inject_auth fetches a token; a client is made for the request.
RestExecute(oauth) ==
  (IF oauth THEN <<Step("token", {"driver"})>> ELSE <<>>)
    \o <<Local("client"), Step("run", {"statement", "driver"}), Local("close")>>

\* The probes that do not go through execute.
ElasticsearchProbe == <<Local("client"), Step("run", {"driver"}), Local("close")>>
MongodbProbe == <<Local("client"), Step("session", {"driver"}), Step("run", {}), Local("close")>>
\* HEAD, then GET when that is refused or fails.
RestProbe ==
  <<Local("client"), Step("head", {"driver"}), Step("run", {"driver"}), Local("close")>>

ExecuteOf(c) ==
  CASE c.dialect = "postgres"   -> PostgresExecute
    [] c.dialect = "sqlite"     -> SqliteExecute
    [] c.dialect = "mysql"      -> MysqlExecute
    [] c.dialect = "mssql"      -> MssqlExecute
    [] c.dialect = "oracle"     -> OracleExecute
    [] c.dialect = "clickhouse" -> ClickhouseExecute
    [] c.dialect = "duckdb"     -> DuckdbExecute
    [] c.dialect = "snowflake"  -> SnowflakeExecute
    [] c.dialect = "bigquery"   -> BigqueryExecute
    [] c.dialect = "mongodb"    -> MongodbExecute
    [] c.dialect = "elasticsearch" -> ElasticsearchExecute
    [] c.dialect = "graphql"    -> GraphqlExecute
    [] c.dialect = "rest_api"   -> RestExecute(c.oauth)

\* _dispatch
Script(a, c) ==
  IF a = Sweeper /\ c.dialect = "elasticsearch" THEN ElasticsearchProbe
  ELSE IF a = Sweeper /\ c.dialect = "mongodb" THEN MongodbProbe
  ELSE IF a = Sweeper /\ c.dialect = "rest_api" THEN RestProbe
  ELSE ExecuteOf(c)

\* probe_one adds a wait_for of its own.
\* Mutant: it is left out.
LimitsOfTheEngine(a, s) == s.ends
Limits(a, s) == s.ends \cup (IF a = Sweeper /\ s.asks THEN {"probe"} ELSE {})

-----------------------------------------------------------------------------
(* Rows *)

Least(m, n) == IF m <= n THEN m ELSE n
Limited(n, limits) == Min({n} \cup limits)
\* What the server sends: as many as the query finds, up to the limit it names.
Sent(q) ==
  CASE q.lang = "sql"   -> Limited(q.rows, q.limit)
    [] q.lang = "mongo" -> LET ns == {s.limit : s \in {t \in ToSet(q.pipeline) : t.name = "$limit"}}
                           IN Limited(q.rows, ns)
    [] q.lang = "es"    -> IF "aggs" \in q.keys THEN q.rows ELSE Limited(q.rows, q.size)
    [] OTHER            -> q.rows

\* The first row_cap rows, and whether there was one more.
Capped(n) == [rows |-> Least(n, RowCap), truncated |-> n > RowCap]
\* The buckets of an aggregation are not capped; of hits the cap itself says truncated.
ElasticsearchRows(q) ==
  IF "aggs" \in q.keys THEN [rows |-> Sent(q), truncated |-> FALSE]
  ELSE [rows |-> Least(Sent(q), RowCap), truncated |-> Sent(q) >= RowCap]
\* A body that is no JSON is one row.
RestRows(q) == IF q.body THEN Capped(Sent(q)) ELSE [rows |-> 1, truncated |-> FALSE]

ResultOf(d, q) ==
  CASE d = "elasticsearch" -> ElasticsearchRows(q)
    [] d = "rest_api"      -> RestRows(q)
    [] OTHER               -> Capped(Sent(q))
Nothing == [rows |-> 0, truncated |-> FALSE]

-----------------------------------------------------------------------------
Idle == [idle |-> TRUE]
Started(c, q) ==
  [conn |-> c, query |-> q, pos |-> IF Threaded(c.dialect) THEN 0 ELSE 1,
   fired |-> {}, tokens |-> 0, outcome |-> None]
At(a) == Script(a, call[a].conn)[call[a].pos]
Closing(a) == Len(Script(a, call[a].conn))
Running(a) == call[a] # Idle /\ call[a].pos > 0

Init ==
  /\ todo \in Jobs
  /\ call = [a \in Callers |-> Idle]
  /\ open = {} /\ adrift = {}
  /\ answers = [a \in Callers |-> <<>>]
  /\ db = [i \in Ids |-> "up"]
  /\ faults = 0
  /\ listed = ToSet(todo[Sweeper])
  /\ stamps = {} /\ flushed = {}
  /\ sweep = IF todo[Sweeper] = <<>> THEN "idle" ELSE "probing"
  /\ wanted = {} /\ deleted = {}

\* The caller has its answer and goes on.
Reply(a, outcome, shape, tokens) ==
  LET c == Head(todo[a])
  IN /\ answers' = [answers EXCEPT ![a] =
                      Append(@, [conn |-> c, outcome |-> outcome, shape |-> shape,
                                 tokens |-> tokens])]
     /\ todo' = [todo EXCEPT ![a] = Tail(@)]
     /\ call' = [call EXCEPT ![a] = Idle]
     /\ stamps' = IF a = Sweeper THEN stamps \cup {[conn |-> c, ok |-> outcome = "rows"]}
                  ELSE stamps

\* query_validator.run by the dialect the plan declares; get_engine, and the check that
\* execute begins with, by the dialect of the connection.
Ask(a) ==
  /\ a # Sweeper /\ call[a] = Idle /\ todo[a] # <<>>
  /\ LET c == Head(todo[a])
         v == QueryValidator(c.ask, c.declared, c.catalog, c.tables)
         e == EngineValidates(v.query, c.dialect)
     IN IF ~v.ok THEN Reply(a, "refused", Nothing, 0)
        ELSE IF ~Configured(c) THEN Reply(a, "error", Nothing, 0)
        ELSE IF ~e.ok THEN Reply(a, "refused by the engine", Nothing, 0)
        ELSE call' = [call EXCEPT ![a] = Started(c, e.query)]
             /\ UNCHANGED <<answers, todo, stamps>>
  /\ UNCHANGED <<open, adrift, db, faults, listed, flushed, sweep, wanted, deleted>>

-----------------------------------------------------------------------------
(* The sweep *)

\* A flush writes the stamps; one whose row is gone fails it.
Stale(ss) == \E s \in ss : s.conn \in deleted

\* The next connection: loading its credentials flushes the stamps so far.  Without
\* credentials it is stamped as it is.
Skip(a, c) == Reply(a, "skipped", Nothing, 0)

Probe(a) ==
  /\ a = Sweeper /\ sweep = "probing" /\ call[a] = Idle /\ todo[a] # <<>>
  /\ IF Stale(stamps)
     THEN /\ sweep' = "failed"
          /\ todo' = [todo EXCEPT ![a] = <<>>]
          /\ flushed' = {}
          /\ UNCHANGED <<call, answers, stamps>>
     ELSE LET c == Head(todo[a])
          IN /\ flushed' = {s.conn : s \in stamps}
             /\ IF ~c.readable \/ c \in deleted THEN Skip(a, c)
                ELSE IF ~Configured(c) THEN Reply(a, "error", Nothing, 0)
                ELSE call' = [call EXCEPT ![a] = Started(c, c.ask)]
                     /\ UNCHANGED <<answers, todo, stamps>>
             /\ UNCHANGED sweep
  /\ UNCHANGED <<open, adrift, db, faults, listed, wanted, deleted>>

\* One commit ends the sweep; a failed one rolls every stamp back.
Commit ==
  /\ sweep = "probing" /\ call[Sweeper] = Idle /\ todo[Sweeper] = <<>>
  /\ sweep' = IF Stale(stamps) THEN "failed" ELSE "committed"
  /\ flushed' = {}
  /\ UNCHANGED <<callVars, listed, stamps, wanted, deleted>>

\* A user deletes a connection that is being swept; a row the sweep has written
\* stays locked until it ends.
Want(c) ==
  /\ sweep = "probing" /\ wanted = {}
  /\ wanted' = {c}
  /\ UNCHANGED <<callVars, listed, stamps, flushed, sweep, deleted>>
Delete(c) ==
  /\ c \in wanted \ deleted /\ c \notin flushed
  /\ deleted' = deleted \cup {c}
  /\ UNCHANGED <<callVars, listed, stamps, flushed, sweep, wanted>>

-----------------------------------------------------------------------------
(* The exchanges *)

\* A database that is slow does not finish its statement; one that is gone answers
\* nothing.  For SQLite the close waits for the statement as well.
Stalled(c, s) ==
  \/ s.asks /\ db[c.id] = "gone"
  \/ s.op = "run" /\ db[c.id] = "slow"
  \/ s.op = "close" /\ c.dialect = "sqlite" /\ db[c.id] = "slow"

Process(a) == IF a = Sweeper THEN {Sweeper} ELSE Callers \ {Sweeper}
Busy(a) ==
  Cardinality({b \in Process(a) : Running(b) /\ Threaded(call[b].conn.dialect)})
    + Cardinality({g \in adrift : g.by \in Process(a)})

\* to_thread: the call waits for a thread of its process.
TakeThread(a) ==
  /\ call[a] # Idle /\ call[a].pos = 0 /\ Busy(a) < PoolSize
  /\ call' = [call EXCEPT ![a].pos = 1]
  /\ UNCHANGED <<todo, open, adrift, answers, db, faults, sweepVars>>

\* A probe returns no rows.
Shape(a) ==
  IF call[a].outcome = "rows" /\ a # Sweeper
  THEN ResultOf(call[a].conn.dialect, call[a].query) ELSE Nothing

\* PostgreSQL and SQLite are handed whatever the node let pass.  A probe is in the
\* language of its connection.
Speaks(a) == a = Sweeper \/ call[a].query.lang = Language(call[a].conn.dialect)

\* An exchange is answered, a local step done.
Answered(a) ==
  /\ Running(a) /\ ~Stalled(call[a].conn, At(a)) /\ (At(a).op = "run" => Speaks(a))
  /\ LET me == call[a]  c == me.conn  op == At(a).op
     IN CASE op \in {"connect", "client"} ->
               /\ open' = open \cup {<<a, c>>}
               /\ call' = [call EXCEPT ![a].pos = @ + 1]
               /\ UNCHANGED <<todo, answers, stamps>>
          [] op = "session" ->
               /\ call' = [call EXCEPT ![a].pos = @ + 1]
               /\ UNCHANGED <<open, todo, answers, stamps>>
          [] op = "token" ->
               \* A second token is for a request whose client is there already.
               /\ call' = [call EXCEPT ![a].tokens = @ + 1,
                                       ![a].pos = IF <<a, c>> \in open THEN @ + 2 ELSE @ + 1]
               /\ UNCHANGED <<open, todo, answers, stamps>>
          [] op = "head" ->
               \* 405: asked again with GET.
               /\ \/ call' = [call EXCEPT ![a].pos = @ + 1]
                  \/ call' = [call EXCEPT ![a].pos = @ + 2, ![a].outcome = "rows"]
               /\ UNCHANGED <<open, todo, answers, stamps>>
          [] op = "run" ->
               /\ call' = [call EXCEPT ![a].pos = Closing(a), ![a].outcome = "rows"]
               /\ UNCHANGED <<open, todo, answers, stamps>>
          [] op = "close" ->
               /\ open' = open \ {<<a, c>>}
               /\ Reply(a, me.outcome, Shape(a), me.tokens)
  /\ UNCHANGED <<adrift, db, faults, listed, flushed, sweep, wanted, deleted>>

\* The way out of a call: what is open is closed first.
\* Mutant: only a statement that ran is followed by a close.
UnwindAfterRun(a, outcome, fired) ==
  IF At(a).op = "run"
  THEN /\ call' = [call EXCEPT ![a].pos = Closing(a), ![a].outcome = outcome, ![a].fired = fired]
       /\ UNCHANGED <<open, todo, answers, stamps>>
  ELSE Reply(a, outcome, Nothing, call[a].tokens) /\ UNCHANGED open
Unwind(a, outcome, fired) ==
  IF At(a).op # "close" /\ <<a, call[a].conn>> \in open
  THEN /\ call' = [call EXCEPT ![a].pos = Closing(a), ![a].outcome = outcome, ![a].fired = fired]
       /\ UNCHANGED <<open, todo, answers, stamps>>
  ELSE /\ open' = open \ {<<a, call[a].conn>>}
       /\ Reply(a, outcome, Nothing, call[a].tokens)

\* Snowflake's close swallows what goes wrong; of the others it hides the rows that
\* were read.
FailsOpenly(a) == At(a).op # "close" \/ call[a].conn.dialect # "snowflake"

\* An exchange fails.  HEAD is followed by GET.
Fails(a) ==
  /\ Running(a) /\ At(a).asks /\ ~Stalled(call[a].conn, At(a)) /\ faults < MaxFaults
  /\ faults' = faults + 1
  /\ IF At(a).op = "head"
     THEN call' = [call EXCEPT ![a].pos = @ + 1] /\ UNCHANGED <<open, todo, answers, stamps>>
     ELSE IF FailsOpenly(a) THEN Unwind(a, "error", call[a].fired)
     ELSE /\ open' = open \ {<<a, call[a].conn>>}
          /\ Reply(a, call[a].outcome, Shape(a), 0)
  /\ UNCHANGED <<adrift, db, listed, flushed, sweep, wanted, deleted>>

\* The database does not understand what was planned for another: none does when it is
\* in another language, one that speaks SQL may not.
Misread(a) ==
  /\ Running(a) /\ At(a).op = "run" /\ ~Stalled(call[a].conn, At(a))
  /\ a # Sweeper /\ call[a].conn.declared # call[a].conn.dialect
  /\ Unwind(a, "error", call[a].fired)
  /\ UNCHANGED <<adrift, db, faults, listed, flushed, sweep, wanted, deleted>>

\* 401: a client-credentials connection drops its token, fetches another and asks
\* once more.
Again(a) == 1
Denied(a) ==
  /\ Running(a) /\ At(a).op = "run" /\ call[a].conn.dialect = "rest_api" /\ a # Sweeper
  /\ faults < MaxFaults /\ ~Stalled(call[a].conn, At(a))
  /\ faults' = faults + 1
  /\ IF call[a].conn.oauth /\ "retry" \notin call[a].fired
     THEN /\ call' = [call EXCEPT ![a].pos = Again(a), ![a].fired = @ \cup {"retry"}]
          /\ UNCHANGED <<open, todo, answers, stamps>>
     ELSE Unwind(a, "unauthorized", call[a].fired)
  /\ UNCHANGED <<adrift, db, listed, flushed, sweep, wanted, deleted>>

\* A limit ends the wait.  In the event loop it cancels what the engine waits for,
\* which then closes; a thread cannot be cancelled, its caller leaves it adrift.
Expires(a, t) ==
  /\ Running(a) /\ Stalled(call[a].conn, At(a))
  /\ t \in Limits(a, At(a)) \ call[a].fired
  /\ t = "server" => db[call[a].conn.id] # "gone"
  /\ IF Threaded(call[a].conn.dialect)
     THEN /\ adrift' = adrift \cup {[by |-> a, conn |-> call[a].conn, pos |-> call[a].pos]}
          /\ Reply(a, "timeout", Nothing, 0)
          /\ UNCHANGED open
     ELSE /\ IF t \in {"server", "driver"} THEN Unwind(a, "error", call[a].fired)
             ELSE Unwind(a, "timeout", call[a].fired \cup {t})
          /\ UNCHANGED adrift
  /\ UNCHANGED <<db, faults, listed, flushed, sweep, wanted, deleted>>

\* It also ends the wait for a thread, when those that run do not come back.
GivesUp(a) ==
  /\ call[a] # Idle /\ call[a].pos = 0
  /\ Busy(a) >= PoolSize
  /\ \A b \in Process(a) : Running(b) => Stalled(call[b].conn, At(b))
  /\ \A g \in adrift : g.by \in Process(a) => Stalled(g.conn, Script(g.by, g.conn)[g.pos])
  /\ Reply(a, "timeout", Nothing, 0)
  /\ UNCHANGED <<open, adrift, db, faults, listed, flushed, sweep, wanted, deleted>>

\* A thread nobody waits for goes on to its end, and closes what it has opened.
Drifts(g) ==
  LET s == Script(g.by, g.conn)[g.pos]
  IN /\ ~Stalled(g.conn, s)
     /\ adrift' = (adrift \ {g})
                    \cup (IF s.op = "close" THEN {} ELSE {[g EXCEPT !.pos = @ + 1]})
     /\ open' = IF s.op = "close" THEN open \ {<<g.by, g.conn>>}
                ELSE IF s.op \in {"connect", "client"} THEN open \cup {<<g.by, g.conn>>}
                ELSE open
GoesOn(g) ==
  /\ Drifts(g)
  /\ UNCHANGED <<todo, call, answers, db, faults, sweepVars>>

-----------------------------------------------------------------------------
(* The databases *)

\* A statement takes long, and may end after all; a server vanishes, and may return.
Slows(i) ==
  /\ faults < MaxFaults /\ db[i] = "up"
  /\ \E a \in Callers \ {Sweeper} : Running(a) /\ call[a].conn.id = i /\ At(a).op = "run"
  /\ db' = [db EXCEPT ![i] = "slow"]
  /\ faults' = faults + 1
Vanishes(i) ==
  /\ faults < MaxFaults /\ db[i] # "gone"
  /\ \E a \in Callers : /\ call[a] # Idle /\ call[a].conn.id = i
                         /\ call[a].conn.dialect \notin {"sqlite", "duckdb"}
  /\ db' = [db EXCEPT ![i] = "gone"]
  /\ faults' = faults + 1
Returns(i) == db[i] # "up" /\ db' = [db EXCEPT ![i] = "up"] /\ UNCHANGED faults
Turns(i) ==
  /\ Slows(i) \/ Vanishes(i) \/ Returns(i)
  /\ UNCHANGED <<todo, call, open, adrift, answers, sweepVars>>

Timers == {"engine", "statement", "server", "driver", "probe"}
\* What happens of itself: the event loop runs what is ready, a timer fires, a thread
\* is taken, a database that answers does.
Goes(a) ==
  \/ Ask(a) \/ Probe(a) \/ TakeThread(a) \/ Answered(a) \/ Misread(a) \/ GivesUp(a)
  \/ \E t \in Timers : Expires(a, t)
ThreadsGo == \E g \in adrift : GoesOn(g)

Next ==
  \/ \E a \in Callers : Goes(a) \/ Fails(a) \/ Denied(a)
  \/ ThreadsGo
  \/ Commit
  \/ \E c \in ToSet(todo[Sweeper]) \cup {s.conn : s \in stamps} : Want(c)
  \/ \E c \in wanted : Delete(c)
  \/ \E i \in Ids : Turns(i)
Spec == Init /\ [][Next]_vars

\* Nothing obliges a database that is slow or gone to come back.
FairSpec ==
  /\ Spec
  /\ \A a \in Callers : WF_vars(Goes(a))
  /\ WF_vars(ThreadsGo)
  /\ WF_vars(Commit)
  /\ WF_vars(\E c \in wanted : Delete(c))

-----------------------------------------------------------------------------
Outcomes == {"rows", "error", "timeout", "unauthorized", "refused",
             "refused by the engine", "skipped"}
TypeOK ==
  /\ \A a \in Callers :
       /\ call[a] # Idle => /\ call[a].conn = Head(todo[a])
                            /\ call[a].pos \in 0 .. Len(Script(a, call[a].conn))
                            /\ call[a].outcome \in Outcomes \cup {None}
       /\ \A i \in DOMAIN answers[a] :
            answers[a][i].outcome \in Outcomes /\ answers[a][i].shape.rows \in Nat
  /\ \A o \in open : o[1] \in Callers /\ o[2].id \in Ids
  /\ \A g \in adrift : g.by \in Callers /\ Threaded(g.conn.dialect)
  /\ db \in [Ids -> {"up", "slow", "gone"}]
  /\ wanted \cup deleted \subseteq listed
  /\ sweep \in {"idle", "probing", "committed", "failed"}

\* Whatever failed, was denied or timed out on the way: once a caller has its answer,
\* what its call opened is closed, or held by a thread that still runs
\* (the finally of every execute, aclose in the caller's).
ReleasedOnceAnswered ==
  \A o \in open : \/ call[o[1]] # Idle /\ call[o[1]].conn = o[2]
                  \/ \E g \in adrift : g.by = o[1] /\ g.conn = o[2]

\* A sweep stamps every connection it listed, or none; it loses its stamps only to a
\* connection that was deleted meanwhile.
SweepAllOrNothing ==
  /\ sweep = "committed" => /\ {s.conn : s \in stamps} = listed
                             /\ Cardinality(stamps) = Cardinality(listed)
  /\ sweep = "failed" => deleted # {}

\* Whatever fails or is deleted meanwhile, nothing stays open and no stamp is half
\* written.
CallsSound == TypeOK /\ ReleasedOnceAnswered /\ SweepAllOrNothing

\* What the caller asked for, before anything was rewritten.
Wanted(q) ==
  CASE q.lang = "es" /\ q.size = {} -> IF "aggs" \in q.keys THEN q.rows ELSE Least(q.rows, 50)
    [] OTHER -> Sent(q)
\* An answer has the rows that were asked for, up to the cap: the limit the validator
\* puts in, the one the planner wrote and the engine's own cap never cost a row below
\* it.  Only the buckets of an aggregation go over it.  When it says truncated, the cap was
\* reached.
AsAsked(q, shape) ==
  IF q.lang = "es" /\ "aggs" \in q.keys THEN shape = [rows |-> q.rows, truncated |-> FALSE]
  ELSE IF q.lang = "rest" /\ ~q.body THEN shape.rows = 1
  ELSE /\ shape.rows = Least(Wanted(q), RowCap)
       /\ shape.truncated => Wanted(q) >= RowCap
RowsAsAsked ==
  \A a \in Callers \ {Sweeper} : \A i \in DOMAIN answers[a] :
    LET r == answers[a][i]
    IN r.outcome = "rows" => AsAsked(r.conn.ask, r.shape)

\* What the node let pass, as it rewrote it, the engine does not refuse, if the plan
\* declares the dialect of the connection.  That it does nothing checks: the node reads
\* the query as the one (query_validator.py:28-54), the engine as the other
\* (query_executor.py:101-106).
AcceptedTwice ==
  \A a \in Callers : \A i \in DOMAIN answers[a] :
    LET r == answers[a][i]
    IN r.outcome = "refused by the engine" => r.conn.declared # r.conn.dialect

\* A client-credentials connection is told `unauthorized' only after two tokens,
\* the second fetched after the first was turned down (rest_api.py:314).
DeniedTwice ==
  \A a \in Callers : \A i \in DOMAIN answers[a] :
    answers[a][i].outcome = "unauthorized" /\ answers[a][i].conn.oauth
      => answers[a][i].tokens = 2

\* A query that is answered means the same to the node, the engine and the server,
\* however often it is validated, limited and asked, and whatever dialect it was
\* validated as.
AnswersSound == RowsAsAsked /\ AcceptedTwice /\ DeniedTwice

\* The tables a name may stand for; what a query reads, each table once.
Meant(name, c) == {t \in ToSet(c.tables) : t.name = name.name /\ name.schema \in {None, t.schema}}
Scan(c) ==
  SumFunction([t \in UNION {Meant(name, c) : name \in c.ask.reads} |-> t.rows])
\* Of a name that several tables have the budget counts the first, and a table that
\* has two names it counts twice.
OneTableEach(c) ==
  \A m, n \in c.ask.reads : \A t \in Meant(m, c), u \in Meant(n, c) : m = n <=> t = u
\* What excuses a query from the budget: a limit at the top, one anywhere inside, an
\* aggregation that is alone (_has_strict_upper_bound); a size up to the cap,
\* aggregations, anything but a bare match_all (_check_es); a stage that groups or limits
\* (_check_mongo); a request over HTTP always.
Excused(q) ==
  CASE q.lang = "sql"   -> q.limit # {} \/ q.inner \/ q.lone
    [] q.lang = "es"    -> (\E n \in q.size : 1 <= n /\ n <= RowCap) \/ "aggs" \in q.keys \/ ~q.matchall
    [] q.lang = "mongo" -> \E s \in ToSet(q.pipeline) :
                             s.name = "$group" \/ (s.name = "$limit" /\ s.limit \in 1 .. RowCap)
    [] OTHER            -> TRUE
\* A query that nothing excuses gets its rows only when what it reads is within the
\* budget, and none that is within it, or excused, is refused for its budget
\* (row_budget_validator.py:104-128), as long as each of its names is that of one table.
BudgetKept ==
  \A a \in Callers \ {Sweeper} : \A i \in DOMAIN answers[a] :
    LET r == answers[a][i]  c == r.conn
    IN OneTableEach(c) =>
         /\ r.outcome = "rows" => Excused(c.ask) \/ Scan(c) <= ScanCap
         /\ r.outcome = "refused" => \/ ~Excused(c.ask) /\ Scan(c) > ScanCap
                                     \/ ~NodeValidates(c.ask, c.declared, c.catalog).ok

\* A question waits for ever only for a server that is gone, where the engine waits
\* for it as it closes or sets no limit of its own, and for a SQLite statement that
\* does not end.
NeverAnswered(a) ==
  /\ a # Sweeper /\ call[a] # Idle
  /\ LET c == call[a].conn
     IN \/ db[c.id] = "gone" /\ c.dialect \in {"postgres", "mysql", "mssql", "mongodb"}
        \/ db[c.id] = "slow" /\ c.dialect = "sqlite"
EveryCallAnswered ==
  \A a \in Callers : (call[a] # Idle) ~> (call[a] = Idle \/ NeverAnswered(a))

\* Whatever the databases it probes do, a sweep ends, and a connection that is deleted
\* meanwhile is deleted.
DeletesProceed == (wanted # {}) ~> (wanted \subseteq deleted)

\* A thread that outlived its caller comes back, with its connection closed, unless its
\* database still does not answer.
ThreadsComeBack ==
  (adrift # {}) ~> (adrift = {} \/ \E g \in adrift : db[g.conn.id] # "up")

\* Neither the callers of the pool nor its threads wait for ever on one another.
WaitsEnd == EveryCallAnswered /\ ThreadsComeBack

-----------------------------------------------------------------------------
\* mssql.py:13: the validator reads the statement with dialect="tsql".  A statement
\* its engine takes is not refused before it gets there.
NodeReadsEveryDialect ==
  \A a \in Callers : \A i \in DOMAIN answers[a] :
    LET r == answers[a][i]  c == r.conn
    IN r.outcome = "refused" /\ c.declared = c.dialect /\ c.dialect \in SqlDialects
         => ~EngineValidates(c.ask, c.dialect).ok

\* row_budget_validator.py:18-20: an aggregation without GROUP BY still scans the rows
\* underneath, `so the cap applies'; :229: it is a limit at the top that excuses.
\* It does not apply, and a limit anywhere does.
BudgetAsDocumented ==
  \A a \in Callers \ {Sweeper} : \A i \in DOMAIN answers[a] :
    LET r == answers[a][i]  c == r.conn
    IN r.outcome = "rows" /\ c.ask.lang = "sql" /\ OneTableEach(c)
         => c.ask.limit # {} \/ Scan(c) <= ScanCap

\* README.md:20-21: read-only `per dialect, at the parse layer'.  What runs was read as
\* the dialect of the database that runs it.
ReadAsItIsRun ==
  \A a \in Callers \ {Sweeper} :
    call[a] # Idle => call[a].query.lang = Language(call[a].conn.dialect)
=============================================================================
