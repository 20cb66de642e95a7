------------------------------ MODULE MCEngines ------------------------------
EXTENDS Engines

Sql(rows, limit) == [lang |-> "sql", parses |-> SqlglotNames, statements |-> 1, root |-> "select",
                     nodes |-> {}, limit |-> limit, rows |-> rows,
                     reads |-> {}, inner |-> FALSE, lone |-> FALSE]
Mongo(rows, stages) == [lang |-> "mongo", json |-> TRUE, missing |-> {}, system |-> FALSE,
                        pipeline |-> stages, rows |-> rows, reads |-> {}]
Stage(name, inside) == [name |-> name, limit |-> 0, inside |-> inside]
Es(rows, keys, size) == [lang |-> "es", json |-> TRUE, missing |-> {}, system |-> FALSE,
                         keys |-> keys, inside |-> {}, size |-> size, rows |-> rows,
                         matchall |-> FALSE, reads |-> {}]
Graphql(rows, ops) == [lang |-> "graphql", json |-> TRUE, missing |-> {}, parses |-> TRUE,
                       operations |-> ops, rows |-> rows, reads |-> {}]
Rest(rows, path) == [lang |-> "rest", json |-> TRUE, missing |-> {}, absolute |-> FALSE,
                     rooted |-> TRUE, path |-> path, method |-> "GET", body |-> TRUE,
                     rows |-> rows, reads |-> {}]

\* What the planner may write, with fewer rows than the cap, as many, and more.
Rows == {RowCap - 1, RowCap, RowCap + 1}
Asks(d) ==
  CASE d = "mongodb" ->
         LET q == Mongo(RowCap + 1, <<Stage("$match", {})>>)
         IN {Mongo(n, ss) : n \in Rows, ss \in {<<>>, <<LimitStage(1)>>, <<LimitStage(RowCap + 1)>>}}
              \cup {[q EXCEPT !.json = FALSE], [q EXCEPT !.missing = {"database", "pipeline"}],
                    [q EXCEPT !.system = TRUE], [q EXCEPT !.pipeline[1].name = "$out"],
                    [q EXCEPT !.pipeline[1].inside = {"$where", "$indexStats"}],
                    [q EXCEPT !.pipeline[1].name = "malformed"]}
    [] d = "elasticsearch" ->
         LET q == Es(RowCap, {"query"}, {})
         IN {Es(n, {"query"}, z) : n \in Rows, z \in {{1}, {RowCap + 1}}}
              \cup {Es(RowCap + 1, {"aggs"}, {}), q, [q EXCEPT !.json = FALSE],
                    [q EXCEPT !.missing = {"index"}], [q EXCEPT !.missing = {"body"}],
                    [q EXCEPT !.system = TRUE], [q EXCEPT !.keys = {"other"}],
                    [q EXCEPT !.inside = {"script"}]}
    [] d = "graphql" ->
         LET q == Graphql(RowCap + 1, {"query"})
         IN {Graphql(n, {"query"}) : n \in Rows}
              \cup {[q EXCEPT !.json = FALSE], [q EXCEPT !.missing = {"query"}],
                    [q EXCEPT !.missing = {"variables"}], [q EXCEPT !.parses = FALSE],
                    Graphql(1, {}), Graphql(1, {"mutation"})}
    [] d = "rest_api" ->
         LET q == Rest(RowCap, <<"items", "7">>)
         IN {Rest(n, <<"items", "7">>) : n \in Rows}
              \cup {[q EXCEPT !.body = FALSE], [q EXCEPT !.json = FALSE],
                    [q EXCEPT !.missing = {"endpoint"}], [q EXCEPT !.absolute = TRUE],
                    [q EXCEPT !.rooted = FALSE], [q EXCEPT !.path = <<"items", "..">>],
                    [q EXCEPT !.method = "POST"], [q EXCEPT !.method = None],
                    [q EXCEPT !.missing = {"params"}], [q EXCEPT !.path = <<"others", "7">>],
                    [q EXCEPT !.path = <<"items", "">>]}
    [] OTHER ->
         LET q == Sql(RowCap + 1, {})
         IN {Sql(n, l) : n \in Rows, l \in {{}, {1}, {RowCap + 1}}}
              \cup {[q EXCEPT !.parses = {}], [q EXCEPT !.statements = 0],
                    [q EXCEPT !.statements = 2], [q EXCEPT !.root = "insert"],
                    [q EXCEPT !.root = "subquery"], [q EXCEPT !.nodes = {"SYSTEM_TABLE"}]}

\* The tables of a bundle: three together are over the budget, and one alone.
Table(schema, name, rows) == [schema |-> schema, name |-> name, rows |-> rows]
Tables == <<Table("main", "small", 1), Table("main", "large", ScanCap),
            Table("other", "small", 2), Table("other", "huge", ScanCap + 1)>>
Named(schema, name) == [schema |-> schema, name |-> name]
\* What is asked of them, with and without a bound.
Reading(d, names) ==
  CASE d = "mongodb" -> {[Mongo(1, ss) EXCEPT !.reads = names] :
                           ss \in {<<>>, <<LimitStage(1)>>, <<LimitStage(RowCap + 1)>>,
                                   <<Stage("$match", {}), Stage("$group", {})>>}}
    [] d = "elasticsearch" -> {[Es(1, ks, z) EXCEPT !.reads = names, !.matchall = m] :
                                 ks \in {{"query"}, {"aggs"}}, z \in {{}, {1}, {RowCap + 1}},
                                 m \in BOOLEAN}
    [] OTHER -> {[Sql(1, l) EXCEPT !.reads = names, !.inner = i, !.lone = n] :
                   l \in {{}, {1}}, i \in BOOLEAN, n \in BOOLEAN}
Scanned(d) ==
  UNION {Reading(d, names) :
           names \in {{Named(None, "huge")}, {Named("main", "large")}, {Named(None, "unknown")}}
                     \cup (IF d = "postgres"
                           THEN {{Named("main", "large"), Named("other", "small")},
                                 {Named("main", "large"), Named(None, "small")},
                                 {Named("main", "large"), Named(None, "large")}} ELSE {})}

Most(d) == IF d = "duckdb" THEN {"path"} ELSE KeysOf(d)
Catalog(d) == IF d = "rest_api" THEN {<<"items", "{}">>} ELSE {}
Conn(id, d, ask) ==
  [id |-> id, dialect |-> d, keys |-> Most(d), attached |-> {}, readable |-> TRUE,
   oauth |-> FALSE, ask |-> ask, declared |-> d, catalog |-> Catalog(d), tables |-> Tables]
Usual(d) == CHOOSE q \in Asks(d) : q.rows = RowCap /\ NodeValidates(q, d, Catalog(d)).ok
Plain(id, d) == Conn(id, d, IF d = "mssql" THEN Sql(RowCap, {}) ELSE Usual(d))

Job(p, q, s) == [a \in {"first", "second", "sweep"} |->
                   CASE a = "first" -> p [] a = "second" -> q [] OTHER -> s]
\* One question, whatever it asks.
Questions ==
  UNION {{Job(<<Conn("c", d, q)>>, <<>>, <<>>) : q \in Asks(d)} : d \in Dialects}
Scans ==
  UNION {{Job(<<Conn("c", d, q)>>, <<>>, <<>>) : q \in Scanned(d)} :
           d \in {"postgres", "mongodb", "elasticsearch"}}
\* The plan declares another dialect than that of the connection.
Mismatched ==
  {Job(<<[Conn("c", d, Usual(e)) EXCEPT !.declared = e]>>, <<>>, <<>>) :
     d \in {"postgres", "oracle", "mssql", "mongodb"},
     e \in {"sqlite", "mongodb", "elasticsearch", "rest_api"}}
    \cup {Job(<<[Conn("c", d, [Sql(RowCap + 1, {}) EXCEPT !.parses = {"mysql"}])
                  EXCEPT !.declared = "mysql"]>>, <<>>, <<>>) :
           d \in {"postgres", "oracle", "mssql"}}
Odd ==
  {Job(<<[Plain("c", d) EXCEPT !.keys = {}]>>, <<>>, <<>>) : d \in Dialects}
    \cup {Job(<<[Plain("c", "rest_api") EXCEPT !.oauth = TRUE]>>, <<>>, <<>>),
          Job(<<[Plain("c", "duckdb") EXCEPT !.attached = {"txt"}]>>, <<>>, <<>>),
          Job(<<[Plain("c", "oracle") EXCEPT !.keys = (@ \ {"db_name"}) \cup {"service_name"}]>>,
              <<>>, <<>>)}
\* Two questions that share the threads.
Pairs ==
  {Job(<<Plain("c", d)>>, <<Plain("e", e)>>, <<>>) :
     d \in {"snowflake", "bigquery"}, e \in {"duckdb", "postgres"}}
\* A sweep of two connections, the second of them as it may be.
Sweeps ==
  {Job(<<>>, <<>>, <<Plain("c", d), e>>) :
     d \in {"postgres", "snowflake", "mongodb", "rest_api", "elasticsearch"},
     e \in {Plain("e", "mysql"), Plain("e", "mssql"), Plain("e", "oracle"), [Plain("e", "sqlite") EXCEPT !.readable = FALSE],
            [Plain("e", "mssql") EXCEPT !.keys = {}]}}

MCJobs == Questions \cup Mismatched \cup Scans \cup Odd \cup Pairs \cup Sweeps
=============================================================================
