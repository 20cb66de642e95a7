----------------------------- MODULE EngineSchema -----------------------------
(***************************************************************************)
(* What a connection's schema becomes: introspect_schema of every engine   *)
(* (engines/*.py), and the profile (services/schema_profiler.py) that asks *)
(* for a sample of each column of each table it found.                     *)
(*                                                                         *)
(* A world is a database as it stands: its dialect, and tables with their  *)
(* columns, the foreign keys they declare, and their other constraints,    *)
(* the rules: a key (primary or unique) or a check.  A column's name is a  *)
(* path.                                                                   *)
(* An engine reads them from its catalogue, with the joins it makes there, *)
(* and from its rows.  ConnectionProfile takes all of this in one step of  *)
(* its task; the names here are apart from its names, so that the theorems *)
(* of one module can be about both.                                        *)
(***************************************************************************)
EXTENDS Naturals, FiniteSets, SequencesExt

CONSTANTS Worlds,
          DistinctCap,  \* values a sample lists
          TermsCap,     \* the same, for Elasticsearch
          Share,        \* a column is categorical with fewer than one value in Share rows
          Docs,         \* documents looked at in a collection
          IdNames,      \* names that _ID_NAME_PATTERN takes
          MaxFaults     \* bound: queries that fail

ASSUME EngineSchemaAssumption ==
  {DistinctCap, TermsCap, Share, Docs} \subseteq Nat \ {0} /\ MaxFaults \in Nat

VARIABLES world,    \* the database
          tables,   \* the tables of the bundle
          samples,  \* <<table, column>> |-> its sample
          left,     \* columns not sampled yet, in order
          try,      \* which query of a column's sample is next; 0: none of its queries made
          progress, \* introspecting, sampling, done, failed
          faults

schemaVars == <<world, tables, samples, left, try, progress, faults>>

-----------------------------------------------------------------------------
(* Foreign keys.  A key is [name, cols, to, refs, refers]: columns that    *)
(* stand for the columns refs of the table `to', a pair of a schema and a  *)
(* name, which that table's rule `refers' keeps apart.                     *)

Key(t) == <<t.schema, t.name>>
PairsOf(k) == {[from |-> <<k.cols[i]>>, to |-> k.to, refs |-> <<k.refs[i]>>] : i \in DOMAIN k.cols}
Declared(t) == UNION {PairsOf(k) : k \in t.keys}

\* The constraints that number their columns: every one but a check.
Numbered(t) == t.keys \cup {r \in t.rules : r.kind = "key"}
Beside(w, t) == {u \in w.tables : u.schema = t.schema}
Named(name, S) == {c \in S : c.name = name}

\* key_column_usage and constraint_column_usage: the columns a constraint is on, and those
\* it refers to, which are its own where it is no foreign key.
UsedAs(u, name) == UNION {ToSet(c.cols) : c \in Named(name, Numbered(u))}
ReferredAs(u, name) ==
  (UNION {{k.to} \X ToSet(k.refs) : k \in Named(name, u.keys)})
    \cup (UNION {{Key(u)} \X ToSet(r.cols) : r \in Named(name, u.rules)})

\* Joined by the constraint's name alone, so that a namesake of it in the schema lends its
\* columns and one anywhere what it refers to.  Only the owner of a table sees that.
\* Mutant: joined by the columns' names instead.
PostgresKeysByColumn(w, t) ==
  IF ~w.owner THEN {}
  ELSE {[from |-> <<k.cols[1]>>, to |-> k.to, refs |-> <<k.cols[1]>>] : k \in t.keys}
PostgresKeys(w, t) ==
  LET Used(name) == UNION {UsedAs(u, name) : u \in Beside(w, t)}
      Referred(name) == UNION {ReferredAs(u, name) : u \in w.tables}
  IN IF ~w.owner THEN {}
     ELSE UNION {{[from |-> <<f>>, to |-> p[1], refs |-> <<p[2]>>] :
                  f \in Used(k.name), p \in Referred(k.name)} : k \in t.keys}

MysqlKeys(w, t) == Declared(t)
SqliteKeys(w, t) == Declared(t)
MssqlKeys(w, t) == Declared(t)
\* The rule a key refers to is looked for by its name among the user's own constraints: it
\* is not found where it is another schema's, but a namesake of it is.
OracleKeys(w, t) ==
  LET Pairs(k, u, c) == {[from |-> <<k.cols[i]>>, to |-> Key(u), refs |-> <<c.cols[i]>>] :
                           i \in DOMAIN k.cols \cap DOMAIN c.cols}
  IN UNION {UNION {UNION {Pairs(k, u, c) : c \in Named(k.refers, Numbered(u))} :
                   u \in Beside(w, t)} : k \in t.keys}
\* A key stays whole.  duckdb_constraints() may fail.
DuckdbKeys(w, t) == {[from |-> k.cols, to |-> <<t.schema, k.to[2]>>, refs |-> k.refs] : k \in t.keys}

KeysFound(w, t) ==
  CASE w.dialect = "postgres" -> PostgresKeys(w, t)
    [] w.dialect = "mysql"    -> MysqlKeys(w, t)
    [] w.dialect = "sqlite"   -> SqliteKeys(w, t)
    [] w.dialect = "mssql"    -> MssqlKeys(w, t)
    [] w.dialect = "oracle"   -> OracleKeys(w, t)
    [] w.dialect = "duckdb"   -> DuckdbKeys(w, t)
    [] OTHER                  -> {}

\* fk_to of a column: its first key column's target; of several, the last one read.
TargetsOf(fks, c) == {<<p.to, p.refs[1]>> : p \in {q \in fks : q.from[1] = c}}

-----------------------------------------------------------------------------
(* Tables and columns *)

SystemSchemas(d) ==
  CASE d = "postgres" -> {"pg_catalog", "information_schema", "pg_toast"}
    [] d = "mssql"    -> {"sys", "INFORMATION_SCHEMA"}
    [] d = "duckdb"   -> {"information_schema", "pg_catalog"}
    [] d = "snowflake" -> {"INFORMATION_SCHEMA"}
    [] OTHER          -> {}
\* Schemas an engine looks into: the one it is configured with, or all but the system's.
InScope(w, t) ==
  IF w.dialect \in {"mysql", "clickhouse", "bigquery", "oracle", "sqlite", "mongodb"}
  THEN t.schema = w.db ELSE t.schema \notin SystemSchemas(w.dialect)

\* Views count for ClickHouse and MongoDB, which have no filter, and DuckDB, where an
\* attached file is one.
\* A name is `internal' when the engine skips it by its prefix: sqlite_, system., a dot, __.
\* Mutant: DuckDB lists base tables only.
ListedBase(w, t) == InScope(w, t) /\ ~t.internal /\ (t.kind = "view" => w.dialect \in {"clickhouse", "mongodb"})
Listed(w, t) ==
  /\ InScope(w, t) /\ ~t.internal
  /\ t.kind = "view" => w.dialect \in {"clickhouse", "mongodb", "duckdb"}

\* Snowflake, BigQuery and the others that describe themselves: a column as it is told.
Told(t) == {[name |-> c.name, type |-> c.type, pk |-> c.name \in t.pk] : c \in ToSet(t.cols)}
Unkeyed(t) == {[name |-> c.name, type |-> c.type, pk |-> FALSE] : c \in ToSet(t.cols)}

\* MongoDB: the top-level keys of the first documents, each with the type of its first
\* value that is not null; _id when there is none.
FirstDocs(t) == SubSeq(t.docs, 1, IF Len(t.docs) < Docs THEN Len(t.docs) ELSE Docs)
TypeIn(docs, k) ==
  LET typed == SelectSeq(docs, LAMBDA doc : k \in DOMAIN doc /\ doc[k] # "null")
  IN IF typed = <<>> THEN "null" ELSE Head(typed)[k]
InferColumns(t) ==
  LET docs == FirstDocs(t)
      names == UNION {DOMAIN doc : doc \in ToSet(docs)}
  IN IF names = {} THEN {[name |-> <<"_id">>, type |-> "objectid", pk |-> TRUE]}
     ELSE {[name |-> <<k>>, type |-> TypeIn(docs, k), pk |-> k = "_id"] : k \in names}

\* Elasticsearch: every node of the mapping, a dotted path; a parent is structural.
FlattenProperties(t) ==
  {[name |-> p, pk |-> FALSE,
    type |-> IF \E q \in DOMAIN t.mapping : IsStrictPrefix(p, q) THEN "object" ELSE t.mapping[p]] :
   p \in DOMAIN t.mapping}

\* GraphQL: the fields of the type a root field leads to; a root field of a scalar has none.
\* The introspection query asks for the type of a root field through three wrappers, for
\* that of its fields through one: the name of a type in more is not in the answer.
RootWrappers == 3
FieldWrappers == 1
Unwrap(ref, asked) == IF ref.wraps <= asked THEN ref.name ELSE "none"
GraphqlColumns(w, t) ==
  LET inner == Unwrap(t.type, RootWrappers)
  IN IF inner \notin DOMAIN w.types THEN {}
     ELSE {[name |-> <<f>>, pk |-> FALSE,
            type |-> LET n == Unwrap(w.types[inner][f], FieldWrappers)
                     IN IF n = "none" THEN "Unknown" ELSE n] :
           f \in DOMAIN w.types[inner]}

\* REST: what a response holds, and the parameters, marked.
RestColumns(t) ==
  {[name |-> <<f>>, type |-> t.fields[f], pk |-> FALSE] : f \in DOMAIN t.fields}
    \cup {[name |-> <<"@", p>>, type |-> "param", pk |-> FALSE] : p \in t.params}

ColumnsFound(w, t) ==
  CASE w.dialect = "mongodb"       -> InferColumns(t)
    [] w.dialect = "elasticsearch" -> FlattenProperties(t)
    [] w.dialect = "graphql"       -> GraphqlColumns(w, t)
    [] w.dialect = "rest_api"      -> RestColumns(t)
    [] w.dialect \in {"duckdb", "bigquery"} -> Unkeyed(t)
    [] OTHER                       -> Told(t)

\* An index without a field is left out.
Found(w) ==
  {t \in w.tables : Listed(w, t) /\ (w.dialect = "elasticsearch" => ColumnsFound(w, t) # {})}

-----------------------------------------------------------------------------
(* What an engine cannot read *)

\* PostgreSQL looks a table up as `schema.name'::regclass, SQLite names it bare: neither
\* quotes.  A SQLite key that leaves its target columns to the parent's primary key has
\* no name for them, which ForeignKeyMeta does not take.
Unreadable(w, t) ==
  \/ w.dialect \in {"postgres", "sqlite"} /\ t.quoted
  \/ /\ w.dialect = "sqlite"
     /\ \E k \in t.keys : k.implicit

Counted == {"postgres", "sqlite", "mysql", "mssql", "oracle", "duckdb"}
\* Column types, as the substrings of their names sort them: `int' stands in interval, too.
Textual(c) == c.type = "text"
Numeric(d, c) == c.type = "number" \/ (d = "postgres" /\ c.type = "interval")
Temporal(d, c) == d \in {"mssql", "oracle"} /\ c.type \in {"time", "interval"}
\* PostgreSQL has no equality for json; an interval is no float; `__null__' is no number.
Impossible(d, c, query) ==
  \/ d = "postgres" /\ query = "count" /\ c.type = "json"
  \/ d = "postgres" /\ query = "stats" /\ c.type = "interval"
  \/ d = "elasticsearch" /\ c.type = "number"

-----------------------------------------------------------------------------
(* The sample of a column: how each engine goes about it.  `ids' says what *)
(* it does for an id, `counts' what becomes of a count that fails, `fails' *)
(* of another query.                                                       *)

Sampler(ids, counts, fails) == [ids |-> ids, counts |-> counts, fails |-> fails]
PostgresSample == Sampler("connect", "raise", "raise")
SqliteSample == Sampler("connect", "nothing", "next")
DuckdbSample == Sampler("connect", "nothing", "next")
MysqlSample == Sampler("skip", "raise", "nothing")
MssqlSample == Sampler("skip", "nothing", "nothing")
OracleSample == Sampler("skip", "nothing", "nothing")
ClickhouseSample == Sampler("skip", "none", "nothing")
\* The client is there already.
MongoSample == Sampler("skip", "none", "nothing")
ElasticsearchSample == Sampler("sample", "none", "nothing")
\* Sampling costs credits or a quota.
NoSample == Sampler("skip", "none", "nothing")

SamplerOf(d) ==
  CASE d = "postgres" -> PostgresSample [] d = "sqlite" -> SqliteSample
    [] d = "duckdb" -> DuckdbSample [] d = "mysql" -> MysqlSample
    [] d = "mssql" -> MssqlSample [] d = "oracle" -> OracleSample
    [] d = "clickhouse" -> ClickhouseSample [] d = "mongodb" -> MongoSample
    [] d = "elasticsearch" -> ElasticsearchSample [] OTHER -> NoSample
Connects(d) == d \in Counted \cup {"clickhouse"}

\* A column is categorical when it is text, or has few values for its rows.
FewValues(c) == Cardinality(c.values) <= DistinctCap /\ Cardinality(c.values) * Share < c.rows

\* The queries of a sample, in order.
Queries(d, c) ==
  CASE d \in Counted ->
         IF Temporal(d, c) THEN <<>>
         ELSE <<"count">> \o (IF Textual(c) \/ FewValues(c) THEN <<"distinct">> ELSE <<>>)
                          \o (IF Numeric(d, c) THEN <<"stats">> ELSE <<>>) \o <<"some">>
    [] d = "clickhouse" -> IF Textual(c) THEN <<"distinct">>
                           ELSE IF Numeric(d, c) THEN <<"stats">> ELSE <<>>
    [] d = "mongodb" -> <<"distinct">> \o (IF Numeric(d, c) THEN <<"stats">> ELSE <<>>)
    [] d = "elasticsearch" -> IF c.type \in {"object", "nested", "geo"} THEN <<>> ELSE <<"terms">>
    [] OTHER -> <<>>

Empty == [listed |-> {}, truncated |-> FALSE, stats |-> FALSE, rows |-> {}]
Null == 0

\* What a list of at most n values may be: GROUP BY keeps no order.  MongoDB counts the
\* null as one of them, and then drops it; ClickHouse lists it.
Few(n, S) == IF Cardinality(S) <= n THEN {S} ELSE kSubset(n, S)
Groups(d, c) == c.values \cup (IF d \in {"mongodb", "clickhouse", "elasticsearch"} /\ c.null
                               THEN {Null} ELSE {})
\* Mutant: a full page is taken for all there is.
DistinctsFull(d, c) ==
  {[Empty EXCEPT !.listed = S \ {Null}] : S \in Few(DistinctCap, Groups(d, c))}
Distincts(d, c) ==
  UNION {LET vals == IF d = "mongodb" THEN S \ {Null} ELSE S
         IN {[Empty EXCEPT !.listed = T, !.truncated = Cardinality(vals) > DistinctCap] :
               T \in Few(DistinctCap, vals)} :
         S \in Few(DistinctCap + 1, Groups(d, c))}
Terms(d, c) ==
  {[Empty EXCEPT !.listed = S \ {Null}, !.truncated = Cardinality(S) >= TermsCap] :
     S \in Few(TermsCap, Groups(d, c))}
\* Five rows.
SomeRows(c) == {[Empty EXCEPT !.rows = c.values]}

-----------------------------------------------------------------------------
Table(w, t) ==
  [key |-> Key(t), cols |-> ColumnsFound(w, t), fks |-> KeysFound(w, t)]

\* A database has finitely many tables, each with a name and columns with names of their
\* own; a key pairs columns.  A DuckDB key stays in its schema.  In Oracle a name is that of
\* one constraint of its schema, and a key refers to a rule that is there.
ASSUME WorldsAssumption ==
  \A w \in Worlds :
    /\ IsFiniteSet(w.tables)
    /\ \A t, u \in w.tables : Key(t) = Key(u) => t = u
    /\ \A t \in w.tables :
         /\ Listed(w, t) => IsFiniteSet(ColumnsFound(w, t))
         /\ t.keys \cap t.rules = {}
         /\ \A c, d \in ToSet(t.cols) : c.name = d.name => c = d
         /\ \A c \in ToSet(t.cols) : IsFiniteSet(c.values) /\ Null \notin c.values
         /\ \A k \in t.keys :
              /\ {k.cols, k.refs} \subseteq Seq(Seq(STRING)) \ {<<>>}
              /\ Len(k.cols) = Len(k.refs)
              /\ k.to \in STRING \X STRING
              /\ w.dialect = "duckdb" => k.to[1] = t.schema
         /\ w.dialect = "oracle" =>
              /\ \A u \in Beside(w, t) : \A c \in Numbered(t), d \in Numbered(u) :
                   c.name = d.name => t = u /\ c = d
              /\ \A k \in t.keys : k.to[1] = t.schema =>
                   \E u \in Beside(w, t) : \E c \in Named(k.refers, Numbered(u)) :
                     k.to = Key(u) /\ k.refs = c.cols

\* _apply_id_heuristic.  No engine fills is_unique in.
IsId(col) == col.pk \/ col.name \in IdNames

SchemaInit ==
  /\ world \in Worlds
  /\ tables = {} /\ samples = <<>> /\ left = <<>> /\ try = 0
  /\ progress = "introspecting" /\ faults = 0

IntrospectSchema ==
  /\ progress = "introspecting"
  /\ \A t \in Found(world) : ~Unreadable(world, t)
  /\ tables' = {Table(world, t) : t \in Found(world)}
  /\ left' = SetToSeq(UNION {{t.key} \X t.cols : t \in tables'})
  /\ progress' = "sampling"
  /\ UNCHANGED <<world, samples, try, faults>>

\* A failure goes up, but for DuckDB's keys and the estimates that are best effort.
IntrospectFails ==
  /\ progress = "introspecting"
  /\ \/ (\E t \in Found(world) : Unreadable(world, t)) /\ UNCHANGED faults
     \/ faults < MaxFaults /\ faults' = faults + 1
  /\ progress' = "failed"
  /\ UNCHANGED <<world, tables, samples, left, try>>

\* A GraphQL endpoint that does not tell its schema may say so with 200 and no data, and the
\* document at the address of an OpenAPI specification may hold no paths: there is nothing
\* to list, and nothing has failed.
Denies == {"graphql", "rest_api"}
Denied ==
  /\ progress = "introspecting" /\ world.dialect \in Denies
  /\ faults < MaxFaults /\ faults' = faults + 1
  /\ tables' = {} /\ left' = <<>>
  /\ progress' = "sampling"
  /\ UNCHANGED <<world, samples, try>>

KeysUnread ==
  /\ progress = "introspecting" /\ world.dialect = "duckdb"
  /\ faults < MaxFaults /\ faults' = faults + 1
  /\ tables' = {[Table(world, t) EXCEPT !.fks = {}] : t \in Found(world)}
  /\ left' = SetToSeq(UNION {{t.key} \X t.cols : t \in tables'})
  /\ progress' = "sampling"
  /\ UNCHANGED <<world, samples, try>>

-----------------------------------------------------------------------------
\* A column of which no row has a value.
Unheld == [values |-> {}, null |-> TRUE, rows |-> 1]

\* The column that is sampled, with what its table holds.
Column == Head(left)
Behind ==
  LET t == CHOOSE u \in world.tables : Key(u) = Column[1]
      held == {c \in ToSet(t.cols) : c.name = Column[2].name}
      there == IF held = {} THEN Unheld ELSE CHOOSE c \in held : TRUE
  IN [name |-> Column[2].name, type |-> Column[2].type,
      values |-> there.values, null |-> there.null, rows |-> there.rows]
Here == <<Column[1], Column[2].name>>
Made == Queries(world.dialect, Behind)
How == SamplerOf(world.dialect)

Sampled(s) ==
  /\ samples' = [k \in DOMAIN samples \cup {Here} |-> IF k = Here THEN s ELSE samples[k]]
  /\ left' = Tail(left) /\ try' = 0
  /\ UNCHANGED <<world, tables, progress>>
Abort ==
  /\ progress' = "failed"
  /\ UNCHANGED <<world, tables, samples, left, try>>

\* An id is not looked at, nor a column no query is made for.
Skipped == (IsId(Column[2]) /\ How.ids # "sample") \/ Made = <<>>
Skip ==
  /\ progress = "sampling" /\ left # <<>> /\ try = 0 /\ Skipped
  /\ Sampled(Empty) /\ UNCHANGED faults

\* The connection of a sample cannot be made: PostgreSQL, SQLite and DuckDB make one for
\* an id, too.
ConnectFails ==
  /\ progress = "sampling" /\ left # <<>> /\ try = 0 /\ Connects(world.dialect)
  /\ IsId(Column[2]) => How.ids = "connect"
  /\ faults < MaxFaults /\ faults' = faults + 1
  /\ Abort

Begin ==
  /\ progress = "sampling" /\ left # <<>> /\ try = 0 /\ ~Skipped
  /\ try' = 1
  /\ UNCHANGED <<world, tables, samples, left, progress, faults>>

Query ==
  /\ progress = "sampling" /\ try > 0
  /\ ~Impossible(world.dialect, Behind, Made[try])
  /\ LET query == Made[try]
     IN \/ /\ query = "count" /\ try' = try + 1
           /\ UNCHANGED <<world, tables, samples, left, progress>>
        \/ query = "distinct" /\ \E s \in Distincts(world.dialect, Behind) :
             \* MongoDB goes on to the numbers of a column it has listed.
             Sampled([s EXCEPT !.stats = (world.dialect = "mongodb" /\ Len(Made) = 2)])
        \/ query = "terms" /\ \E s \in Terms(world.dialect, Behind) : Sampled(s)
        \/ query = "stats" /\ Sampled([Empty EXCEPT !.stats = TRUE])
        \/ query = "some" /\ \E s \in SomeRows(Behind) : Sampled(s)
  /\ UNCHANGED faults

\* The numbers of a MongoDB column cannot be had: its list stays.
StatsFail ==
  /\ progress = "sampling" /\ try = 1 /\ world.dialect = "mongodb" /\ Len(Made) = 2
  /\ faults < MaxFaults /\ faults' = faults + 1
  /\ \E s \in Distincts(world.dialect, Behind) : Sampled(s)

After(how, query) == IF query = "count" THEN how.counts ELSE how.fails
QueryFails ==
  /\ progress = "sampling" /\ try > 0
  /\ \/ Impossible(world.dialect, Behind, Made[try]) /\ UNCHANGED faults
     \/ faults < MaxFaults /\ faults' = faults + 1
  /\ \/ After(How, Made[try]) = "raise" /\ Abort
     \/ After(How, Made[try]) = "nothing" /\ Sampled(Empty)
     \/ /\ After(How, Made[try]) \in {"none", "next"}
        /\ IF try < Len(Made)
           THEN try' = try + 1 /\ UNCHANGED <<world, tables, samples, left, progress>>
           ELSE Sampled(Empty)

Finish ==
  /\ progress = "sampling" /\ left = <<>>
  /\ progress' = "done"
  /\ UNCHANGED <<world, tables, samples, left, try, faults>>

SchemaNext ==
  \/ IntrospectSchema \/ IntrospectFails \/ Denied \/ KeysUnread
  \/ Skip \/ ConnectFails \/ Begin \/ Query \/ StatsFail \/ QueryFails \/ Finish
SchemaSpec == SchemaInit /\ [][SchemaNext]_schemaVars

-----------------------------------------------------------------------------
\* Every column found is sampled or waits for it, once.
SchemaTypeOK ==
  /\ progress \in {"introspecting", "sampling", "done", "failed"}
  /\ try \in 0 .. 4 /\ faults \in 0 .. MaxFaults
  /\ \A t \in tables : \E u \in world.tables : t.key = <<u.schema, u.name>>
  /\ {<<c[1], c[2].name>> : c \in ToSet(left)} \cap DOMAIN samples = {}

Source(key) == CHOOSE t \in world.tables : Key(t) = key
Split(fks) == UNION {{[from |-> <<p.from[i]>>, to |-> p.to, refs |-> <<p.refs[i]>>] :
                      i \in DOMAIN p.from} : p \in fks}
\* The catalogue joins cannot take one constraint for another: in PostgreSQL a key has one
\* column and a name that is no other constraint's; in Oracle one that refers to another
\* schema names no constraint at home.
Plain(w) ==
  \A t \in w.tables : \A k \in t.keys :
    /\ w.dialect = "postgres" =>
         /\ Len(k.cols) = 1
         /\ \A u \in w.tables : \A c \in u.keys \cup u.rules : k.name = c.name => t = u /\ k = c
    /\ w.dialect = "oracle" /\ k.to[1] # t.schema =>
         \A u \in Beside(w, t) : Named(k.refers, Numbered(u)) = {}
\* The foreign keys the database declares are in the bundle, column for column, whatever
\* the constraints are called: but Oracle's to another schema, all of DuckDB's when it cannot
\* read its constraints, and PostgreSQL's in the tables of someone else.  No others are, and
\* the quick link of a column leads where one of its keys does, where the names do not
\* mislead (the joins of introspect_schema).
KeysAsDeclared ==
  world.dialect \in Counted =>
  \A t \in tables :
    LET src == Source(t.key)
    IN /\ (world.dialect = "postgres" => world.owner) =>
            \A p \in Declared(src) :
              \/ p \in Split(t.fks)
              \/ world.dialect = "oracle" /\ p.to[1] # t.key[1]
              \/ world.dialect = "duckdb" /\ t.fks = {} /\ faults > 0
       /\ Plain(world) =>
            /\ Split(t.fks) \subseteq Declared(src)
            /\ \A c \in t.cols : \A target \in TargetsOf(t.fks, c.name) :
                 [from |-> <<c.name>>, to |-> target[1], refs |-> <<target[2]>>] \in Declared(src)

\* A list of values that is not said to be cut is all of them, whichever of them the
\* server chose to send: the planner takes it for the domain of the column.  MongoDB
\* counts a null against its limit and is the exception.
SampleSaysAll ==
  \A k \in DOMAIN samples :
    LET s == samples[k]
        held == {c \in ToSet(Source(k[1]).cols) : c.name = k[2]}
    IN s.listed # {} => \A c \in held :
         /\ s.listed \subseteq c.values \cup {Null}
         /\ \/ s.truncated \/ c.values \subseteq s.listed
            \/ world.dialect = "mongodb" /\ c.null

\* One query that fails ends a profile only when the introspection makes it, when it is
\* a connection of its own, or the count of PostgreSQL or MySQL; and where nothing fails, what
\* ends it is a name that is not quoted, a key that names no columns, or a type of
\* PostgreSQL's that cannot be counted or averaged.
SurvivesBadColumns ==
  progress = "failed" =>
    IF faults = 0
    THEN \/ \E t \in world.tables : Unreadable(world, t)
         \/ world.dialect = "postgres" /\ \E t \in world.tables : \E c \in ToSet(t.cols) :
              c.type \in {"json", "interval"}
    ELSE tables = {} \/ world.dialect \in Counted \cup {"clickhouse"}

\* A profile that is done has every base table the connection is for, every attached
\* file, and a sample for each of their columns; or no table at all, where an endpoint's
\* refusal passes for an answer.
WholeDatabase ==
  progress = "done" =>
    \/ tables = {} /\ world.dialect \in Denies /\ faults > 0
    \/ \A t \in world.tables :
         InScope(world, t) /\ ~t.internal /\ (t.kind = "view" => world.dialect = "duckdb") =>
           \A c \in ColumnsFound(world, t) : <<Key(t), c.name>> \in DOMAIN samples

\* A profile takes all of the database, or fails for a reason it cannot help.
ProfileSound == SchemaTypeOK /\ SurvivesBadColumns /\ WholeDatabase

-----------------------------------------------------------------------------
\* schema_profiler.py:27: introspect and sample every column in every table.  Where no
\* query fails of itself, the profile does not either.
EveryTableProfiled == faults = 0 => progress # "failed"

\* The same line, and graphql.py:138-142, which raises `introspection failed': a profile that
\* is done has what there was to list.
DoneIsProfiled == progress = "done" => Cardinality(tables) = Cardinality(Found(world))

\* oracle.py:202-203: referenced columns are resolved through r_constraint_name, `the constraint
\* on the parent table'; postgres.py:108: foreign keys.  No key is made up.
NoKeyInvented ==
  world.dialect \in Counted => \A t \in tables : Split(t.fks) \subseteq Declared(Source(t.key))

\* graphql.py:397-398: drill through NON_NULL and LIST wrappers and return the underlying type.
WrappersComeOff ==
  world.dialect = "graphql" => \A t \in tables : \A c \in t.cols : c.type # "Unknown"
=============================================================================
