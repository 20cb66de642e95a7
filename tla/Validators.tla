----------------------------- MODULE Validators -----------------------------
(***************************************************************************)
(* The read-only validators, one per kind of query                         *)
(* (services/*_validator.py), the chain the validator node and the         *)
(* federated executor pick from, the budget of rows a query may scan, and  *)
(* the second check that an engine makes of what it is given.              *)
(*                                                                         *)
(* A query is a record of what the validators look at; its limit is a set, *)
(* empty when it has none.  A result is the set of its findings, and the   *)
(* query as it was rewritten.                                              *)
(***************************************************************************)
EXTENDS Naturals, SequencesExt

CONSTANTS RowCap,  \* _DEFAULT_ROW_CAP, _DEFAULT_LIMIT, _MAX_SIZE, and the engines' row_cap
          ScanCap  \* MAX_PREDICTED_ROWS

ASSUME ValidatorsAssumption == RowCap \in Nat \ {0} /\ ScanCap \in Nat

None == "none"
SqlDialects == {"postgres", "sqlite", "mysql", "clickhouse", "oracle", "duckdb",
                "mssql", "snowflake", "bigquery"}
Dialects == SqlDialects \cup {"mongodb", "elasticsearch", "rest_api", "graphql"}

\* The names sqlglot reads SQL under: SQL Server is `tsql', and a name it does not know
\* it refuses.
SqlglotNames == (SqlDialects \ {"mssql"}) \cup {"tsql"}

\* What a connection of a dialect is asked in.
Language(d) ==
  CASE d = "mongodb"       -> "mongo"
    [] d = "elasticsearch" -> "es"
    [] d = "graphql"       -> "graphql"
    [] d = "rest_api"      -> "rest"
    [] OTHER               -> "sql"

Verdict(findings, q) == [ok |-> findings = {}, findings |-> findings, query |-> q]

-----------------------------------------------------------------------------
(* SQL: `parses' are the names under which sqlglot reads the statement.  Those that read  *)
(* it read the same tree, and read it with the limit put in, whichever wrote it out.     *)

\* The nodes of the tree that are refused, wherever they stand.
Refused == {"WRITE_OPERATION", "SYSTEM_TABLE", "DANGEROUS_FUNC", "INTO_OUTFILE"}

\* _maybe_inject_limit: a query that names a limit keeps it, and so does a root that
\* is neither a SELECT, nor a WITH around one, nor a UNION.
\* Mutant: a limit that stands there is written over.
MaybeInjectLimitAlways(q, cap) ==
  IF q.root \in {"select", "with", "union"} THEN [q EXCEPT !.limit = {cap}] ELSE q
MaybeInjectLimit(q, cap) ==
  IF q.root \in {"select", "with", "union"} /\ q.limit = {}
  THEN [q EXCEPT !.limit = {cap}] ELSE q

ValidateReadonly(q, d) ==
  IF d \notin q.parses THEN Verdict({"PARSE_ERROR"}, q)
  ELSE IF q.statements = 0 THEN Verdict({"EMPTY"}, q)
  ELSE IF q.statements > 1 THEN Verdict({"MULTI_STATEMENT"}, q)
  ELSE IF q.root \notin {"select", "with", "subquery", "union"}
  THEN Verdict({"NOT_SELECT"}, q)
  ELSE IF q.nodes \cap Refused # {} THEN Verdict(q.nodes \cap Refused, q)
  ELSE Verdict({}, MaybeInjectLimit(q, RowCap))

-----------------------------------------------------------------------------
(* MongoDB: a pipeline of stages [name, limit, inside] *)

AllowedStages == {"$match", "$group", "$sort", "$unwind", "$lookup", "$limit"}
BannedStages == {"$out", "$merge", "$indexStats"}
BannedMongoKeys == {"$out", "$merge", "$function", "$where"}

HasLimit(pipeline) == \E s \in ToSet(pipeline) : s.name = "$limit"
LimitStage(n) == [name |-> "$limit", limit |-> n, inside |-> {}]

\* A stage that is not allowed is not looked into; `inside' are the keys below one.
StageFindings(s) ==
  IF s.name = "malformed" THEN {"ENVELOPE_SHAPE"}
  ELSE IF s.name \notin AllowedStages \/ s.name \in BannedStages THEN {"BANNED_STAGE"}
  ELSE {f \in {"BANNED_KEY", "BANNED_STAGE"} :
          \E k \in s.inside : \/ f = "BANNED_KEY" /\ k \in BannedMongoKeys
                              \/ f = "BANNED_STAGE" /\ k \in BannedStages \ BannedMongoKeys}

ValidateMongo(q) ==
  IF ~q.json THEN Verdict({"PARSE_ERROR"}, q)
  ELSE LET missing == {"DATABASE_REQUIRED" : x \in q.missing \cap {"database"}}
                        \cup {"COLLECTION_REQUIRED" : x \in q.missing \cap {"collection"}}
           found == missing
                      \cup (IF q.system THEN {"SYSTEM_COLLECTION"} ELSE {})
                      \cup UNION {StageFindings(s) : s \in ToSet(q.pipeline)}
       IN IF "pipeline" \in q.missing THEN Verdict(missing \cup {"ENVELOPE_SHAPE"}, q)
          ELSE IF found # {} \/ HasLimit(q.pipeline) THEN Verdict(found, q)
          ELSE Verdict({}, [q EXCEPT !.pipeline = Append(@, LimitStage(RowCap))])

-----------------------------------------------------------------------------
(* Elasticsearch: a body with its keys, those below them, a size or none *)

AllowedBodyKeys == {"query", "aggs", "sort"}
BannedEsKeys == {"script", "runtime_mappings", "snapshot"}

EsSize(q) ==
  IF q.size = {} THEN (IF "aggs" \in q.keys THEN {0} ELSE {50})
  ELSE {IF n > RowCap THEN RowCap ELSE n : n \in q.size}

ValidateEs(q) ==
  IF ~q.json THEN Verdict({"PARSE_ERROR"}, q)
  ELSE LET missing == {"INDEX_REQUIRED" : x \in q.missing \cap {"index"}}
           found == missing
                      \cup (IF q.system THEN {"SYSTEM_INDEX"} ELSE {})
                      \cup {"BODY_KEY_NOT_ALLOWED" : k \in q.keys \ AllowedBodyKeys}
                      \cup {"BANNED_KEY" : k \in (q.keys \cup q.inside) \cap BannedEsKeys}
       IN IF "body" \in q.missing THEN Verdict(missing \cup {"BODY_SHAPE"}, q)
          ELSE IF found # {} THEN Verdict(found, q)
          ELSE Verdict({}, [q EXCEPT !.size = EsSize(q)])

-----------------------------------------------------------------------------
(* GraphQL: the operations of a document *)

GraphqlOperations(q) ==
  {"graphql_write_operation" : o \in q.operations \ {"query"}}

\* The validator of the node wants an operation, and variables that are an object.
ValidateGraphql(q) ==
  IF ~q.json THEN Verdict({"graphql_invalid_envelope"}, q)
  ELSE IF "query" \in q.missing THEN Verdict({"graphql_missing_query"}, q)
  ELSE IF "variables" \in q.missing THEN Verdict({"graphql_bad_variables"}, q)
  ELSE IF ~q.parses THEN Verdict({"graphql_parse_error"}, q)
  ELSE Verdict(GraphqlOperations(q)
                 \cup (IF q.operations = {} THEN {"graphql_no_operation"} ELSE {}), q)

\* The engine's own does not.
GraphqlEngineValidates(q) ==
  IF ~q.json THEN Verdict({"graphql_invalid_envelope"}, q)
  ELSE IF "query" \in q.missing THEN Verdict({"graphql_missing_query"}, q)
  ELSE IF ~q.parses THEN Verdict({"graphql_parse_error"}, q)
  ELSE Verdict(GraphqlOperations(q), q)

-----------------------------------------------------------------------------
(* REST: an endpoint, a method and parameters; the first finding ends it *)

\* _endpoint_matches: segment by segment, {name} standing for any one that is not empty.
EndpointMatches(path, template) ==
  /\ Len(path) = Len(template)
  /\ \A i \in 1 .. Len(path) :
       IF template[i] = "{}" THEN path[i] # "" ELSE path[i] = template[i]

ValidateApi(q, catalog) ==
  IF ~q.json THEN Verdict({"api_invalid_json"}, q)
  ELSE IF "endpoint" \in q.missing THEN Verdict({"api_missing_endpoint"}, q)
  ELSE IF q.absolute THEN Verdict({"api_absolute_url"}, q)
  ELSE IF ~q.rooted THEN Verdict({"api_invalid_endpoint"}, q)
  ELSE IF ".." \in ToSet(q.path) THEN Verdict({"api_path_traversal"}, q)
  ELSE IF q.method = None THEN Verdict({"api_missing_method"}, q)
  ELSE IF q.method # "GET" THEN Verdict({"api_method_not_get"}, q)
  ELSE IF "params" \in q.missing THEN Verdict({"api_invalid_param_type"}, q)
  ELSE IF catalog # {} /\ \A t \in catalog : ~EndpointMatches(q.path, t)
  THEN Verdict({"api_endpoint_not_in_catalog"}, q)
  ELSE Verdict({}, q)

-----------------------------------------------------------------------------
(* The rows a query may scan *)

\* _bundle_index: a table is found by its schema and name; by its name alone it is the
\* first of that name.  What is not profiled counts for nothing.
EstimateOf(name, tables) ==
  LET found == {i \in DOMAIN tables : /\ tables[i].name = name.name
                                      /\ name.schema \in {None, tables[i].schema}}
  IN IF found = {} THEN 0 ELSE tables[Min(found)].rows

\* _has_strict_upper_bound: a limit anywhere in the tree, or a root that only aggregates.
SqlBounded(q) == q.limit # {} \/ q.inner \/ q.lone
EsBounded(q) == (\E n \in q.size : n \in 1 .. RowCap) \/ "aggs" \in q.keys \/ ~q.matchall
MongoBounded(q) ==
  \E s \in ToSet(q.pipeline) :
    \/ s.name = "$group"
    \/ s.name = "$limit" /\ s.limit \in 1 .. RowCap
Bounded(q, d) ==
  CASE d \in {"rest_api", "graphql"} -> TRUE
    [] d = "elasticsearch" -> EsBounded(q)
    [] d = "mongodb"       -> MongoBounded(q)
    [] OTHER               -> SqlBounded(q)

\* validate_row_budget
WithinBudget(q, d, tables) ==
  Bounded(q, d) \/ SumFunction([name \in q.reads |-> EstimateOf(name, tables)]) <= ScanCap

-----------------------------------------------------------------------------
(* Queries *)

\* What a query tells them, in each language; the rows are those it finds.
AtMostOne == {ns \in SUBSET Nat : \A m, n \in ns : m = n}
Names == [schema : STRING, name : STRING]
Reads == {ns \in SUBSET Names : IsFiniteSet(ns)}
SqlQueries ==
  [lang : {"sql"}, parses : SUBSET SqlglotNames, statements : Nat, root : STRING, nodes : SUBSET STRING,
   limit : AtMostOne, rows : Nat, reads : Reads, inner : BOOLEAN, lone : BOOLEAN]
\* A stage that is not an object of one key is malformed.
StageNames == AllowedStages \cup BannedStages \cup {"malformed", "unknown"}
MongoStages == [name : StageNames, limit : Nat, inside : SUBSET STRING]
MongoQueries ==
  [lang : {"mongo"}, json : BOOLEAN, missing : SUBSET STRING, system : BOOLEAN,
   pipeline : Seq(MongoStages), rows : Nat, reads : Reads]
EsQueries ==
  [lang : {"es"}, json : BOOLEAN, missing : SUBSET STRING, system : BOOLEAN,
   keys : SUBSET STRING, inside : SUBSET STRING, size : AtMostOne, rows : Nat,
   matchall : BOOLEAN, reads : Reads]
GraphqlQueries ==
  [lang : {"graphql"}, json : BOOLEAN, missing : SUBSET STRING, parses : BOOLEAN,
   operations : SUBSET STRING, rows : Nat, reads : Reads]
RestQueries ==
  [lang : {"rest"}, json : BOOLEAN, missing : SUBSET STRING, absolute : BOOLEAN,
   rooted : BOOLEAN, path : Seq(STRING), method : STRING, body : BOOLEAN,
   rows : Nat, reads : Reads]
Queries == SqlQueries \cup MongoQueries \cup EsQueries \cup GraphqlQueries \cup RestQueries

-----------------------------------------------------------------------------
(* Which validator *)

\* query_validator.run and federated_executor._run_one; only the first has the catalog,
\* and the budget: that of the query as it was written, without the limit put in.  A
\* statement is no JSON, no envelope is a SELECT, and none has the keys that another
\* kind requires.
NodeValidates(q, d, catalog) ==
  IF q.lang # Language(d) THEN Verdict({"FOREIGN_LANGUAGE"}, q)
  ELSE CASE q.lang = "es"      -> ValidateEs(q)
         [] q.lang = "mongo"   -> ValidateMongo(q)
         [] q.lang = "rest"    -> ValidateApi(q, catalog)
         [] q.lang = "graphql" -> ValidateGraphql(q)
         [] OTHER              -> ValidateReadonly(q, d)
\* Mutant: the budget of the query with its limit put in, which always bounds it.
QueryValidatorAfterLimit(q, d, catalog, tables) ==
  LET v == NodeValidates(q, d, catalog)
  IN IF v.ok /\ ~WithinBudget(v.query, d, tables) THEN Verdict({"ROW_BUDGET_EXCEEDED"}, q) ELSE v
QueryValidator(q, d, catalog, tables) ==
  LET v == NodeValidates(q, d, catalog)
  IN IF v.ok /\ ~WithinBudget(q, d, tables) THEN Verdict({"ROW_BUDGET_EXCEEDED"}, q) ELSE v

\* execute of PostgreSQL and SQLite runs what it is given.
EngineValidates(q, d) ==
  IF d \in {"postgres", "sqlite"} THEN Verdict({}, q)
  ELSE IF q.lang # Language(d) THEN Verdict({"FOREIGN_LANGUAGE"}, q)
  ELSE CASE q.lang = "es"      -> ValidateEs(q)
         [] q.lang = "mongo"   -> ValidateMongo(q)
         [] q.lang = "rest"    -> ValidateApi(q, {})
         [] q.lang = "graphql" -> GraphqlEngineValidates(q)
         [] OTHER              -> ValidateReadonly(q, IF d = "mssql" THEN "tsql" ELSE d)
=============================================================================
