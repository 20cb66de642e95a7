--------------------------- MODULE Engines_proofs ---------------------------
(***************************************************************************)
(* Proofs about the calls of the engines: whatever fails, is denied or     *)
(* times out, what a call opened is closed or held by a thread, a sweep    *)
(* stamps all of its connections or none, and a query means the same to    *)
(* its node, its engine and its server, for any connections, callers,      *)
(* threads and faults.                                                     *)
(***************************************************************************)
EXTENDS Engines, SequenceLemmas, FiniteSetTheorems, SequenceTheorems, WellFoundedInduction, TLAPS

-----------------------------------------------------------------------------
(* The inductive invariant *)

\* How a call may end.
Ends == {"rows", "error", "timeout", "unauthorized"}
Shapes == [rows : Nat, truncated : BOOLEAN]
CallRecord ==
  [conn : Connections, query : Queries, pos : Nat, fired : SUBSET (Timers \cup {"retry"}),
   tokens : Nat, outcome : Ends \cup {None}]
Answers == [conn : Connections, outcome : Outcomes, shape : Shapes, tokens : Nat]
Threads == {g \in [by : Callers, conn : Connections, pos : Nat] : Threaded(g.conn.dialect)}
Stamps == [conn : Connections, ok : BOOLEAN]

TypeInv ==
  /\ todo \in [Callers -> Seq(Connections)]
  /\ call \in [Callers -> CallRecord \cup {Idle}]
  /\ open \subseteq Callers \X Connections
  /\ adrift \subseteq Threads
  /\ answers \in [Callers -> Seq(Answers)]
  /\ db \in [Ids -> {"up", "slow", "gone"}]
  /\ stamps \subseteq Stamps /\ IsFiniteSet(stamps)
  /\ sweep \in {"idle", "probing", "committed", "failed"}

\* The tokens fetched so far for a request that may be turned down once.
TokensCounted(r) ==
  /\ r.pos > 0
  /\ r.pos = 1 => r.tokens = IF "retry" \in r.fired THEN 1 ELSE 0
  /\ r.pos \in {2, 3} => r.tokens = IF "retry" \in r.fired THEN 2 ELSE 1

\* What the node has let pass (query_validator.run).
Admitted(c) == QueryValidator(c.ask, c.declared, c.catalog, c.tables).ok

\* The query is in the language of the database it is for.
Understood(r) == r.query.lang = Language(r.conn.dialect)

\* A call under way: it is the next one of its caller; what it will answer, when all
\* goes well and its database speaks its language, is what was asked; before it closes it knows how it ends.
CallOK(a, r) ==
  /\ todo[a] # <<>> /\ r.conn = Head(todo[a])
  /\ r.pos <= Len(Script(a, r.conn))
  /\ r.pos = Len(Script(a, r.conn)) => r.outcome # None
  /\ r.outcome = "unauthorized" =>
       /\ a # Sweeper /\ r.conn.dialect = "rest_api"
       /\ r.pos = Len(Script(a, r.conn))
       /\ r.conn.oauth => r.tokens = 2
  /\ a # Sweeper => Admitted(r.conn)
  /\ a # Sweeper /\ Understood(r) => /\ ResultOf(r.conn.dialect, r.query) \in Shapes
                                /\ AsAsked(r.conn.ask, ResultOf(r.conn.dialect, r.query))
  /\ a # Sweeper /\ r.outcome = "rows" => Understood(r)
  /\ a # Sweeper /\ r.conn.dialect = "rest_api" /\ r.conn.oauth => TokensCounted(r)

\* What was answered.
AnswerOK(a, r) ==
  /\ r.outcome = "refused by the engine" => r.conn.declared # r.conn.dialect
  /\ r.outcome = "unauthorized" /\ r.conn.oauth => r.tokens = 2
  /\ a # Sweeper /\ r.outcome = "rows" => AsAsked(r.conn.ask, r.shape) /\ Admitted(r.conn)
  /\ a # Sweeper /\ r.outcome = "refused" => ~Admitted(r.conn)

\* What is open belongs to a call that has begun, or to a thread that is adrift.
Held(o) == call[o[1]] # Idle /\ call[o[1]].conn = o[2] /\ call[o[1]].pos > 0
Drifting(o) == \E g \in adrift : g.by = o[1] /\ g.conn = o[2]

Stamped == {s.conn : s \in stamps}
SweepInv ==
  /\ sweep = "probing" => listed = ToSet(todo[Sweeper]) \cup Stamped
  /\ sweep # "probing" => call[Sweeper] = Idle /\ todo[Sweeper] = <<>>
  /\ sweep = "committed" => listed = Stamped
  /\ sweep = "failed" => deleted # {}
  /\ \A s, t \in stamps : s.conn = t.conn => s = t
  /\ \A m, n \in DOMAIN todo[Sweeper] : todo[Sweeper][m] = todo[Sweeper][n] => m = n
  /\ ToSet(todo[Sweeper]) \cap Stamped = {}
  /\ wanted \cup deleted \subseteq listed

IInv ==
  /\ TypeInv
  /\ \A a \in Callers : call[a] # Idle => CallOK(a, call[a])
  /\ \A a \in Callers : \A i \in DOMAIN answers[a] : AnswerOK(a, answers[a][i])
  /\ \A o \in open : Held(o) \/ Drifting(o)
  /\ SweepInv
-----------------------------------------------------------------------------
(* Numbers *)

\* What a limit leaves of a number: all of it without one, the least of the two with one.
LEMMA LimitedFacts ==
  ASSUME NEW n \in Nat
  PROVE  /\ Limited(n, {}) = n
         /\ \A m \in Nat : Limited(n, {m}) = Least(n, m)
         /\ \A ms \in SUBSET Nat : Limited(n, ms) \in Nat
<1>1. Min({n}) = n
  <2>1. {n} \in SUBSET Nat /\ {n} # {}
    OBVIOUS
  <2>2. Min({n}) \in {n}
    BY <2>1, MinFacts
  <2>q. QED  BY <2>2
<1>2. ASSUME NEW m \in Nat  PROVE Min({n, m}) = Least(n, m)
  <2>1. {n, m} \in SUBSET Nat /\ {n, m} # {}
    OBVIOUS
  <2>2. Min({n, m}) \in {n, m} /\ \A x \in {n, m} : Min({n, m}) <= x
    BY <2>1, MinFacts
  <2>q. QED  BY <2>2 DEF Least
<1>3. ASSUME NEW ms \in SUBSET Nat  PROVE Min({n} \cup ms) \in Nat
  <2>1. {n} \cup ms \in SUBSET Nat /\ {n} \cup ms # {}
    OBVIOUS
  <2>2. Min({n} \cup ms) \in {n} \cup ms
    BY <2>1, MinFacts
  <2>q. QED  BY <2>2
<1>4. {n} \cup {} = {n} /\ \A m : {n} \cup {m} = {n, m}
  OBVIOUS
<1>q. QED  BY <1>1, <1>2, <1>3, <1>4 DEF Limited

\* Rows under the cap of the engine (_cap_rows) are counted in full.
LEMMA LeastFacts ==
  /\ \A m, n \in Nat : Least(m, n) \in Nat
  /\ \A n \in Nat : Capped(n) \in Shapes /\ Capped(n).rows = Least(n, RowCap)
                    /\ (Capped(n).truncated => n > RowCap)
<1>1. \A m, n \in Nat : Least(m, n) \in Nat
  BY DEF Least
<1>2. ASSUME NEW n \in Nat
      PROVE  /\ Capped(n) \in Shapes /\ Capped(n).rows = Least(n, RowCap)
             /\ Capped(n).truncated => n > RowCap
  <2>1. Least(n, RowCap) \in Nat /\ (n > RowCap) \in BOOLEAN
    BY <1>1, ValidatorsAssumption
  <2>2. Capped(n) = [rows |-> Least(n, RowCap), truncated |-> n > RowCap]
    BY DEF Capped
  <2>3. Capped(n) \in Shapes /\ Capped(n).rows = Least(n, RowCap)
    BY <2>1, <2>2 DEF Shapes
  <2>4. Capped(n).truncated => n > RowCap
    <3> DEFINE more == n > RowCap
    <3>1. Capped(n) = [rows |-> Least(n, RowCap), truncated |-> more]
      BY <2>2
    <3> HIDE DEF more
    <3>2. Capped(n).truncated = more
      BY <3>1
    <3>q. QED  BY <3>2 DEF more
  <2>q. QED  BY <2>3, <2>4
<1>q. QED  BY <1>1, <1>2

\* Rows that were limited to the cap, or not limited further, are as they were asked.
LEMMA CappedAsAsked ==
  ASSUME NEW q, q.lang \in {"sql", "mongo", "graphql"}, Wanted(q) \in Nat,
         NEW n \in {Wanted(q), Least(Wanted(q), RowCap)}
  PROVE  AsAsked(q, Capped(n)) /\ Capped(n) \in Shapes
<1>1. RowCap \in Nat /\ n \in Nat
  BY LeastFacts, ValidatorsAssumption
<1>2. /\ Capped(n) \in Shapes /\ Capped(n).rows = Least(n, RowCap)
      /\ Capped(n).truncated => n > RowCap
  BY <1>1, LeastFacts
<1>3. /\ Least(n, RowCap) = Least(Wanted(q), RowCap)
      /\ n > RowCap => Wanted(q) >= RowCap
  BY <1>1 DEF Least
<1>q. QED  BY <1>2, <1>3 DEF AsAsked

-----------------------------------------------------------------------------
(* What the node lets through its engine takes, and its server answers as asked *)

\* A query that runs where its language is spoken is answered as it was asked; one that
\* was declared as what the connection is runs.
Kept(c) ==
  LET v == NodeValidates(c.ask, c.declared, c.catalog)
      e == EngineValidates(v.query, c.dialect)
  IN /\ e.ok => /\ e.query \in Queries
                /\ e.query.lang = Language(c.dialect) =>
                     /\ ResultOf(c.dialect, e.query) \in Shapes
                     /\ AsAsked(c.ask, ResultOf(c.dialect, e.query))
     /\ c.declared = c.dialect => e.ok

\* A verdict is good when nothing was found, and carries the query as rewritten.
LEMMA VerdictFacts ==
  ASSUME NEW findings, NEW q
  PROVE  /\ Verdict(findings, q).ok = (findings = {})
         /\ Verdict(findings, q).query = q
BY DEF Verdict

\* What query_validator.run lets pass its validator has accepted, and rewritten.
LEMMA NodePasses ==
  ASSUME NEW q, NEW d, NEW catalog, NEW tables, QueryValidator(q, d, catalog, tables).ok
  PROVE  /\ NodeValidates(q, d, catalog).ok
         /\ QueryValidator(q, d, catalog, tables).query = NodeValidates(q, d, catalog).query
BY DEF QueryValidator, Verdict

\* A query is one of the five kinds.
LEMMA KindsOfQueries ==
  ASSUME NEW q \in Queries
  PROVE  /\ q.lang \in {"sql", "mongo", "es", "graphql", "rest"}
         /\ q.lang = "sql" => q \in SqlQueries
         /\ q.lang = "mongo" => q \in MongoQueries
         /\ q.lang = "es" => q \in EsQueries
         /\ q.lang = "graphql" => q \in GraphqlQueries
         /\ q.lang = "rest" => q \in RestQueries
BY DEF Queries, SqlQueries, MongoQueries, EsQueries, GraphqlQueries, RestQueries

\* Which validator the node takes for what it accepts.
LEMMA NodeTakes ==
  ASSUME NEW q, NEW d, NEW catalog, NodeValidates(q, d, catalog).ok
  PROVE  /\ q.lang = Language(d)
         /\ q.lang = "sql" => NodeValidates(q, d, catalog) = ValidateReadonly(q, d)
         /\ q.lang = "mongo" => NodeValidates(q, d, catalog) = ValidateMongo(q)
         /\ q.lang = "es" => NodeValidates(q, d, catalog) = ValidateEs(q)
         /\ q.lang = "graphql" => NodeValidates(q, d, catalog) = ValidateGraphql(q)
         /\ q.lang = "rest" => NodeValidates(q, d, catalog) = ValidateApi(q, catalog)
<1>1. ~Verdict({"FOREIGN_LANGUAGE"}, q).ok
  BY VerdictFacts
<1>2. q.lang = Language(d)
  BY <1>1, Zenon DEF NodeValidates
<1>q. QED  BY <1>2 DEF NodeValidates

\* Which one an engine takes.
LEMMA EngineTakes ==
  ASSUME NEW q, NEW d
  PROVE  /\ d \in {"postgres", "sqlite"} => EngineValidates(q, d) = Verdict({}, q)
         /\ d \notin {"postgres", "sqlite"} =>
              /\ q.lang # Language(d) => ~EngineValidates(q, d).ok
              /\ q.lang = Language(d) =>
                   /\ q.lang = "sql" => \/ EngineValidates(q, d) = ValidateReadonly(q, d)
                                       \/ d = "mssql"
                   /\ q.lang = "mongo" => EngineValidates(q, d) = ValidateMongo(q)
                   /\ q.lang = "es" => EngineValidates(q, d) = ValidateEs(q)
                   /\ q.lang = "graphql" => EngineValidates(q, d) = GraphqlEngineValidates(q)
                   /\ q.lang = "rest" => EngineValidates(q, d) = ValidateApi(q, {})
         /\ d = "mssql" /\ q.lang = "sql" => EngineValidates(q, d) = ValidateReadonly(q, "tsql")
<1>1. ~Verdict({"FOREIGN_LANGUAGE"}, q).ok
  BY VerdictFacts
<1>2. CASE d \in {"postgres", "sqlite"}
  BY <1>2 DEF EngineValidates
<1>3. CASE d \notin {"postgres", "sqlite"} /\ q.lang # Language(d)
  <2>1. EngineValidates(q, d) = Verdict({"FOREIGN_LANGUAGE"}, q)
    BY <1>3 DEF EngineValidates
  <2>2. d = "mssql" => Language(d) = "sql"
    BY DEF Language
  <2>q. QED  BY <1>1, <1>3, <2>1, <2>2
<1>4. CASE d \notin {"postgres", "sqlite"} /\ q.lang = Language(d)
  <2>1. q.lang \in {"mongo", "es", "graphql", "rest"} => d # "mssql"
    BY <1>4 DEF Language
  <2>2. CASE q.lang = "sql"
    BY <1>4, <2>2, Zenon DEF EngineValidates
  <2>3. CASE q.lang = "mongo"
    BY <1>4, <2>1, <2>3 DEF EngineValidates
  <2>4. CASE q.lang = "es"
    BY <1>4, <2>1, <2>4 DEF EngineValidates
  <2>5. CASE q.lang = "graphql"
    BY <1>4, <2>1, <2>5 DEF EngineValidates
  <2>6. CASE q.lang = "rest"
    BY <1>4, <2>1, <2>6 DEF EngineValidates
  <2>7. CASE q.lang \notin {"sql", "mongo", "es", "graphql", "rest"}
    BY <1>4, <2>7
  <2>q. QED  BY <2>2, <2>3, <2>4, <2>5, <2>6, <2>7
<1>q. QED  BY <1>2, <1>3, <1>4

\* The dialects of each language.
LEMMA Spoken ==
  ASSUME NEW d \in Dialects
  PROVE  /\ Language(d) = "sql" <=> d \in SqlDialects
         /\ Language(d) = "mongo" <=> d = "mongodb"
         /\ Language(d) = "es" <=> d = "elasticsearch"
         /\ Language(d) = "graphql" <=> d = "graphql"
         /\ Language(d) = "rest" <=> d = "rest_api"
BY DEF Language, Dialects, SqlDialects

\* SQL: a LIMIT is put in once; the engine validates what has one already.
LEMMA SqlKept ==
  ASSUME NEW c \in Connections, c.dialect \in SqlDialects, c.ask.lang = "sql",
         NodeValidates(c.ask, c.declared, c.catalog).ok
  PROVE  Kept(c)
<1> DEFINE q == c.ask  d == c.dialect
           v == NodeValidates(q, c.declared, c.catalog)
           e == EngineValidates(v.query, d)
<1>1. /\ q \in SqlQueries /\ d \notin {"mongodb", "elasticsearch", "graphql", "rest_api"}
      /\ RowCap \in Nat /\ d \in Dialects
  BY KindsOfQueries, ValidatorsAssumption DEF Connections, SqlDialects
<1>2. v = ValidateReadonly(q, c.declared)
  BY NodeTakes
<1>3. /\ v.query = MaybeInjectLimit(q, RowCap) /\ c.declared \in q.parses
      /\ q.statements = 1 /\ q.root \in {"select", "with", "subquery", "union"}
      /\ q.nodes \cap Refused = {}
  <2>1. v.ok /\ q.statements \in Nat
    BY <1>1 DEF SqlQueries
  <2> HIDE DEF v, q, d
  <2>2. \A findings, x : (Verdict(findings, x).ok => findings = {}) /\ Verdict(findings, x).query = x
    BY DEF Verdict
  <2>3. \A x : ~Verdict({"PARSE_ERROR"}, x).ok /\ ~Verdict({"EMPTY"}, x).ok
               /\ ~Verdict({"MULTI_STATEMENT"}, x).ok /\ ~Verdict({"NOT_SELECT"}, x).ok
    BY <2>2
  <2>4. c.declared \in q.parses
    BY <1>2, <2>1, <2>3, Zenon DEF ValidateReadonly
  <2>5. ~(q.statements = 0) /\ ~(q.statements > 1)
    BY <1>2, <2>1, <2>3, <2>4, Zenon DEF ValidateReadonly
  <2>6. q.root \in {"select", "with", "subquery", "union"}
    BY <1>2, <2>1, <2>3, <2>4, <2>5, Zenon DEF ValidateReadonly
  <2>7. q.nodes \cap Refused = {}
    BY <1>2, <2>1, <2>2, <2>4, <2>5, <2>6, Zenon DEF ValidateReadonly
  <2>8. v = Verdict({}, MaybeInjectLimit(q, RowCap))
    BY <1>2, <2>4, <2>5, <2>6, <2>7, Zenon DEF ValidateReadonly
  <2>q. QED  BY <2>1, <2>2, <2>4, <2>5, <2>6, <2>7, <2>8
<1>4. /\ {RowCap} \in AtMostOne
      /\ \A x \in SqlQueries : MaybeInjectLimit(x, RowCap) \in SqlQueries
  <2>1. {RowCap} \in AtMostOne
    BY <1>1 DEF AtMostOne
  <2>q. QED  BY <2>1 DEF MaybeInjectLimit, SqlQueries
<1>5. c.declared # "mssql"
  BY <1>1, <1>3 DEF SqlQueries, SqlglotNames, SqlDialects
<1>7. /\ v.query.parses = q.parses /\ v.query.statements = 1 /\ v.query.root = q.root
      /\ v.query.nodes = q.nodes /\ v.query.lang = "sql" /\ v.query.rows = q.rows
      /\ MaybeInjectLimit(v.query, RowCap) = v.query
      /\ v.query.limit = q.limit \/ (q.limit = {} /\ v.query.limit = {RowCap})
  BY <1>1, <1>3, <1>4 DEF MaybeInjectLimit, SqlQueries
<1>6. /\ Language(d) = "sql"
      /\ \/ e = Verdict({}, v.query)
         \/ e = ValidateReadonly(v.query, d) /\ d # "mssql"
         \/ e = ValidateReadonly(v.query, "tsql") /\ d = "mssql"
  BY <1>1, <1>7, Spoken, EngineTakes
<1>8. /\ \A x \in q.parses : ValidateReadonly(v.query, x) = Verdict({}, v.query)
      /\ \A x : x \notin q.parses => ValidateReadonly(v.query, x) = Verdict({"PARSE_ERROR"}, v.query)
  BY <1>3, <1>7 DEF ValidateReadonly
<1>9. e.ok => e.query = v.query
  <2>1. \A x : x \notin q.parses => ~ValidateReadonly(v.query, x).ok
    <3>1. \A y : Verdict({}, y).ok /\ ~Verdict({"PARSE_ERROR"}, y).ok
      BY VerdictFacts
    <3> HIDE DEF v
    <3>q. QED  BY <1>8, <3>1, Zenon
  <2>2. \A x \in q.parses : ValidateReadonly(v.query, x).query = v.query
    BY <1>8, VerdictFacts
  <2>3. Verdict({}, v.query).query = v.query
    BY VerdictFacts
  <2> HIDE DEF e, v
  <2>q. QED  BY <1>6, <2>1, <2>2, <2>3
<1>15. c.declared = d => e.ok
  <2>1. \A x \in q.parses : ValidateReadonly(v.query, x).ok
    <3>1. \A y : Verdict({}, y).ok /\ ~Verdict({"PARSE_ERROR"}, y).ok
      BY VerdictFacts
    <3> HIDE DEF v
    <3>q. QED  BY <1>8, <3>1, Zenon
  <2>2. Verdict({}, v.query).ok
    BY VerdictFacts
  <2> HIDE DEF e, v
  <2>q. QED  BY <1>3, <1>5, <1>6, <2>1, <2>2
<1>10. v.query \in Queries
  BY <1>1, <1>3, <1>4 DEF Queries
<1>11. ResultOf(d, v.query) = Capped(Limited(q.rows, v.query.limit)) /\ Wanted(q) = Limited(q.rows, q.limit)
  BY <1>1, <1>7 DEF ResultOf, Sent, Wanted, SqlQueries
<1>12. q.rows \in Nat /\ q.limit \in AtMostOne /\ q.lang = "sql"
  BY <1>1 DEF SqlQueries
<1>13. /\ Limited(q.rows, v.query.limit) \in Nat /\ Limited(q.rows, q.limit) \in Nat
       /\ \/ v.query.limit = q.limit
          \/ /\ Limited(q.rows, q.limit) = q.rows
             /\ Limited(q.rows, v.query.limit) = Least(q.rows, RowCap)
  BY <1>1, <1>7, <1>12, LimitedFacts DEF AtMostOne
<1>14. AsAsked(q, ResultOf(d, v.query)) /\ ResultOf(d, v.query) \in Shapes
  <2> DEFINE n == Limited(q.rows, v.query.limit)
  <2>1. n \in {Wanted(q), Least(Wanted(q), RowCap)} /\ Wanted(q) \in Nat
    BY <1>11, <1>13
  <2> HIDE DEF n
  <2>2. AsAsked(q, Capped(n)) /\ Capped(n) \in Shapes
    BY <1>12, <2>1, CappedAsAsked
  <2>q. QED  BY <1>11, <2>2 DEF n
<1>q. QED  BY <1>9, <1>10, <1>14, <1>15 DEF Kept

\* What is in a sequence that is one longer.
LEMMA Appended ==
  ASSUME NEW S, NEW s \in Seq(S), NEW x \in S
  PROVE  Append(s, x) \in Seq(S) /\ ToSet(Append(s, x)) = ToSet(s) \cup {x}
<1>1. /\ Append(s, x) \in Seq(S) /\ DOMAIN Append(s, x) = 1 .. Len(s) + 1
      /\ \A i \in 1 .. Len(s) : Append(s, x)[i] = s[i]
      /\ Append(s, x)[Len(s) + 1] = x
      /\ DOMAIN s = 1 .. Len(s) /\ Len(s) \in Nat
  OBVIOUS
<1>2. ASSUME NEW i \in DOMAIN Append(s, x)  PROVE Append(s, x)[i] \in ToSet(s) \cup {x}
  BY <1>1 DEF ToSet
<1>3. ASSUME NEW i \in DOMAIN s  PROVE \E j \in DOMAIN Append(s, x) : Append(s, x)[j] = s[i]
  BY <1>1
<1>4. \E j \in DOMAIN Append(s, x) : Append(s, x)[j] = x
  BY <1>1
<1>q. QED  BY <1>1, <1>2, <1>3, <1>4 DEF ToSet

\* What ValidateMongo finds, and what it answers.
MongoMissing(q) ==
  {"DATABASE_REQUIRED" : x \in q.missing \cap {"database"}}
    \cup {"COLLECTION_REQUIRED" : x \in q.missing \cap {"collection"}}
MongoFound(q) ==
  MongoMissing(q) \cup (IF q.system THEN {"SYSTEM_COLLECTION"} ELSE {})
    \cup UNION {StageFindings(s) : s \in ToSet(q.pipeline)}
MongoLimits(q) == {s.limit : s \in {t \in ToSet(q.pipeline) : t.name = "$limit"}}

LEMMA MongoVerdicts ==
  ASSUME NEW q
  PROVE  /\ ValidateMongo(q).ok => /\ q.json /\ "pipeline" \notin q.missing
                                   /\ MongoFound(q) = {}
         /\ q.json /\ "pipeline" \notin q.missing /\ MongoFound(q) = {}
              => /\ ValidateMongo(q).ok
                 /\ HasLimit(q.pipeline) => ValidateMongo(q).query = q
                 /\ ~HasLimit(q.pipeline) =>
                      ValidateMongo(q).query
                        = [q EXCEPT !.pipeline = Append(@, LimitStage(RowCap))]
<1>1. ValidateMongo(q)
        = IF ~q.json THEN Verdict({"PARSE_ERROR"}, q)
          ELSE IF "pipeline" \in q.missing
          THEN Verdict(MongoMissing(q) \cup {"ENVELOPE_SHAPE"}, q)
          ELSE IF MongoFound(q) # {} \/ HasLimit(q.pipeline) THEN Verdict(MongoFound(q), q)
          ELSE Verdict({}, [q EXCEPT !.pipeline = Append(@, LimitStage(RowCap))])
  BY Zenon DEF ValidateMongo, MongoMissing, MongoFound
<1>2. \A x : ~Verdict({"PARSE_ERROR"}, x).ok /\ ~Verdict(MongoMissing(q) \cup {"ENVELOPE_SHAPE"}, x).ok
  BY VerdictFacts
<1>3. \A x : Verdict({}, x).ok /\ Verdict({}, x).query = x
  BY VerdictFacts
<1>4. Verdict(MongoFound(q), q).ok => MongoFound(q) = {}
  BY VerdictFacts
<1>q. QED  BY <1>1, <1>2, <1>3, <1>4, Zenon

\* MongoDB: a $limit is appended when the pipeline has none, and only then.
LEMMA MongoKept ==
  ASSUME NEW c \in Connections, c.dialect = "mongodb", c.ask.lang = "mongo",
         NodeValidates(c.ask, c.declared, c.catalog).ok
  PROVE  Kept(c)
<1> DEFINE q == c.ask
           w == ValidateMongo(q).query
<1>1. q \in MongoQueries
  BY KindsOfQueries DEF Connections
<1>2. /\ NodeValidates(q, c.declared, c.catalog) = ValidateMongo(q)
      /\ \A x : x.lang = "mongo" => EngineValidates(x, c.dialect) = ValidateMongo(x)
  <2>1. Language(c.dialect) = "mongo" /\ c.dialect \notin {"postgres", "sqlite"}
    BY DEF Language
  <2>q. QED  BY <2>1, NodeTakes, EngineTakes
<1>3. q.json /\ "pipeline" \notin q.missing /\ MongoFound(q) = {}
  BY <1>2, MongoVerdicts
<1>4. /\ LimitStage(RowCap) \in MongoStages
      /\ LimitStage(RowCap).name = "$limit" /\ LimitStage(RowCap).limit = RowCap
      /\ StageFindings(LimitStage(RowCap)) = {}
  <2>1. LimitStage(RowCap) = [name |-> "$limit", limit |-> RowCap, inside |-> {}]
    BY DEF LimitStage
  <2>2. RowCap \in Nat
    BY ValidatorsAssumption
  <2>3. "$limit" \in AllowedStages /\ "$limit" \notin BannedStages
    BY DEF AllowedStages, BannedStages
  <2>4. LimitStage(RowCap) \in MongoStages
    <3>1. "$limit" \in StageNames
      BY <2>3 DEF StageNames
    <3>2. {} \in SUBSET STRING
      BY Zenon
    <3>q. QED  BY <2>1, <2>2, <3>1, <3>2 DEF MongoStages
  <2>5. LimitStage(RowCap).name = "$limit" /\ LimitStage(RowCap).limit = RowCap
        /\ LimitStage(RowCap).inside = {}
    BY <2>1
  <2>6. {f \in {"BANNED_KEY", "BANNED_STAGE"} :
           \E k \in {} : \/ f = "BANNED_KEY" /\ k \in BannedMongoKeys
                         \/ f = "BANNED_STAGE" /\ k \in BannedStages \ BannedMongoKeys} = {}
    OBVIOUS
  <2>7. StageFindings(LimitStage(RowCap)) = {}
    BY <2>3, <2>5, <2>6 DEF StageFindings
  <2>q. QED  BY <2>4, <2>5, <2>7
<1>5. CASE HasLimit(q.pipeline)
  <2>1. w = q
    BY <1>3, <1>5, MongoVerdicts
  <2>2. ValidateMongo(w).ok /\ ValidateMongo(w).query = q
    BY <1>3, <1>5, <2>1, MongoVerdicts
  <2>3. /\ ResultOf(c.dialect, q) = Capped(Limited(q.rows, MongoLimits(q)))
        /\ Wanted(q) = Limited(q.rows, MongoLimits(q))
    BY <1>1 DEF ResultOf, Sent, Wanted, MongoLimits, MongoQueries
  <2>4. MongoLimits(q) \in SUBSET Nat /\ q.rows \in Nat
    <3>1. ToSet(q.pipeline) \subseteq MongoStages
      BY <1>1 DEF MongoQueries, ToSet
    <3>2. \A s \in MongoStages : s.limit \in Nat
      BY DEF MongoStages
    <3>3. q.rows \in Nat
      BY <1>1 DEF MongoQueries
    <3>q. QED  BY <3>1, <3>2, <3>3 DEF MongoLimits
  <2>5. Wanted(q) \in Nat /\ ResultOf(c.dialect, q) = Capped(Wanted(q))
    BY <2>3, <2>4, LimitedFacts
  <2>6. q \in Queries /\ q.lang = "mongo"
    BY <1>1 DEF Queries, MongoQueries
  <2>7. AsAsked(q, ResultOf(c.dialect, q)) /\ ResultOf(c.dialect, q) \in Shapes
    BY <2>5, <2>6, CappedAsAsked
  <2>q. QED  BY <1>2, <2>1, <2>2, <2>6, <2>7 DEF Kept
<1>6. CASE ~HasLimit(q.pipeline)
  <2>1. w = [q EXCEPT !.pipeline = Append(q.pipeline, LimitStage(RowCap))]
    BY <1>3, <1>6, MongoVerdicts
  <2> HIDE DEF w
  <2>2. /\ w \in MongoQueries /\ w.json = q.json /\ w.missing = q.missing /\ w.rows = q.rows
        /\ w.system = q.system /\ w.pipeline = Append(q.pipeline, LimitStage(RowCap))
    <3>1. Append(q.pipeline, LimitStage(RowCap)) \in Seq(MongoStages)
      BY <1>1, <1>4 DEF MongoQueries
    <3>q. QED  BY <1>1, <2>1, <3>1 DEF MongoQueries
  <2>3. ToSet(w.pipeline) = ToSet(q.pipeline) \cup {LimitStage(RowCap)}
    BY <1>1, <1>4, <2>2, Appended DEF MongoQueries
  <2>4. MongoFound(w) = {}
    BY <1>3, <1>4, <2>2, <2>3 DEF MongoFound, MongoMissing
  <2>5. HasLimit(w.pipeline)
    BY <1>4, <2>3 DEF HasLimit
  <2>6. ValidateMongo(w).ok /\ ValidateMongo(w).query = w
    BY <1>3, <2>2, <2>4, <2>5, MongoVerdicts
  <2>7. MongoLimits(w) = {RowCap} /\ MongoLimits(q) = {}
    BY <1>4, <1>6, <2>3 DEF MongoLimits, HasLimit
  <2>8. w.lang = "mongo" /\ q.lang = "mongo" /\ w \in Queries /\ q.rows \in Nat /\ RowCap \in Nat
    BY <1>1, <2>2, ValidatorsAssumption DEF Queries, MongoQueries
  <2>9. /\ ResultOf(c.dialect, w) = Capped(Limited(w.rows, MongoLimits(w)))
        /\ Wanted(q) = Limited(q.rows, MongoLimits(q))
    BY <2>8 DEF ResultOf, Sent, Wanted, MongoLimits
  <2>10. Wanted(q) \in Nat /\ ResultOf(c.dialect, w) = Capped(Least(Wanted(q), RowCap))
    BY <2>2, <2>7, <2>8, <2>9, LimitedFacts
  <2>11. AsAsked(q, ResultOf(c.dialect, w)) /\ ResultOf(c.dialect, w) \in Shapes
    BY <2>8, <2>10, CappedAsAsked
  <2>q. QED  BY <1>2, <2>6, <2>8, <2>11 DEF Kept, w
<1>q. QED  BY <1>5, <1>6

EsMissing(q) == {"INDEX_REQUIRED" : x \in q.missing \cap {"index"}}
EsFound(q) ==
  EsMissing(q) \cup (IF q.system THEN {"SYSTEM_INDEX"} ELSE {})
    \cup {"BODY_KEY_NOT_ALLOWED" : k \in q.keys \ AllowedBodyKeys}
    \cup {"BANNED_KEY" : k \in (q.keys \cup q.inside) \cap BannedEsKeys}

\* What ValidateEs finds, and what it answers.
LEMMA EsVerdicts ==
  ASSUME NEW q
  PROVE  /\ ValidateEs(q).ok => /\ q.json /\ "body" \notin q.missing
                                /\ EsFound(q) = {}
         /\ q.json /\ "body" \notin q.missing /\ EsFound(q) = {}
              => ValidateEs(q).ok /\ ValidateEs(q).query = [q EXCEPT !.size = EsSize(q)]
<1>1. ValidateEs(q)
        = IF ~q.json THEN Verdict({"PARSE_ERROR"}, q)
          ELSE IF "body" \in q.missing
          THEN Verdict(EsMissing(q) \cup {"BODY_SHAPE"}, q)
          ELSE IF EsFound(q) # {} THEN Verdict(EsFound(q), q)
          ELSE Verdict({}, [q EXCEPT !.size = EsSize(q)])
  BY Zenon DEF ValidateEs, EsMissing, EsFound
<1>2. \A x : ~Verdict({"PARSE_ERROR"}, x).ok /\ ~Verdict(EsMissing(q) \cup {"BODY_SHAPE"}, x).ok
  BY VerdictFacts
<1>3. \A x : Verdict({}, x).ok /\ Verdict({}, x).query = x
  BY VerdictFacts
<1>4. Verdict(EsFound(q), q).ok => EsFound(q) = {}
  BY VerdictFacts
<1>q. QED  BY <1>1, <1>2, <1>3, <1>4, Zenon

\* The size a search ends up with: it is validated twice.
LEMMA EsSizes ==
  ASSUME NEW q \in EsQueries, NEW w \in EsQueries, w.size = EsSize(q), w.keys = q.keys
  PROVE  \E n \in Nat :
           /\ EsSize(w) = {n}
           /\ q.size = {} /\ "aggs" \notin q.keys => n = Least(50, RowCap)
           /\ \A m \in Nat : q.size = {m} => n = Least(m, RowCap)
<1>1. RowCap \in Nat \ {0}
  BY ValidatorsAssumption
<1>2. q.size \in AtMostOne
  BY DEF EsQueries
<1>3. \A x, n : n \in Nat /\ x.size = {n} => EsSize(x) = {Least(n, RowCap)}
  BY <1>1 DEF EsSize, Least
<1>4. CASE q.size = {} /\ "aggs" \in q.keys
  BY <1>1, <1>3, <1>4 DEF EsSize, Least
<1>5. CASE q.size = {} /\ "aggs" \notin q.keys
  BY <1>1, <1>3, <1>5 DEF EsSize, Least
<1>6. ASSUME NEW m \in Nat, q.size = {m}
      PROVE  EsSize(w) = {Least(m, RowCap)} /\ Least(m, RowCap) \in Nat
  BY <1>1, <1>3, <1>6 DEF Least
<1>q. QED  BY <1>2, <1>4, <1>5, <1>6 DEF AtMostOne

\* The size that is put in is one number.
LEMMA EsSizeTyped ==
  ASSUME NEW q \in EsQueries
  PROVE  EsSize(q) \in AtMostOne /\ [q EXCEPT !.size = EsSize(q)] \in EsQueries
<1>1. EsSize(q) \in AtMostOne
  <2>1. q.size \in AtMostOne /\ RowCap \in Nat
    BY ValidatorsAssumption DEF EsQueries
  <2>2. q.size = {} => EsSize(q) = {0} \/ EsSize(q) = {50}
    BY DEF EsSize
  <2>3. q.size # {} => EsSize(q) = {IF n > RowCap THEN RowCap ELSE n : n \in q.size}
    BY DEF EsSize
  <2>q. QED  BY <2>1, <2>2, <2>3 DEF AtMostOne
<1>q. QED  BY <1>1 DEF EsQueries

\* Elasticsearch: a size over the cap is cut to it, a second time to the same.
LEMMA EsKept ==
  ASSUME NEW c \in Connections, c.dialect = "elasticsearch", c.ask.lang = "es",
         NodeValidates(c.ask, c.declared, c.catalog).ok
  PROVE  Kept(c)
<1> DEFINE q == c.ask
           w == [q EXCEPT !.size = EsSize(q)]
           x == [w EXCEPT !.size = EsSize(w)]
<1>1. q \in EsQueries
  BY KindsOfQueries DEF Connections
<1>2. /\ NodeValidates(q, c.declared, c.catalog) = ValidateEs(q)
      /\ EngineValidates(w, c.dialect) = ValidateEs(w)
  <2>1. Language(c.dialect) = "es" /\ c.dialect \notin {"postgres", "sqlite"}
    BY DEF Language
  <2>2. w.lang = "es"
    BY <1>1 DEF EsQueries
  <2>3. NodeValidates(q, c.declared, c.catalog) = ValidateEs(q)
    BY NodeTakes
  <2> HIDE DEF w
  <2>4. EngineValidates(w, c.dialect) = ValidateEs(w)
    BY <2>1, <2>2, EngineTakes
  <2>q. QED  BY <2>3, <2>4
<1>3. /\ q.json /\ "body" \notin q.missing /\ EsFound(q) = {}
      /\ ValidateEs(q).query = w
  BY <1>2, EsVerdicts
<1>4. /\ w \in EsQueries /\ w.size = EsSize(q) /\ w.json = q.json /\ w.missing = q.missing
      /\ w.system = q.system /\ w.keys = q.keys /\ w.inside = q.inside /\ w.rows = q.rows
  BY <1>1, EsSizeTyped DEF EsQueries
<1> HIDE DEF w
<1>5. /\ x \in EsQueries /\ x.size = EsSize(w) /\ x.keys = q.keys /\ x.rows = q.rows
  BY <1>4, EsSizeTyped DEF EsQueries
<1>6. EsFound(w) = {}
  BY <1>3, <1>4 DEF EsFound, EsMissing
<1>7. ValidateEs(w).ok /\ ValidateEs(w).query = x
  BY <1>3, <1>4, <1>6, EsVerdicts
<1> HIDE DEF x
<1>8. /\ q.lang = "es" /\ x.lang = "es" /\ x \in Queries /\ q.rows \in Nat /\ q.size \in AtMostOne
      /\ RowCap \in Nat
  BY <1>1, <1>5, ValidatorsAssumption DEF Queries, EsQueries
<1>9. ResultOf(c.dialect, x) = ElasticsearchRows(x)
  BY DEF ResultOf
<1>10. CASE "aggs" \in q.keys
  <2>1. Sent(x) = q.rows
    BY <1>5, <1>8, <1>10 DEF Sent
  <2>2. ElasticsearchRows(x) = [rows |-> q.rows, truncated |-> FALSE]
    BY <1>5, <1>10, <2>1 DEF ElasticsearchRows
  <2>3. AsAsked(q, ElasticsearchRows(x)) /\ ElasticsearchRows(x) \in Shapes
    BY <1>8, <1>10, <2>2 DEF AsAsked, Shapes
  <2>q. QED  BY <1>2, <1>3, <1>7, <1>8, <1>9, <2>3 DEF Kept
<1>11. CASE "aggs" \notin q.keys
  <2>1. PICK n \in Nat : /\ x.size = {n}
                         /\ q.size = {} => n = Least(50, RowCap)
                         /\ \A m \in Nat : q.size = {m} => n = Least(m, RowCap)
    BY <1>1, <1>4, <1>5, <1>11, EsSizes
  <2>2. Sent(x) = Least(q.rows, n)
    BY <1>5, <1>8, <1>11, <2>1, LimitedFacts DEF Sent
  <2>3. \E m \in Nat : Wanted(q) = Least(q.rows, m) /\ n = Least(m, RowCap)
    <3>1. CASE q.size = {}
      BY <1>8, <1>11, <2>1, <3>1 DEF Wanted
    <3>2. ASSUME NEW m \in Nat, q.size = {m}  PROVE Wanted(q) = Least(q.rows, m)
      BY <1>8, <1>11, <3>2, LimitedFacts DEF Wanted, Sent
    <3>q. QED  BY <1>8, <2>1, <3>1, <3>2 DEF AtMostOne
  <2>4. /\ Sent(x) \in Nat /\ Wanted(q) \in Nat
        /\ Least(Sent(x), RowCap) = Least(Wanted(q), RowCap)
        /\ Sent(x) >= RowCap => Wanted(q) >= RowCap
    BY <1>8, <2>2, <2>3 DEF Least
  <2> DEFINE more == Sent(x) >= RowCap
  <2>5. ElasticsearchRows(x) = [rows |-> Least(Sent(x), RowCap), truncated |-> more]
    BY <1>5, <1>11 DEF ElasticsearchRows
  <2>6. more \in BOOLEAN /\ (more => Wanted(q) >= RowCap) /\ Least(Sent(x), RowCap) \in Nat
    BY <1>8, <2>4, LeastFacts
  <2> HIDE DEF more
  <2>7. /\ ElasticsearchRows(x) \in Shapes /\ ElasticsearchRows(x).truncated = more
        /\ ElasticsearchRows(x).rows = Least(Sent(x), RowCap)
    BY <2>5, <2>6 DEF Shapes
  <2>8. AsAsked(q, ElasticsearchRows(x))
    BY <1>8, <1>11, <2>4, <2>6, <2>7 DEF AsAsked
  <2>q. QED  BY <1>2, <1>3, <1>7, <1>8, <1>9, <2>7, <2>8 DEF Kept
<1>q. QED  BY <1>10, <1>11

\* GraphQL: validated and sent as it is.
LEMMA GraphqlKept ==
  ASSUME NEW c \in Connections, c.dialect = "graphql", c.ask.lang = "graphql",
         NodeValidates(c.ask, c.declared, c.catalog).ok
  PROVE  Kept(c)
<1> DEFINE q == c.ask
           found == GraphqlOperations(q)
                      \cup (IF q.operations = {} THEN {"graphql_no_operation"} ELSE {})
<1>1. /\ q \in GraphqlQueries
      /\ NodeValidates(q, c.declared, c.catalog) = ValidateGraphql(q)
      /\ EngineValidates(q, c.dialect) = GraphqlEngineValidates(q)
  <2>1. Language(c.dialect) = "graphql" /\ c.dialect \notin {"postgres", "sqlite"}
    BY DEF Language
  <2>q. QED  BY <2>1, KindsOfQueries, NodeTakes, EngineTakes DEF Connections
<1>2. /\ \A x : ~Verdict({"graphql_invalid_envelope"}, x).ok /\ ~Verdict({"graphql_missing_query"}, x).ok
      /\ \A x : ~Verdict({"graphql_bad_variables"}, x).ok /\ ~Verdict({"graphql_parse_error"}, x).ok
      /\ Verdict(found, q).ok => found = {}
      /\ Verdict(found, q).query = q /\ Verdict({}, q).ok /\ Verdict({}, q).query = q
  <2> HIDE DEF found
  <2>1. \A f, x : ~Verdict({f}, x).ok
    BY VerdictFacts
  <2>2. Verdict(found, q).ok => found = {}
    BY VerdictFacts
  <2>3. Verdict(found, q).query = q
    BY VerdictFacts
  <2>4. Verdict({}, q).ok /\ Verdict({}, q).query = q
    BY VerdictFacts
  <2>q. QED  BY <2>1, <2>2, <2>3, <2>4
<1>3. ValidateGraphql(q)
        = IF ~q.json THEN Verdict({"graphql_invalid_envelope"}, q)
          ELSE IF "query" \in q.missing THEN Verdict({"graphql_missing_query"}, q)
          ELSE IF "variables" \in q.missing THEN Verdict({"graphql_bad_variables"}, q)
          ELSE IF ~q.parses THEN Verdict({"graphql_parse_error"}, q)
          ELSE Verdict(found, q)
  BY Zenon DEF ValidateGraphql
<1> HIDE DEF found
<1>4. /\ q.json /\ "query" \notin q.missing /\ q.parses /\ found = {}
      /\ ValidateGraphql(q).query = q
  BY <1>1, <1>2, <1>3, Zenon
<1>5. GraphqlOperations(q) = {}
  BY <1>4 DEF found
<1>6. GraphqlEngineValidates(q) = Verdict({}, q)
  BY <1>4, <1>5, Zenon DEF GraphqlEngineValidates
<1>7. q \in Queries /\ q.lang = "graphql" /\ q.rows \in Nat
  BY <1>1 DEF Queries, GraphqlQueries
<1>8. ResultOf(c.dialect, q) = Capped(q.rows) /\ Wanted(q) = q.rows
  BY <1>7 DEF ResultOf, Sent, Wanted
<1>9. AsAsked(q, ResultOf(c.dialect, q)) /\ ResultOf(c.dialect, q) \in Shapes
  BY <1>7, <1>8, CappedAsAsked
<1>q. QED  BY <1>1, <1>2, <1>4, <1>6, <1>7, <1>9 DEF Kept

\* REST: validated and sent as it is; a body that is no JSON is one row.
LEMMA RestKept ==
  ASSUME NEW c \in Connections, c.dialect = "rest_api", c.ask.lang = "rest",
         NodeValidates(c.ask, c.declared, c.catalog).ok
  PROVE  Kept(c)
<1> DEFINE q == c.ask
<1>1. /\ q \in RestQueries
      /\ NodeValidates(q, c.declared, c.catalog) = ValidateApi(q, c.catalog)
      /\ EngineValidates(q, c.dialect) = ValidateApi(q, {})
  <2>1. Language(c.dialect) = "rest" /\ c.dialect \notin {"postgres", "sqlite"}
    BY DEF Language
  <2>q. QED  BY <2>1, KindsOfQueries, NodeTakes, EngineTakes DEF Connections
<1>2. ValidateApi(q, c.catalog) = Verdict({}, q)
  <2>1. \A f : ~Verdict({f}, q).ok
    BY VerdictFacts
  <2>q. QED  BY <1>1, <2>1, Zenon DEF ValidateApi
<1>3. ValidateApi(q, {}) = Verdict({}, q)
  <2>1. \A f : Verdict({f}, q) # Verdict({}, q)
    BY VerdictFacts
  <2>q. QED  BY <1>2, <2>1, Zenon DEF ValidateApi
<1>4. Verdict({}, q).ok /\ Verdict({}, q).query = q
  BY VerdictFacts
<1>5. /\ q \in Queries /\ q.lang = "rest" /\ q.rows \in Nat
      /\ ResultOf(c.dialect, q) = RestRows(q) /\ Sent(q) = q.rows /\ Wanted(q) = q.rows
  BY <1>1 DEF Queries, RestQueries, ResultOf, Sent, Wanted
<1>6. AsAsked(q, RestRows(q)) /\ RestRows(q) \in Shapes
  <2>1. CASE q.body
    <3>1. RestRows(q) = Capped(q.rows)
      BY <1>5, <2>1 DEF RestRows
    <3>2. /\ Capped(q.rows) \in Shapes /\ Capped(q.rows).rows = Least(q.rows, RowCap)
          /\ Capped(q.rows).truncated => q.rows > RowCap
          /\ q.rows > RowCap => q.rows >= RowCap
      <4>1. q.rows \in Nat /\ RowCap \in Nat
        BY <1>5, ValidatorsAssumption
      <4>2. /\ Capped(q.rows) \in Shapes /\ Capped(q.rows).rows = Least(q.rows, RowCap)
            /\ Capped(q.rows).truncated => q.rows > RowCap
        BY <4>1, LeastFacts
      <4>3. q.rows > RowCap => q.rows >= RowCap
        BY <4>1
      <4>q. QED  BY <4>2, <4>3
    <3>q. QED  BY <1>5, <2>1, <3>1, <3>2 DEF AsAsked
  <2>2. CASE ~q.body
    <3>1. RestRows(q) = [rows |-> 1, truncated |-> FALSE]
      BY <2>2 DEF RestRows
    <3>q. QED  BY <1>5, <2>2, <3>1 DEF AsAsked, Shapes
  <2>q. QED  BY <2>1, <2>2
<1>q. QED  BY <1>1, <1>2, <1>3, <1>4, <1>5, <1>6 DEF Kept

\* What the node rewrites stays in its language.
LEMMA NodeRewrites ==
  ASSUME NEW q \in Queries, NEW d, NEW catalog, NodeValidates(q, d, catalog).ok
  PROVE  NodeValidates(q, d, catalog).query.lang = q.lang
<1> DEFINE v == NodeValidates(q, d, catalog)
<1>1. v.ok
  OBVIOUS
<1>2. CASE q.lang = "sql"
  <2>1. v = ValidateReadonly(q, d) /\ q \in SqlQueries
    BY <1>2, KindsOfQueries, NodeTakes
  <2>2. MaybeInjectLimit(q, RowCap).lang = q.lang
    BY <2>1 DEF MaybeInjectLimit, SqlQueries
  <2>3. v.query \in {q, MaybeInjectLimit(q, RowCap)}
    BY <2>1, VerdictFacts DEF ValidateReadonly
  <2>q. QED  BY <2>2, <2>3
<1>3. CASE q.lang = "mongo"
  <2>1. v = ValidateMongo(q) /\ q \in MongoQueries
    BY <1>3, KindsOfQueries, NodeTakes
  <2>2. v.query \in {q, [q EXCEPT !.pipeline = Append(@, LimitStage(RowCap))]}
    BY <1>1, <2>1, MongoVerdicts
  <2>q. QED  BY <2>1, <2>2 DEF MongoQueries
<1>4. CASE q.lang = "es"
  <2>1. v = ValidateEs(q) /\ q \in EsQueries
    BY <1>4, KindsOfQueries, NodeTakes
  <2>2. v.query = [q EXCEPT !.size = EsSize(q)]
    BY <1>1, <2>1, EsVerdicts
  <2>q. QED  BY <2>1, <2>2 DEF EsQueries
<1>5. CASE q.lang = "graphql"
  <2>1. v = ValidateGraphql(q)
    BY <1>5, NodeTakes
  <2>2. v.query = q
    BY <2>1, VerdictFacts DEF ValidateGraphql
  <2>q. QED  BY <2>2
<1>6. CASE q.lang = "rest"
  <2>1. v = ValidateApi(q, catalog)
    BY <1>6, NodeTakes
  <2>2. v.query = q
    <3> HIDE DEF v
    <3>1. \A findings : Verdict(findings, q).query = q
      BY VerdictFacts
    <3>2. \E findings : ValidateApi(q, catalog) = Verdict(findings, q)
      BY Zenon DEF ValidateApi
    <3>q. QED  BY <2>1, <3>1, <3>2, Zenon
  <2>q. QED  BY <2>2
<1>q. QED  BY <1>2, <1>3, <1>4, <1>5, <1>6, KindsOfQueries

\* What PostgreSQL and SQLite are handed is a query.
LEMMA NodeTyped ==
  ASSUME NEW q \in Queries, NEW d, NEW catalog, NodeValidates(q, d, catalog).ok
  PROVE  NodeValidates(q, d, catalog).query \in Queries
<1> DEFINE v == NodeValidates(q, d, catalog)
<1>1. v.ok
  OBVIOUS
<1>2. CASE q.lang = "sql"
  <2>1. v = ValidateReadonly(q, d) /\ q \in SqlQueries
    BY <1>2, KindsOfQueries, NodeTakes
  <2>2. {RowCap} \in AtMostOne
    BY ValidatorsAssumption DEF AtMostOne
  <2>3. MaybeInjectLimit(q, RowCap) \in SqlQueries
    BY <2>1, <2>2 DEF MaybeInjectLimit, SqlQueries
  <2>4. v.query \in {q, MaybeInjectLimit(q, RowCap)}
    BY <2>1, VerdictFacts DEF ValidateReadonly
  <2>q. QED  BY <2>3, <2>4 DEF Queries
<1>3. CASE q.lang = "mongo"
  <2>1. v = ValidateMongo(q) /\ q \in MongoQueries
    BY <1>3, KindsOfQueries, NodeTakes
  <2>2. v.query \in {q, [q EXCEPT !.pipeline = Append(@, LimitStage(RowCap))]}
    BY <1>1, <2>1, MongoVerdicts
  <2>3. LimitStage(RowCap) \in MongoStages
    BY ValidatorsAssumption DEF LimitStage, MongoStages, StageNames, AllowedStages
  <2>4. Append(q.pipeline, LimitStage(RowCap)) \in Seq(MongoStages)
    BY <2>1, <2>3 DEF MongoQueries
  <2>5. [q EXCEPT !.pipeline = Append(@, LimitStage(RowCap))] \in MongoQueries
    BY <2>1, <2>4 DEF MongoQueries
  <2>q. QED  BY <2>2, <2>5 DEF Queries
<1>4. CASE q.lang = "es"
  <2>1. v = ValidateEs(q) /\ q \in EsQueries
    BY <1>4, KindsOfQueries, NodeTakes
  <2>2. v.query = [q EXCEPT !.size = EsSize(q)]
    BY <1>1, <2>1, EsVerdicts
  <2>3. v.query \in EsQueries
    BY <2>1, <2>2, EsSizeTyped
  <2>q. QED  BY <2>3 DEF Queries
<1>5. CASE q.lang = "graphql"
  <2>1. v = ValidateGraphql(q)
    BY <1>5, NodeTakes
  <2>2. v.query = q
    BY <2>1, VerdictFacts DEF ValidateGraphql
  <2>q. QED  BY <2>2
<1>6. CASE q.lang = "rest"
  <2>1. v = ValidateApi(q, catalog)
    BY <1>6, NodeTakes
  <2>2. v.query = q
    <3> HIDE DEF v
    <3>1. \A findings : Verdict(findings, q).query = q
      BY VerdictFacts
    <3>2. \E findings : ValidateApi(q, catalog) = Verdict(findings, q)
      BY Zenon DEF ValidateApi
    <3>q. QED  BY <2>1, <3>1, <3>2, Zenon
  <2>q. QED  BY <2>2
<1>q. QED  BY <1>2, <1>3, <1>4, <1>5, <1>6, KindsOfQueries

\* A query in another language than that of the connection: its engine refuses it, or
\* hands it on as it is.
LEMMA ForeignKept ==
  ASSUME NEW c \in Connections, c.ask.lang # Language(c.dialect),
         NodeValidates(c.ask, c.declared, c.catalog).ok
  PROVE  Kept(c)
<1> DEFINE x == NodeValidates(c.ask, c.declared, c.catalog).query
           e == EngineValidates(x, c.dialect)
<1>1. c.ask \in Queries
  BY DEF Connections
<1>2. x.lang # Language(c.dialect) /\ x \in Queries /\ c.declared # c.dialect
  BY <1>1, NodeRewrites, NodeTyped, NodeTakes
<1>3. Verdict({}, x).query = x
  BY VerdictFacts
<1>4. e.ok => e.query = x
  BY <1>2, <1>3, EngineTakes
<1>q. QED  BY <1>2, <1>4 DEF Kept

\* Whatever is asked, whatever dialect it is declared as and whatever dialect the
\* connection has: a query its node lets through, and that runs where its language is
\* spoken, is answered as it was asked (query_executor.py:101-106); and it runs if it was
\* declared as what the connection is.
LEMMA AcceptedIsKept ==
  ASSUME NEW c \in Connections,
         QueryValidator(c.ask, c.declared, c.catalog, c.tables).ok
  PROVE  LET v == QueryValidator(c.ask, c.declared, c.catalog, c.tables)
             e == EngineValidates(v.query, c.dialect)
         IN /\ e.ok => /\ e.query \in Queries
                       /\ e.query.lang = Language(c.dialect) =>
                            /\ ResultOf(c.dialect, e.query) \in Shapes
                            /\ AsAsked(c.ask, ResultOf(c.dialect, e.query))
            /\ c.declared = c.dialect => e.ok
<1>1. c.dialect \in Dialects /\ c.ask \in Queries
  BY DEF Connections
<1>2. NodeValidates(c.ask, c.declared, c.catalog).ok
  BY NodePasses
<1>3. Kept(c)
  <2>1. CASE c.ask.lang = Language(c.dialect)
    <3>1. c.ask.lang \in {"sql", "mongo", "es", "graphql", "rest"}
      BY <1>1, KindsOfQueries
    <3>q. QED  BY <1>1, <1>2, <2>1, <3>1, Spoken, SqlKept, MongoKept, EsKept, GraphqlKept, RestKept
  <2>2. CASE c.ask.lang # Language(c.dialect)
    BY <1>2, <2>2, ForeignKept
  <2>q. QED  BY <2>1, <2>2
<1>4. QueryValidator(c.ask, c.declared, c.catalog, c.tables).query
        = NodeValidates(c.ask, c.declared, c.catalog).query
  BY NodePasses
<1>q. QED  BY <1>3, <1>4 DEF Kept

-----------------------------------------------------------------------------
(* Scripts *)

\* Where the exchanges of a script stand: the client is made first, HEAD and a token are
\* asked for early enough to go on from, and the last one closes.
Shaped(s, rest, token, probe) ==
  /\ Len(s) \in {3, 4} /\ DOMAIN s = 1 .. Len(s)
  /\ s[Len(s)].op = "close" /\ s[Len(s) - 1].op = "run"
  /\ \A i \in 1 .. Len(s) - 2 : s[i].op \in {"connect", "client", "session", "token", "head"}
  /\ \A i \in 1 .. Len(s) - 2 : s[i].op = "head" => i = 2 /\ Len(s) = 4 /\ probe
  /\ \A i \in 1 .. Len(s) - 2 : s[i].op = "token" => i = 1 /\ Len(s) = 4 /\ rest
  /\ token => Len(s) = 4 /\ s[1].op = "token" /\ s[2].op = "client"

\* The three shapes of the scripts.
LEMMA ThreeSteps ==
  ASSUME NEW x, NEW y, NEW z, x.op = "connect" \/ x.op = "client", y.op = "run", z.op = "close",
         NEW rest, NEW probe
  PROVE  Shaped(<<x, y, z>>, rest, FALSE, probe)
<1> DEFINE s == <<x, y, z>>
<1>1. Len(s) = 3 /\ DOMAIN s = 1 .. 3 /\ s[1] = x /\ s[2] = y /\ s[3] = z
  OBVIOUS
<1> HIDE DEF s
<1>2. Shaped(s, rest, FALSE, probe)
  BY <1>1 DEF Shaped
<1>q. QED  BY <1>2 DEF s

LEMMA FourSteps ==
  ASSUME NEW w, NEW x, NEW y, NEW z, w.op = "connect" \/ w.op = "client",
         NEW probe, x.op = "session" \/ (x.op = "head" /\ probe), y.op = "run",
         z.op = "close", NEW rest
  PROVE  Shaped(<<w, x, y, z>>, rest, FALSE, probe)
<1> DEFINE s == <<w, x, y, z>>
<1>1. Len(s) = 4 /\ DOMAIN s = 1 .. 4 /\ s[1] = w /\ s[2] = x /\ s[3] = y /\ s[4] = z
  OBVIOUS
<1> HIDE DEF s
<1>2. Shaped(s, rest, FALSE, probe)
  BY <1>1 DEF Shaped
<1>q. QED  BY <1>2 DEF s

LEMMA TokenSteps ==
  ASSUME NEW w, NEW x, NEW y, NEW z, w.op = "token", x.op = "client", y.op = "run", z.op = "close"
  PROVE  Shaped(<<w, x, y, z>>, TRUE, TRUE, FALSE)
<1> DEFINE s == <<w, x, y, z>>
<1>1. Len(s) = 4 /\ DOMAIN s = 1 .. 4 /\ s[1] = w /\ s[2] = x /\ s[3] = y /\ s[4] = z
  OBVIOUS
<1> HIDE DEF s
<1>2. Shaped(s, TRUE, TRUE, FALSE)
  BY <1>1 DEF Shaped
<1>q. QED  BY <1>2 DEF s

\* Concatenation of the short sequences RestExecute is made of.
LEMMA Joined ==
  ASSUME NEW w, NEW x, NEW y, NEW z
  PROVE  <<>> \o <<x, y, z>> = <<x, y, z>> /\ <<w>> \o <<x, y, z>> = <<w, x, y, z>>
<1> DEFINE S == {w, x, y, z}
           s == <<x, y, z>>
           t == <<w, x, y, z>>
           u == <<w>>
           v == u \o s
<1>1. s \in Seq(S) /\ t \in Seq(S) /\ u \in Seq(S)
  OBVIOUS
<1>2. <<>> \o s = s
  BY <1>1, ConcatEmptySeq
<1>3. /\ Len(s) = 3 /\ s[1] = x /\ s[2] = y /\ s[3] = z
      /\ Len(t) = 4 /\ t[1] = w /\ t[2] = x /\ t[3] = y /\ t[4] = z
      /\ Len(u) = 1 /\ u[1] = w
  OBVIOUS
<1> HIDE DEF s, t, u
<1>4. /\ v \in Seq(S) /\ Len(v) = Len(u) + Len(s)
      /\ \A i \in 1 .. Len(u) + Len(s) : v[i] = IF i <= Len(u) THEN u[i] ELSE s[i - Len(u)]
  BY <1>1, ConcatProperties
<1> HIDE DEF v
<1>5. Len(v) = Len(t) /\ \A i \in 1 .. Len(v) : v[i] = t[i]
  BY <1>3, <1>4
<1>6. v = t
  BY <1>1, <1>4, <1>5, SeqEqual
<1>q. QED  BY <1>2, <1>6 DEF s, t, u, v

\* The fields of a step.
LEMMA StepFacts ==
  /\ \A op, ends : Step(op, ends).op = op /\ Step(op, ends).ends = ends
  /\ \A op : Local(op).op = op /\ Local(op).ends = {}
BY DEF Step, Local

OAuth(a, c) == a # Sweeper /\ c.dialect = "rest_api" /\ c.oauth

\* Every script has its shape.
LEMMA ScriptShaped ==
  ASSUME NEW c \in Connections, NEW a
  PROVE  Shaped(Script(a, c), c.dialect = "rest_api" /\ a # Sweeper, OAuth(a, c), a = Sweeper)
<1>1. \A op, ends : Step(op, ends).op = op
  BY StepFacts
<1>2. \A op : Local(op).op = op
  BY StepFacts
<1>3. ASSUME NEW rest, NEW probe
      PROVE  /\ Shaped(SqliteExecute, rest, FALSE, probe)
             /\ Shaped(ClickhouseExecute, rest, FALSE, probe)
             /\ Shaped(DuckdbExecute, rest, FALSE, probe)
             /\ Shaped(SnowflakeExecute, rest, FALSE, probe)
             /\ Shaped(BigqueryExecute, rest, FALSE, probe)
             /\ Shaped(ElasticsearchExecute, rest, FALSE, probe)
             /\ Shaped(GraphqlExecute, rest, FALSE, probe)
  <2>1. Shaped(SqliteExecute, rest, FALSE, probe)
    BY <1>1, <1>2, ThreeSteps, Zenon DEF SqliteExecute
  <2>2. Shaped(ClickhouseExecute, rest, FALSE, probe)
    BY <1>1, <1>2, ThreeSteps, Zenon DEF ClickhouseExecute
  <2>3. Shaped(DuckdbExecute, rest, FALSE, probe)
    BY <1>1, <1>2, ThreeSteps, Zenon DEF DuckdbExecute
  <2>4. Shaped(SnowflakeExecute, rest, FALSE, probe)
    BY <1>1, <1>2, ThreeSteps, Zenon DEF SnowflakeExecute
  <2>5. Shaped(BigqueryExecute, rest, FALSE, probe)
    BY <1>1, <1>2, ThreeSteps, Zenon DEF BigqueryExecute
  <2>6. Shaped(ElasticsearchExecute, rest, FALSE, probe)
    BY <1>1, <1>2, ThreeSteps, Zenon DEF ElasticsearchExecute
  <2>7. Shaped(GraphqlExecute, rest, FALSE, probe)
    BY <1>1, <1>2, ThreeSteps, Zenon DEF GraphqlExecute
  <2>q. QED  BY <2>1, <2>2, <2>3, <2>4, <2>5, <2>6, <2>7
<1>4. ASSUME NEW rest, NEW probe
      PROVE  /\ Shaped(PostgresExecute, rest, FALSE, probe)
             /\ Shaped(MysqlExecute, rest, FALSE, probe)
             /\ Shaped(MssqlExecute, rest, FALSE, probe)
             /\ Shaped(OracleExecute, rest, FALSE, probe)
             /\ Shaped(MongodbExecute, rest, FALSE, probe)
             /\ Shaped(MongodbProbe, rest, FALSE, probe)
             /\ Shaped(RestProbe, rest, FALSE, TRUE)
  <2>1. Shaped(PostgresExecute, rest, FALSE, probe)
    BY <1>1, <1>2, FourSteps, Zenon DEF PostgresExecute
  <2>2. Shaped(MysqlExecute, rest, FALSE, probe)
    BY <1>1, <1>2, FourSteps, Zenon DEF MysqlExecute
  <2>3. Shaped(MssqlExecute, rest, FALSE, probe)
    BY <1>1, <1>2, FourSteps, Zenon DEF MssqlExecute
  <2>4. Shaped(OracleExecute, rest, FALSE, probe)
    BY <1>1, <1>2, FourSteps, Zenon DEF OracleExecute
  <2>5. Shaped(MongodbExecute, rest, FALSE, probe)
    BY <1>1, <1>2, FourSteps, Zenon DEF MongodbExecute
  <2>6. Shaped(MongodbProbe, rest, FALSE, probe)
    BY <1>1, <1>2, FourSteps, Zenon DEF MongodbProbe
  <2>7. Shaped(RestProbe, rest, FALSE, TRUE)
    BY <1>1, <1>2, FourSteps, Zenon DEF RestProbe
  <2>q. QED  BY <2>1, <2>2, <2>3, <2>4, <2>5, <2>6, <2>7
<1>5. RestExecute(FALSE) = <<Local("client"), Step("run", {"statement", "driver"}), Local("close")>>
  BY Joined, Zenon DEF RestExecute
<1>6. RestExecute(TRUE) = <<Step("token", {"driver"}), Local("client"),
                           Step("run", {"statement", "driver"}), Local("close")>>
  BY Joined, Zenon DEF RestExecute
<1>7. Shaped(RestExecute(TRUE), TRUE, TRUE, FALSE)
  BY <1>1, <1>2, <1>6, TokenSteps, Zenon
<1>8. \A rest : Shaped(RestExecute(FALSE), rest, FALSE, FALSE)
  BY <1>1, <1>2, <1>5, ThreeSteps, Zenon
<1>9. CASE c.dialect = "rest_api" /\ a # Sweeper
  <2>1. Script(a, c) = RestExecute(c.oauth)
    BY <1>9 DEF Script, ExecuteOf
  <2> DEFINE probe == a = Sweeper
  <2>5. probe = FALSE
    BY <1>9
  <2> HIDE DEF probe
  <2>2. CASE c.oauth = TRUE
    BY <1>7, <1>9, <2>1, <2>2, <2>5 DEF OAuth, probe
  <2>3. CASE c.oauth = FALSE
    BY <1>8, <1>9, <2>1, <2>3, <2>5 DEF OAuth, probe
  <2>4. c.oauth \in BOOLEAN
    BY DEF Connections
  <2>q. QED  BY <2>2, <2>3, <2>4
<1>10. CASE ~(c.dialect = "rest_api" /\ a # Sweeper)
  <2>1. c.dialect \in Dialects
    BY DEF Connections
  <2>2. Script(a, c) \in {SqliteExecute, ClickhouseExecute, DuckdbExecute, SnowflakeExecute,
                         BigqueryExecute, ElasticsearchExecute, GraphqlExecute,
                         PostgresExecute, MysqlExecute, MssqlExecute, OracleExecute,
                         MongodbExecute, MongodbProbe, ElasticsearchProbe}
        \/ (Script(a, c) = RestProbe /\ a = Sweeper)
    BY <1>10, <2>1 DEF Script, ExecuteOf, Dialects, SqlDialects
  <2>4. ElasticsearchProbe = ElasticsearchExecute
    BY DEF ElasticsearchProbe, ElasticsearchExecute
  <2> DEFINE rest == c.dialect = "rest_api" /\ a # Sweeper
  <2> DEFINE probe == a = Sweeper
  <2>6. a = Sweeper => probe = TRUE
    OBVIOUS
  <2> HIDE DEF rest, probe
  <2>5. Shaped(Script(a, c), rest, FALSE, probe)
    BY <1>3, <1>4, <2>2, <2>4, <2>6
  <2>3. OAuth(a, c) = FALSE
    BY <1>10 DEF OAuth
  <2>q. QED  BY <2>3, <2>5 DEF rest, probe
<1>q. QED  BY <1>9, <1>10

\* The exchange at a position of a script.
LEMMA Positions ==
  ASSUME NEW c \in Connections, NEW a, NEW i \in 1 .. Len(Script(a, c))
  PROVE  LET op == Script(a, c)[i].op  n == Len(Script(a, c))
         IN /\ n \in {3, 4}
            /\ op = "close" <=> i = n
            /\ op = "run" <=> i = n - 1
            /\ op \in {"connect", "client", "session", "token", "head", "run", "close"}
            /\ op = "head" => i = 2 /\ n = 4 /\ a = Sweeper
            /\ op = "token" => i = 1 /\ n = 4 /\ c.dialect = "rest_api" /\ a # Sweeper
            /\ OAuth(a, c) => n = 4 /\ (op = "token" <=> i = 1)
<1> DEFINE s == Script(a, c)
           rest == c.dialect = "rest_api" /\ a # Sweeper
           token == OAuth(a, c)
           probe == a = Sweeper
<1>1. Shaped(s, rest, token, probe)
  BY ScriptShaped
<1> HIDE DEF s, rest, token, probe
<1>2. /\ Len(s) \in {3, 4} /\ i \in 1 .. Len(s)
      /\ i = Len(s) \/ i = Len(s) - 1 \/ i \in 1 .. Len(s) - 2
  <2>1. Len(s) \in {3, 4}
    BY <1>1 DEF Shaped
  <2>2. i \in 1 .. Len(s)
    BY DEF s
  <2>q. QED  BY <2>1, <2>2
<1>3. i = Len(s) => s[i].op = "close"
  BY <1>1 DEF Shaped
<1>4. i = Len(s) - 1 => s[i].op = "run"
  BY <1>1 DEF Shaped
<1>5. i \in 1 .. Len(s) - 2 => s[i].op \in {"connect", "client", "session", "token", "head"}
  BY <1>1 DEF Shaped
<1>6. /\ i \in 1 .. Len(s) - 2 /\ s[i].op = "head" => i = 2 /\ Len(s) = 4 /\ probe
      /\ i \in 1 .. Len(s) - 2 /\ s[i].op = "token" => i = 1 /\ Len(s) = 4 /\ rest
  BY <1>1 DEF Shaped
<1>7. token => Len(s) = 4 /\ s[1].op = "token" /\ s[2].op = "client"
  BY <1>1 DEF Shaped
<1>8. /\ s[i].op = "close" <=> i = Len(s)
      /\ s[i].op = "run" <=> i = Len(s) - 1
      /\ s[i].op \in {"connect", "client", "session", "token", "head", "run", "close"}
      /\ s[i].op = "head" => i = 2 /\ Len(s) = 4 /\ probe
      /\ s[i].op = "token" => i = 1 /\ Len(s) = 4 /\ rest
      /\ token => Len(s) = 4 /\ (s[i].op = "token" <=> i = 1)
  BY <1>2, <1>3, <1>4, <1>5, <1>6, <1>7
<1>q. QED  BY <1>2, <1>8 DEF s, rest, token, probe

\* A sequence without duplicates: its head is not in its tail, which has none either.
LEMMA HeadAndTail ==
  ASSUME NEW S, NEW s \in Seq(S), s # <<>>
  PROVE  /\ Head(s) \in S /\ Tail(s) \in Seq(S)
         /\ ToSet(s) = {Head(s)} \cup ToSet(Tail(s))
         /\ (\A m, n \in DOMAIN s : s[m] = s[n] => m = n) =>
              /\ Head(s) \notin ToSet(Tail(s))
              /\ \A m, n \in DOMAIN Tail(s) : Tail(s)[m] = Tail(s)[n] => m = n
<1>1. /\ Head(s) \in S /\ Tail(s) \in Seq(S) /\ Head(s) = s[1]
      /\ Len(s) \in Nat \ {0} /\ DOMAIN s = 1 .. Len(s)
      /\ DOMAIN Tail(s) = 1 .. Len(s) - 1
      /\ \A i \in 1 .. Len(s) - 1 : Tail(s)[i] = s[i + 1]
  <2>1. Len(Tail(s)) = Len(s) - 1 /\ Head(s) = s[1]
    OBVIOUS
  <2>q. QED  BY <2>1, HeadTailProperties, LenProperties, EmptySeq
<1> DEFINE t == Tail(s)
<1> HIDE DEF t
<1>2. ToSet(s) = {s[1]} \cup ToSet(t)
  <2>1. ASSUME NEW i \in 1 .. Len(s)  PROVE s[i] = s[1] \/ \E j \in 1 .. Len(s) - 1 : t[j] = s[i]
    <3>1. CASE i = 1
      BY <3>1
    <3>2. CASE i # 1
      <4>1. i - 1 \in 1 .. Len(s) - 1 /\ (i - 1) + 1 = i
        BY <1>1, <3>2
      <4>q. QED  BY <1>1, <4>1 DEF t
    <3>q. QED  BY <3>1, <3>2
  <2>2. ASSUME NEW j \in 1 .. Len(s) - 1  PROVE \E i \in 1 .. Len(s) : s[i] = t[j]
    <3>1. j + 1 \in 1 .. Len(s)
      BY <1>1
    <3>q. QED  BY <1>1, <3>1 DEF t
  <2>3. 1 \in 1 .. Len(s)
    BY <1>1
  <2>4. /\ ToSet(s) = {s[i] : i \in 1 .. Len(s)}
        /\ ToSet(t) = {t[i] : i \in 1 .. Len(s) - 1}
    BY <1>1, Zenon DEF ToSet, t
  <2>5. ToSet(s) \subseteq {s[1]} \cup ToSet(t)
    BY <2>1, <2>4
  <2>6. {s[1]} \cup ToSet(t) \subseteq ToSet(s)
    BY <2>2, <2>3, <2>4
  <2>q. QED  BY <2>5, <2>6
<1>3. ASSUME \A m, n \in DOMAIN s : s[m] = s[n] => m = n
      PROVE  /\ s[1] \notin ToSet(t)
             /\ \A m, n \in DOMAIN t : t[m] = t[n] => m = n
  <2>1. ASSUME NEW m \in 1 .. Len(s) - 1  PROVE m + 1 \in DOMAIN s /\ m + 1 # 1 /\ t[m] = s[m + 1]
    BY <1>1 DEF t
  <2>2. ToSet(t) = {t[i] : i \in 1 .. Len(s) - 1}
    BY <1>1, Zenon DEF ToSet, t
  <2>3. s[1] \notin ToSet(t)
    BY <1>1, <1>3, <2>1, <2>2
  <2>4. ASSUME NEW m \in 1 .. Len(s) - 1, NEW n \in 1 .. Len(s) - 1, t[m] = t[n]  PROVE m = n
    <3>1. m + 1 = n + 1
      BY <1>3, <2>1, <2>4
    <3>q. QED  BY <3>1
  <2>q. QED  BY <1>1, <2>3, <2>4 DEF t
<1>q. QED  BY <1>1, <1>2, <1>3 DEF t

\* A call under way is not Idle.
LEMMA Records == \A r \in CallRecord : r # Idle
<1> SUFFICES ASSUME NEW r \in CallRecord  PROVE r # Idle
  OBVIOUS
<1>1. "conn" \in DOMAIN r
  BY DEF CallRecord
<1>2. "conn" \notin DOMAIN Idle
  BY DEF Idle
<1>q. QED  BY <1>1, <1>2

-----------------------------------------------------------------------------
(* Answers and moves *)

\* What an answer that is given says of the call it ends.
Answer(a, outcome, shape, tokens) ==
  [conn |-> Head(todo[a]), outcome |-> outcome, shape |-> shape, tokens |-> tokens]

\* A caller has its answer: whatever is still open in its name a thread holds.
LEMMA ReplyKeepsIInv ==
  ASSUME IInv, NEW a \in Callers, todo[a] # <<>>,
         NEW outcome, NEW shape, NEW tokens, Reply(a, outcome, shape, tokens),
         Answer(a, outcome, shape, tokens) \in Answers,
         AnswerOK(a, Answer(a, outcome, shape, tokens)),
         a = Sweeper => sweep = "probing",
         open' \subseteq open, \A o \in open' : o[1] = a => Drifting(o)',
         adrift \subseteq adrift', adrift' \subseteq Threads,
         UNCHANGED <<db, listed, sweep, wanted, deleted>>
  PROVE  IInv'
<1> DEFINE c == Head(todo[a])
           r == Answer(a, outcome, shape, tokens)
           stamp == [conn |-> c, ok |-> outcome = "rows"]
<1>1. /\ TypeInv /\ SweepInv
      /\ \A b \in Callers : call[b] # Idle => CallOK(b, call[b])
      /\ \A b \in Callers : \A i \in DOMAIN answers[b] : AnswerOK(b, answers[b][i])
      /\ \A o \in open : Held(o) \/ Drifting(o)
  BY DEF IInv
<1>2. /\ c \in Connections /\ Tail(todo[a]) \in Seq(Connections)
      /\ ToSet(todo[a]) = {c} \cup ToSet(Tail(todo[a]))
      /\ (\A m, n \in DOMAIN todo[a] : todo[a][m] = todo[a][n] => m = n) =>
           /\ c \notin ToSet(Tail(todo[a]))
           /\ \A m, n \in DOMAIN Tail(todo[a]) :
                Tail(todo[a])[m] = Tail(todo[a])[n] => m = n
  <2>1. todo[a] \in Seq(Connections)
    BY <1>1 DEF TypeInv
  <2>q. QED  BY <2>1, HeadAndTail
<1>3. /\ answers' = [answers EXCEPT ![a] = Append(answers[a], r)]
      /\ todo' = [todo EXCEPT ![a] = Tail(todo[a])]
      /\ call' = [call EXCEPT ![a] = Idle]
      /\ stamps' = IF a = Sweeper THEN stamps \cup {stamp} ELSE stamps
  BY Zenon DEF Reply, Answer
<1>4. r \in Answers /\ AnswerOK(a, r) /\ stamp \in Stamps /\ stamp.conn = c
  BY <1>2 DEF Stamps
<1> HIDE DEF c, r, stamp
<1>5. /\ todo' \in [Callers -> Seq(Connections)] /\ todo'[a] = Tail(todo[a])
      /\ \A b \in Callers \ {a} : todo'[b] = todo[b]
  BY <1>1, <1>2, <1>3 DEF TypeInv
<1>6. /\ call' \in [Callers -> CallRecord \cup {Idle}] /\ call'[a] = Idle
      /\ \A b \in Callers \ {a} : call'[b] = call[b]
  BY <1>1, <1>3 DEF TypeInv
<1>7. /\ answers' \in [Callers -> Seq(Answers)]
      /\ \A b \in Callers : \A i \in DOMAIN answers'[b] : AnswerOK(b, answers'[b][i])
  <2>1. Append(answers[a], r) \in Seq(Answers)
    BY <1>1, <1>4 DEF TypeInv
  <2>2. answers' \in [Callers -> Seq(Answers)]
    BY <1>1, <1>3, <2>1 DEF TypeInv
  <2>3. /\ answers'[a] = Append(answers[a], r)
        /\ \A b \in Callers \ {a} : answers'[b] = answers[b]
    BY <1>1, <1>3 DEF TypeInv
  <2>4. ASSUME NEW i \in DOMAIN Append(answers[a], r)
        PROVE  AnswerOK(a, Append(answers[a], r)[i])
    <3>1. answers[a] \in Seq(Answers)
      BY <1>1 DEF TypeInv
    <3>2. Append(answers[a], r)[i] = r \/ (i \in DOMAIN answers[a] /\ Append(answers[a], r)[i] = answers[a][i])
      BY <3>1, <1>4, <2>4
    <3>q. QED  BY <1>1, <1>4, <3>2
  <2>q. QED  BY <1>1, <2>2, <2>3, <2>4
<1>8. stamps' \subseteq Stamps /\ IsFiniteSet(stamps')
  <2>1. IsFiniteSet(stamps \cup {stamp})
    BY <1>1, FS_AddElement DEF TypeInv
  <2>q. QED  BY <1>1, <1>3, <1>4, <2>1 DEF TypeInv
<1>9. TypeInv'
  BY <1>1, <1>5, <1>6, <1>7, <1>8 DEF TypeInv
<1>10. ASSUME NEW b \in Callers, call'[b] # Idle  PROVE CallOK(b, call[b])'
  <2>1. b # a /\ call'[b] = call[b] /\ todo'[b] = todo[b] /\ CallOK(b, call[b])
    BY <1>1, <1>5, <1>6, <1>10
  <2>q. QED  BY <2>1 DEF CallOK, Understood
<1>11. ASSUME NEW o \in open'  PROVE Held(o)' \/ Drifting(o)'
  <2>1. CASE o[1] = a
    BY <2>1
  <2>2. CASE o[1] # a
    <3>1. o \in open /\ o[1] \in Callers
      BY <1>1 DEF TypeInv
    <3>2. call'[o[1]] = call[o[1]]
      BY <1>6, <2>2, <3>1
    <3>3. CASE Held(o)
      BY <3>2, <3>3 DEF Held
    <3>4. CASE Drifting(o)
      BY <3>4 DEF Drifting
    <3>q. QED  BY <1>1, <3>1, <3>3, <3>4
  <2>q. QED  BY <2>1, <2>2
<1>12. SweepInv'
  <2>1. CASE a # Sweeper
    <3>1. todo'[Sweeper] = todo[Sweeper] /\ call'[Sweeper] = call[Sweeper] /\ stamps' = stamps
      BY <1>3, <1>5, <1>6, <2>1, EnginesAssumption
    <3>q. QED  BY <1>1, <3>1 DEF SweepInv, Stamped
  <2>2. CASE a = Sweeper
    <3>1. /\ todo'[Sweeper] = Tail(todo[a]) /\ stamps' = stamps \cup {stamp}
          /\ sweep = "probing" /\ sweep' = "probing"
          /\ ToSet(todo[a]) \cap Stamped = {}
          /\ c \notin ToSet(Tail(todo[a]))
      BY <1>1, <1>2, <1>3, <1>5, <2>2 DEF SweepInv
    <3>2. Stamped' = Stamped \cup {c}
      BY <1>4, <3>1 DEF Stamped
    <3>3. listed' = ToSet(todo'[Sweeper]) \cup Stamped'
      BY <1>1, <1>2, <2>2, <3>1, <3>2 DEF SweepInv
    <3>4. \A s, t \in stamps' : s.conn = t.conn => s = t
      BY <1>1, <1>2, <1>4, <3>1 DEF SweepInv, Stamped
    <3>5. ToSet(todo'[Sweeper]) \cap Stamped' = {}
      BY <1>2, <3>1, <3>2
    <3>6. \A m, n \in DOMAIN todo'[Sweeper] : todo'[Sweeper][m] = todo'[Sweeper][n] => m = n
      BY <1>1, <1>2, <2>2, <3>1 DEF SweepInv
    <3>q. QED  BY <1>1, <3>1, <3>3, <3>4, <3>5, <3>6 DEF SweepInv
  <2>q. QED  BY <2>1, <2>2
<1>q. QED  BY <1>7, <1>9, <1>10, <1>11, <1>12 DEF IInv

\* A call changes, and is still one that may be answered well.
LEMMA MoveKeepsIInv ==
  ASSUME IInv, NEW a \in Callers, NEW r \in CallRecord, CallOK(a, r),
         call' = [call EXCEPT ![a] = r], a = Sweeper => sweep = "probing",
         call[a] # Idle /\ call[a].pos > 0 => r.conn = call[a].conn /\ r.pos > 0,
         open' = open \/ (open' = open \cup {<<a, r.conn>>} /\ r.pos > 0),
         UNCHANGED <<todo, adrift, answers, db, stamps, listed, sweep, wanted, deleted>>
  PROVE  IInv'
<1>1. /\ TypeInv /\ SweepInv
      /\ \A b \in Callers : call[b] # Idle => CallOK(b, call[b])
      /\ \A b \in Callers : \A i \in DOMAIN answers[b] : AnswerOK(b, answers[b][i])
      /\ \A o \in open : Held(o) \/ Drifting(o)
  BY DEF IInv
<1>2. /\ call' \in [Callers -> CallRecord \cup {Idle}] /\ call'[a] = r
      /\ \A b \in Callers \ {a} : call'[b] = call[b]
  BY <1>1 DEF TypeInv
<1>3. r.conn \in Connections /\ r # Idle
  BY Records DEF CallRecord
<1>4. open' \subseteq Callers \X Connections
  BY <1>1, <1>3 DEF TypeInv
<1>5. TypeInv'
  BY <1>1, <1>2, <1>4 DEF TypeInv
<1>6. ASSUME NEW b \in Callers, call'[b] # Idle  PROVE CallOK(b, call[b])'
  <2>1. CallOK(b, call'[b]) /\ todo'[b] = todo[b]
    BY <1>1, <1>2, <1>6
  <2>q. QED  BY <2>1 DEF CallOK, Understood
<1>7. ASSUME NEW b \in Callers, NEW i \in DOMAIN answers'[b]  PROVE AnswerOK(b, answers'[b][i])
  BY <1>1
<1>8. ASSUME NEW o \in open'  PROVE Held(o)' \/ Drifting(o)'
  <2>1. CASE o \in open /\ Drifting(o)
    BY <2>1 DEF Drifting
  <2>2. CASE o \in open /\ Held(o)
    <3>1. o[1] \in Callers
      BY <1>1, <2>2 DEF TypeInv
    <3>q. QED  BY <1>2, <1>3, <2>2, <3>1 DEF Held
  <2>3. CASE o \notin open
    <3>1. o[1] = a /\ o[2] = r.conn /\ r.pos > 0
      BY <2>3
    <3>q. QED  BY <1>2, <1>3, <3>1 DEF Held
  <2>q. QED  BY <1>1, <2>1, <2>2, <2>3
<1>9. SweepInv'
  <2>1. sweep # "probing" => call'[Sweeper] = call[Sweeper]
    BY <1>2, EnginesAssumption
  <2>q. QED  BY <1>1, <2>1 DEF SweepInv, Stamped
<1>q. QED  BY <1>5, <1>6, <1>7, <1>8, <1>9 DEF IInv

-----------------------------------------------------------------------------
(* The ways a call ends and begins *)

\* What IInv says of a call under way.
LEMMA CallFacts ==
  ASSUME IInv, NEW a \in Callers, call[a] # Idle
  PROVE  /\ call[a] \in CallRecord /\ CallOK(a, call[a]) /\ call[a].conn \in Connections
         /\ todo[a] # <<>> /\ call[a].conn = Head(todo[a])
         /\ a = Sweeper => sweep = "probing"
         /\ Len(Script(a, call[a].conn)) \in {3, 4}
         /\ call[a].pos \in 0 .. Len(Script(a, call[a].conn))
<1>1. call[a] \in CallRecord /\ CallOK(a, call[a]) /\ SweepInv
  BY DEF IInv, TypeInv
<1>2. call[a].conn \in Connections /\ call[a].pos \in Nat
  BY <1>1 DEF CallRecord
<1>3. Len(Script(a, call[a].conn)) \in {3, 4}
  BY <1>2, ScriptShaped DEF Shaped
<1>q. QED  BY <1>1, <1>2, <1>3 DEF CallOK, Understood, SweepInv

\* A caller that is idle answers for nothing that is open; one that closes, only for
\* what it closes.
LEMMA NothingHeld ==
  ASSUME IInv, NEW a \in Callers, call[a] = Idle \/ call[a].pos = 0,
         NEW o \in open, o[1] = a
  PROVE  Drifting(o)
BY DEF IInv, Held, TypeInv, CallRecord

\* Closing leaves nothing open in the name of a call but what threads hold.
LEMMA Released ==
  ASSUME IInv, NEW a \in Callers, call[a] # Idle, open' = open \ {<<a, call[a].conn>>},
         adrift' = adrift
  PROVE  open' \subseteq open /\ \A o \in open' : o[1] = a => Drifting(o)'
<1>1. ASSUME NEW o \in open', o[1] = a  PROVE Drifting(o)'
  <2>1. o \in open /\ o = <<o[1], o[2]>> /\ (Held(o) \/ Drifting(o))
    BY DEF IInv, TypeInv
  <2>2. ~Held(o)
    BY <1>1, <2>1 DEF Held
  <2>q. QED  BY <2>1, <2>2 DEF Drifting
<1>q. QED  BY <1>1

\* An answer without rows is sound, and `unauthorized' is when two tokens were fetched.
LEMMA PlainEnds ==
  ASSUME IInv, NEW a \in Callers, todo[a] # <<>>, NEW tokens \in Nat,
         NEW outcome \in {"error", "timeout", "refused", "skipped", "unauthorized",
                         "refused by the engine"},
         outcome = "refused by the engine" => Head(todo[a]).declared # Head(todo[a]).dialect,
         outcome = "unauthorized" /\ Head(todo[a]).oauth => tokens = 2,
         outcome = "refused" => ~Admitted(Head(todo[a]))
  PROVE  /\ Answer(a, outcome, Nothing, tokens) \in Answers
         /\ AnswerOK(a, Answer(a, outcome, Nothing, tokens))
<1>1. Head(todo[a]) \in Connections
  BY HeadAndTail DEF IInv, TypeInv
<1>2. Nothing \in Shapes /\ outcome \in Outcomes
  BY DEF Nothing, Shapes, Outcomes
<1> DEFINE r == Answer(a, outcome, Nothing, tokens)
<1>3. r \in Answers /\ r.outcome = outcome /\ r.tokens = tokens /\ r.conn = Head(todo[a])
  BY <1>1, <1>2 DEF Answer, Answers
<1> HIDE DEF r
<1>4. AnswerOK(a, r)
  BY <1>3 DEF AnswerOK
<1>q. QED  BY <1>3, <1>4 DEF r

\* The way out of a call that failed, was denied or timed out.
LEMMA UnwindKeepsIInv ==
  ASSUME IInv, NEW a \in Callers, Running(a), NEW fired \in SUBSET (Timers \cup {"retry"}),
         NEW outcome \in {"error", "timeout", "unauthorized"},
         outcome = "unauthorized" =>
           /\ a # Sweeper /\ call[a].conn.dialect = "rest_api"
           /\ call[a].conn.oauth => call[a].tokens = 2,
         Unwind(a, outcome, fired),
         UNCHANGED <<adrift, db, listed, sweep, wanted, deleted>>
  PROVE  IInv'
<1> DEFINE me == call[a]
           n == Len(Script(a, me.conn))
           r == [me EXCEPT !.pos = n, !.outcome = outcome, !.fired = fired]
<1>1. /\ me # Idle /\ me.pos > 0 /\ me \in CallRecord /\ CallOK(a, me) /\ me.conn = Head(todo[a])
      /\ todo[a] # <<>> /\ (a = Sweeper => sweep = "probing") /\ n \in {3, 4}
  BY CallFacts DEF Running
<1>2. CASE At(a).op # "close" /\ <<a, call[a].conn>> \in open
  <2>1. /\ call' = [call EXCEPT ![a].pos = n, ![a].outcome = outcome, ![a].fired = fired]
        /\ UNCHANGED <<open, todo, answers, stamps>>
    BY <1>2 DEF Unwind, Closing
  <2>2. call' = [call EXCEPT ![a] = r]
    BY <2>1
  <2> HIDE DEF n
  <2>3. /\ r \in CallRecord /\ r.conn = me.conn /\ r.pos = n /\ r.outcome = outcome
        /\ r.tokens = me.tokens /\ r.query = me.query
    <3>1. n \in Nat /\ outcome \in Ends \cup {None}
      BY <1>1 DEF Ends
    <3>2. r \in CallRecord
      BY <1>1, <3>1 DEF CallRecord
    <3>3. "conn" \in DOMAIN me /\ "pos" \in DOMAIN me /\ "outcome" \in DOMAIN me
          /\ "tokens" \in DOMAIN me /\ "query" \in DOMAIN me
      BY <1>1 DEF CallRecord
    <3>q. QED  BY <3>2, <3>3
  <2> HIDE DEF r
  <2>4. CallOK(a, r)
    <3>1. OAuth(a, me.conn) => n = 4
      <4>1. me.conn \in Connections
        BY <1>1 DEF CallRecord
      <4>q. QED  BY <4>1, ScriptShaped DEF Shaped, n
    <3>2. r.conn.dialect = "rest_api" /\ r.conn.oauth /\ a # Sweeper => TokensCounted(r)
      BY <1>1, <2>3, <3>1 DEF OAuth, TokensCounted
    <3>3. r.outcome # None /\ r.outcome = outcome
      BY <2>3 DEF None
    <3>4. Len(Script(a, r.conn)) = n
      BY <2>3 DEF n
    <3>q. QED  BY <1>1, <2>3, <3>2, <3>3, <3>4 DEF CallOK, Understood
  <2>5. r.conn = call[a].conn /\ r.pos > 0 /\ open' = open
    BY <1>1, <2>1, <2>3
  <2>q. QED  BY <1>1, <2>1, <2>2, <2>3, <2>4, <2>5, MoveKeepsIInv
<1>3. CASE ~(At(a).op # "close" /\ <<a, call[a].conn>> \in open)
  <2>1. open' = open \ {<<a, me.conn>>} /\ Reply(a, outcome, Nothing, me.tokens)
    BY <1>3 DEF Unwind
  <2>2. me.tokens \in Nat
    BY <1>1 DEF CallRecord
  <2>3. /\ Answer(a, outcome, Nothing, me.tokens) \in Answers
        /\ AnswerOK(a, Answer(a, outcome, Nothing, me.tokens))
    BY <1>1, <2>2, PlainEnds
  <2>4. open' \subseteq open /\ \A o \in open' : o[1] = a => Drifting(o)'
    BY <1>1, <2>1, Released
  <2>5. adrift' \subseteq Threads
    BY DEF IInv, TypeInv
  <2>q. QED  BY <1>1, <2>1, <2>3, <2>4, <2>5, ReplyKeepsIInv
<1>q. QED  BY <1>2, <1>3

\* A call begins.
LEMMA StartKeepsIInv ==
  ASSUME IInv, NEW a \in Callers, call[a] = Idle, todo[a] # <<>>,
         a = Sweeper => sweep = "probing", NEW q \in Queries,
         a # Sweeper => Admitted(Head(todo[a])),
         a # Sweeper /\ q.lang = Language(Head(todo[a]).dialect) =>
           /\ ResultOf(Head(todo[a]).dialect, q) \in Shapes
           /\ AsAsked(Head(todo[a]).ask, ResultOf(Head(todo[a]).dialect, q)),
         call' = [call EXCEPT ![a] = Started(Head(todo[a]), q)],
         UNCHANGED <<todo, open, adrift, answers, db, stamps, listed, sweep, wanted, deleted>>
  PROVE  IInv'
<1> DEFINE c == Head(todo[a])
           r == Started(c, q)
<1>1. c \in Connections
  BY HeadAndTail DEF IInv, TypeInv
<1> HIDE DEF c
<1>2. /\ r \in CallRecord /\ r.conn = c /\ r.query = q /\ r.fired = {} /\ r.tokens = 0
      /\ r.outcome = None /\ r.pos \in {0, 1} /\ (c.dialect = "rest_api" => r.pos = 1)
  BY <1>1 DEF Started, CallRecord, Ends, Threaded
<1> HIDE DEF r
<1>3. Len(Script(a, c)) \in {3, 4}
  BY <1>1, ScriptShaped DEF Shaped
<1>4. CallOK(a, r)
  <2>1. r.conn.dialect = "rest_api" /\ r.conn.oauth /\ a # Sweeper => TokensCounted(r)
    BY <1>2 DEF TokensCounted
  <2>2. r.outcome # "unauthorized" /\ r.outcome # "rows"
    BY <1>2 DEF None
  <2>3. r.pos < Len(Script(a, r.conn))
    <3>1. r.conn = c /\ r.pos \in {0, 1}
      BY <1>2
    <3>2. Len(Script(a, r.conn)) \in {3, 4}
      BY <1>3, <3>1
    <3>3. r.pos \in Nat /\ r.pos <= 1
      BY <3>1
    <3> DEFINE n == Len(Script(a, r.conn))
    <3>4. n = 3 \/ n = 4
      BY <3>2
    <3> HIDE DEF n
    <3>5. r.pos < n
      BY <3>3, <3>4
    <3>q. QED  BY <3>5 DEF n
  <2>4. /\ a # Sweeper => Admitted(r.conn)
        /\ a # Sweeper /\ Understood(r) => /\ ResultOf(r.conn.dialect, r.query) \in Shapes
                                      /\ AsAsked(r.conn.ask, ResultOf(r.conn.dialect, r.query))
    BY <1>2 DEF c, Understood
  <2>q. QED  BY <1>2, <1>3, <2>1, <2>2, <2>3, <2>4 DEF CallOK, Understood, c
<1>q. QED  BY <1>2, <1>4, MoveKeepsIInv DEF c, r

\* One lemma per step from here on.
LEMMA AskKeepsIInv ==
  ASSUME IInv, NEW a \in Callers, Ask(a)
  PROVE  IInv'
<1> DEFINE c == Head(todo[a])
           v == QueryValidator(c.ask, c.declared, c.catalog, c.tables)
           e == EngineValidates(v.query, c.dialect)
<1>1. /\ a # Sweeper /\ call[a] = Idle /\ todo[a] # <<>>
      /\ UNCHANGED <<open, adrift, db, faults, listed, flushed, sweep, wanted, deleted>>
  BY DEF Ask
<1>2. IF ~v.ok THEN Reply(a, "refused", Nothing, 0)
      ELSE IF ~Configured(c) THEN Reply(a, "error", Nothing, 0)
      ELSE IF ~e.ok THEN Reply(a, "refused by the engine", Nothing, 0)
      ELSE call' = [call EXCEPT ![a] = Started(c, e.query)]
           /\ UNCHANGED <<answers, todo, stamps>>
  BY Zenon DEF Ask
<1>3. c \in Connections
  BY <1>1, HeadAndTail DEF IInv, TypeInv
<1>4. v.ok =>
        /\ e.ok =>
             /\ e.query \in Queries
             /\ e.query.lang = Language(c.dialect) =>
                  /\ ResultOf(c.dialect, e.query) \in Shapes
                  /\ AsAsked(c.ask, ResultOf(c.dialect, e.query))
        /\ c.declared = c.dialect => e.ok
  BY <1>3, AcceptedIsKept
<1>5. v.ok = Admitted(c)
  BY DEF Admitted
<1> HIDE DEF v, e
<1>6. ASSUME NEW outcome \in {"refused", "error", "refused by the engine"},
             outcome = "refused" => ~v.ok,
             outcome = "refused by the engine" => c.declared # c.dialect,
             Reply(a, outcome, Nothing, 0)
      PROVE  IInv'
  <2>1. /\ Answer(a, outcome, Nothing, 0) \in Answers
        /\ AnswerOK(a, Answer(a, outcome, Nothing, 0))
    BY <1>1, <1>5, <1>6, PlainEnds
  <2>2. \A o \in open' : o[1] = a => Drifting(o)'
    BY <1>1, NothingHeld DEF Drifting
  <2>3. adrift' \subseteq Threads
    BY <1>1 DEF IInv, TypeInv
  <2>q. QED  BY <1>1, <1>6, <2>1, <2>2, <2>3, ReplyKeepsIInv
<1>7. CASE v.ok /\ e.ok /\ call' = [call EXCEPT ![a] = Started(c, e.query)] /\ UNCHANGED <<answers, todo, stamps>>
  BY <1>1, <1>4, <1>5, <1>7, StartKeepsIInv
<1>q. QED  BY <1>2, <1>4, <1>6, <1>7

LEMMA ProbeKeepsIInv ==
  ASSUME IInv, NEW a \in Callers, Probe(a)
  PROVE  IInv'
<1> DEFINE c == Head(todo[a])
<1>1. /\ a = Sweeper /\ sweep = "probing" /\ call[a] = Idle /\ todo[a] # <<>>
      /\ UNCHANGED <<open, adrift, db, faults, listed, wanted, deleted>>
  BY DEF Probe
<1>2. CASE Stale(stamps)
  <2>1. /\ sweep' = "failed" /\ todo' = [todo EXCEPT ![a] = <<>>]
        /\ UNCHANGED <<call, answers, stamps>>
    BY <1>2 DEF Probe
  <2>2. /\ todo' \in [Callers -> Seq(Connections)] /\ todo'[Sweeper] = <<>>
        /\ \A b \in Callers \ {Sweeper} : todo'[b] = todo[b]
    BY <1>1, <2>1 DEF IInv, TypeInv
  <2>3. TypeInv'
    BY <1>1, <2>1, <2>2 DEF IInv, TypeInv
  <2>4. deleted' # {}
    BY <1>1, <1>2 DEF Stale
  <2>5. ToSet(<<>>) = {} /\ DOMAIN <<>> = {}
    BY DEF ToSet
  <2>6. SweepInv'
    BY <1>1, <2>1, <2>2, <2>4, <2>5 DEF IInv, SweepInv, Stamped
  <2>7. ASSUME NEW b \in Callers, call'[b] # Idle  PROVE CallOK(b, call[b])'
    <3>1. b # Sweeper /\ call[b] # Idle /\ call'[b] = call[b]
      BY <1>1, <2>1, <2>7
    <3>2. CallOK(b, call[b]) /\ todo'[b] = todo[b]
      BY <2>2, <3>1 DEF IInv
    <3>q. QED  BY <3>1, <3>2 DEF CallOK, Understood
  <2>8. ASSUME NEW o \in open'  PROVE Held(o)' \/ Drifting(o)'
    BY <1>1, <2>1 DEF IInv, Held, Drifting
  <2>q. QED  BY <2>1, <2>3, <2>6, <2>7, <2>8 DEF IInv
<1>3. CASE ~Stale(stamps)
  <2>1. /\ IF ~c.readable \/ c \in deleted THEN Reply(a, "skipped", Nothing, 0)
           ELSE IF ~Configured(c) THEN Reply(a, "error", Nothing, 0)
           ELSE call' = [call EXCEPT ![a] = Started(c, c.ask)]
                /\ UNCHANGED <<answers, todo, stamps>>
        /\ UNCHANGED sweep
    BY <1>3, Zenon DEF Probe, Skip
  <2>2. ASSUME NEW outcome \in {"skipped", "error"}, Reply(a, outcome, Nothing, 0)
        PROVE  IInv'
    <3>1. /\ Answer(a, outcome, Nothing, 0) \in Answers
          /\ AnswerOK(a, Answer(a, outcome, Nothing, 0))
      BY <1>1, PlainEnds
    <3>2. \A o \in open' : o[1] = a => Drifting(o)'
      BY <1>1, NothingHeld DEF Drifting
    <3>3. adrift' \subseteq Threads
      BY <1>1 DEF IInv, TypeInv
    <3>q. QED  BY <1>1, <2>1, <2>2, <3>1, <3>2, <3>3, ReplyKeepsIInv
  <2>3. CASE call' = [call EXCEPT ![a] = Started(c, c.ask)] /\ UNCHANGED <<answers, todo, stamps>>
    <3>1. c \in Connections
      BY <1>1, HeadAndTail DEF IInv, TypeInv
    <3>2. c.ask \in Queries
      BY <3>1 DEF Connections
    <3>q. QED  BY <1>1, <2>1, <2>3, <3>2, StartKeepsIInv
  <2>q. QED  BY <2>1, <2>2, <2>3
<1>q. QED  BY <1>2, <1>3

LEMMA GivesUpKeepsIInv ==
  ASSUME IInv, NEW a \in Callers, GivesUp(a)
  PROVE  IInv'
<1>1. /\ call[a] # Idle /\ call[a].pos = 0 /\ Reply(a, "timeout", Nothing, 0)
      /\ UNCHANGED <<open, adrift, db, faults, listed, flushed, sweep, wanted, deleted>>
  BY DEF GivesUp
<1>2. todo[a] # <<>> /\ (a = Sweeper => sweep = "probing")
  BY <1>1, CallFacts
<1>3. /\ Answer(a, "timeout", Nothing, 0) \in Answers
      /\ AnswerOK(a, Answer(a, "timeout", Nothing, 0))
  BY <1>2, PlainEnds
<1>4. \A o \in open' : o[1] = a => Drifting(o)'
  BY <1>1, NothingHeld DEF Drifting
<1>5. adrift' \subseteq Threads
  BY <1>1 DEF IInv, TypeInv
<1>q. QED  BY <1>1, <1>2, <1>3, <1>4, <1>5, ReplyKeepsIInv

\* A call that goes on: it is not at its end, and no token is fetched.
LEMMA AdvanceKeepsIInv ==
  ASSUME IInv, NEW a \in Callers, call[a] # Idle, NEW p \in Nat \ {0},
         call[a].pos < p, p < Len(Script(a, call[a].conn)),
         OAuth(a, call[a].conn) => call[a].pos = 2 /\ p = 3,
         call' = [call EXCEPT ![a].pos = p],
         open' = open \/ open' = open \cup {<<a, call[a].conn>>},
         UNCHANGED <<todo, adrift, answers, db, stamps, listed, sweep, wanted, deleted>>
  PROVE  IInv'
<1> DEFINE me == call[a]
           r == [me EXCEPT !.pos = p]
<1>1. /\ me \in CallRecord /\ CallOK(a, me) /\ me.pos \in Nat
      /\ a = Sweeper => sweep = "probing"
      /\ Len(Script(a, me.conn)) \in {3, 4}
  BY CallFacts DEF CallRecord
<1>2. /\ r \in CallRecord /\ r.conn = me.conn /\ r.query = me.query /\ r.pos = p
      /\ r.fired = me.fired /\ r.tokens = me.tokens /\ r.outcome = me.outcome
  BY <1>1 DEF CallRecord
<1>3. call' = [call EXCEPT ![a] = r]
  OBVIOUS
<1> HIDE DEF r
<1>4. CallOK(a, r)
  <2>1. me.outcome # "unauthorized" /\ p # Len(Script(a, me.conn))
    BY <1>1 DEF CallOK, Understood
  <2>2. a # Sweeper /\ me.conn.dialect = "rest_api" /\ me.conn.oauth => TokensCounted(r)
    BY <1>1, <1>2 DEF CallOK, Understood, TokensCounted, OAuth
  <2>q. QED  BY <1>1, <1>2, <2>1, <2>2 DEF CallOK, Understood
<1>5. r.conn = call[a].conn /\ r.pos > 0
  BY <1>2
<1>q. QED  BY <1>1, <1>2, <1>3, <1>4, <1>5, MoveKeepsIInv

\* A call that has its rows closes what it has opened.
LEMMA FinishKeepsIInv ==
  ASSUME IInv, NEW a \in Callers, call[a] # Idle, call[a].pos > 0,
         call[a].pos < Len(Script(a, call[a].conn)), a # Sweeper => Understood(call[a]),
         call' = [call EXCEPT ![a].pos = Len(Script(a, call[a].conn)), ![a].outcome = "rows"],
         UNCHANGED <<open, todo, adrift, answers, db, stamps, listed, sweep, wanted, deleted>>
  PROVE  IInv'
<1> DEFINE me == call[a]
           n == Len(Script(a, me.conn))
           r == [me EXCEPT !.pos = n, !.outcome = "rows"]
<1>1. /\ me \in CallRecord /\ CallOK(a, me) /\ me.pos \in Nat /\ me.conn \in Connections
      /\ a = Sweeper => sweep = "probing"
      /\ n \in {3, 4}
  BY CallFacts DEF CallRecord
<1>2. OAuth(a, me.conn) => n = 4
  BY <1>1, ScriptShaped DEF Shaped
<1>3. call' = [call EXCEPT ![a] = r]
  OBVIOUS
<1> HIDE DEF n
<1>4. /\ r \in CallRecord /\ r.conn = me.conn /\ r.query = me.query /\ r.pos = n
      /\ r.outcome = "rows"
  <2>1. n \in Nat /\ "rows" \in Ends \cup {None}
    BY <1>1 DEF Ends
  <2>2. r \in CallRecord
    BY <1>1, <2>1 DEF CallRecord
  <2>3. "conn" \in DOMAIN me /\ "pos" \in DOMAIN me /\ "outcome" \in DOMAIN me /\ "query" \in DOMAIN me
    BY <1>1 DEF CallRecord
  <2>q. QED  BY <2>2, <2>3
<1> HIDE DEF r
<1>5. CallOK(a, r)
  <2>1. n = Len(Script(a, r.conn)) /\ "rows" # None
    BY <1>4 DEF n, None
  <2>2. a # Sweeper /\ r.conn.dialect = "rest_api" /\ r.conn.oauth => TokensCounted(r)
    BY <1>1, <1>2, <1>4 DEF TokensCounted, OAuth
  <2>q. QED  BY <1>1, <1>4, <2>1, <2>2 DEF CallOK, Understood
<1>6. r.conn = call[a].conn /\ r.pos > 0
  BY <1>1, <1>4
<1>q. QED  BY <1>1, <1>3, <1>4, <1>5, <1>6, MoveKeepsIInv

\* The answer of a call that has closed.
LEMMA CloseKeepsIInv ==
  ASSUME IInv, NEW a \in Callers, call[a] # Idle,
         call[a].pos = Len(Script(a, call[a].conn)), NEW tokens \in Nat,
         call[a].conn.dialect = "rest_api" => tokens = call[a].tokens,
         open' = open \ {<<a, call[a].conn>>},
         Reply(a, call[a].outcome, Shape(a), tokens),
         UNCHANGED <<adrift, db, listed, sweep, wanted, deleted>>
  PROVE  IInv'
<1> DEFINE me == call[a]
           r == Answer(a, me.outcome, Shape(a), tokens)
<1>1. /\ me \in CallRecord /\ CallOK(a, me) /\ me.conn \in Connections
      /\ todo[a] # <<>> /\ me.conn = Head(todo[a])
      /\ a = Sweeper => sweep = "probing"
  BY CallFacts
<1>2. me.outcome \in Ends
  BY <1>1 DEF CallRecord, CallOK, Understood
<1>3. Shape(a) \in Shapes
  BY <1>1 DEF Shape, CallOK, Understood, Nothing, Shapes
<1>4. a # Sweeper /\ me.outcome = "rows" => AsAsked(me.conn.ask, Shape(a)) /\ Admitted(me.conn)
  BY <1>1 DEF Shape, CallOK, Understood
<1>5. Ends \subseteq Outcomes /\ "refused by the engine" \notin Ends /\ "refused" \notin Ends
  BY DEF Ends, Outcomes
<1>6. /\ r \in Answers /\ r.conn = me.conn /\ r.outcome = me.outcome /\ r.shape = Shape(a)
      /\ r.tokens = tokens
  BY <1>1, <1>2, <1>3, <1>5 DEF Answer, Answers
<1> HIDE DEF r
<1>7. AnswerOK(a, r)
  <2>1. r.outcome # "refused by the engine"
    BY <1>2, <1>5, <1>6
  <2>2. r.outcome = "unauthorized" /\ r.conn.oauth => r.tokens = 2
    BY <1>1, <1>6 DEF CallOK, Understood
  <2>3. r.outcome # "refused"
    BY <1>2, <1>5, <1>6
  <2>q. QED  BY <1>4, <1>6, <2>1, <2>2, <2>3 DEF AnswerOK
<1>8. open' \subseteq open /\ \A o \in open' : o[1] = a => Drifting(o)'
  BY Released
<1>9. adrift' \subseteq Threads
  BY DEF IInv, TypeInv
<1>q. QED  BY <1>1, <1>6, <1>7, <1>8, <1>9, ReplyKeepsIInv DEF r

\* A token is counted, the first of a request or the one after it was turned down.
LEMMA TokenKeepsIInv ==
  ASSUME IInv, NEW a \in Callers, call[a] # Idle, call[a].pos = 1, NEW p \in {2, 3},
         Len(Script(a, call[a].conn)) = 4,
         call' = [call EXCEPT ![a].tokens = @ + 1, ![a].pos = p],
         UNCHANGED <<open, todo, adrift, answers, db, stamps, listed, sweep, wanted, deleted>>
  PROVE  IInv'
<1> DEFINE me == call[a]
           r == [me EXCEPT !.tokens = @ + 1, !.pos = p]
<1>1. /\ me \in CallRecord /\ CallOK(a, me) /\ me.tokens \in Nat
      /\ a = Sweeper => sweep = "probing"
  BY CallFacts DEF CallRecord
<1>2. call' = [call EXCEPT ![a] = r]
  OBVIOUS
<1>3. /\ r \in CallRecord /\ r.conn = me.conn /\ r.query = me.query /\ r.pos = p
      /\ r.fired = me.fired /\ r.tokens = me.tokens + 1 /\ r.outcome = me.outcome
  <2>1. p \in Nat /\ me.tokens + 1 \in Nat
    BY <1>1
  <2>2. r \in CallRecord
    BY <1>1, <2>1 DEF CallRecord
  <2>3. "conn" \in DOMAIN me /\ "pos" \in DOMAIN me /\ "outcome" \in DOMAIN me /\ "query" \in DOMAIN me
        /\ "fired" \in DOMAIN me /\ "tokens" \in DOMAIN me
    BY <1>1 DEF CallRecord
  <2>q. QED  BY <2>2, <2>3
<1> HIDE DEF r
<1>4. CallOK(a, r)
  <2>1. me.outcome # "unauthorized"
    BY <1>1 DEF CallOK, Understood
  <2>2. a # Sweeper /\ me.conn.dialect = "rest_api" /\ me.conn.oauth => TokensCounted(r)
    BY <1>1, <1>3 DEF CallOK, Understood, TokensCounted
  <2>3. r.pos <= Len(Script(a, r.conn)) /\ r.pos # Len(Script(a, r.conn))
    <3> DEFINE n == Len(Script(a, r.conn))
    <3>1. n = 4
      BY <1>3
    <3>2. r.pos = 2 \/ r.pos = 3
      BY <1>3
    <3> HIDE DEF n
    <3>3. r.pos <= n /\ r.pos # n
      BY <3>1, <3>2
    <3>q. QED  BY <3>3 DEF n
  <2>q. QED  BY <1>1, <1>3, <2>1, <2>2, <2>3 DEF CallOK, Understood
<1>5. r.conn = call[a].conn /\ r.pos > 0
  BY <1>3
<1>q. QED  BY <1>1, <1>2, <1>3, <1>4, <1>5, MoveKeepsIInv

-----------------------------------------------------------------------------
(* The exchanges *)

\* Where a call stands, and what its script does there.
LEMMA AtFacts ==
  ASSUME IInv, NEW a \in Callers, Running(a)
  PROVE  LET op == At(a).op  p == call[a].pos  n == Len(Script(a, call[a].conn))
         IN /\ call[a] # Idle /\ p \in 1 .. n /\ n \in {3, 4}
            /\ op = "close" <=> p = n
            /\ op = "run" <=> p = n - 1
            /\ op \in {"connect", "client", "session", "token", "head", "run", "close"}
            /\ op = "head" => p = 2 /\ n = 4 /\ a = Sweeper
            /\ op = "token" => p = 1 /\ n = 4
            /\ OAuth(a, call[a].conn) => n = 4 /\ (op = "token" <=> p = 1)
<1> DEFINE c == call[a].conn
           p == call[a].pos
<1>1. call[a] # Idle /\ p > 0
  BY DEF Running
<1>2. c \in Connections /\ p \in 0 .. Len(Script(a, c)) /\ Len(Script(a, c)) \in {3, 4}
  BY <1>1, CallFacts
<1>3. p \in 1 .. Len(Script(a, c))
  BY <1>1, <1>2
<1>4. At(a) = Script(a, c)[p]
  BY DEF At
<1> HIDE DEF c, p
<1>5. LET op == Script(a, c)[p].op  n == Len(Script(a, c))
      IN /\ n \in {3, 4}
         /\ op = "close" <=> p = n
         /\ op = "run" <=> p = n - 1
         /\ op \in {"connect", "client", "session", "token", "head", "run", "close"}
         /\ op = "head" => p = 2 /\ n = 4 /\ a = Sweeper
         /\ op = "token" => p = 1 /\ n = 4 /\ c.dialect = "rest_api" /\ a # Sweeper
         /\ OAuth(a, c) => n = 4 /\ (op = "token" <=> p = 1)
  BY <1>2, <1>3, Positions
<1>q. QED  BY <1>1, <1>3, <1>4, <1>5 DEF c, p

LEMMA TakeThreadKeepsIInv ==
  ASSUME IInv, NEW a \in Callers, TakeThread(a)
  PROVE  IInv'
<1>1. /\ call[a] # Idle /\ call[a].pos = 0 /\ call' = [call EXCEPT ![a].pos = 1]
      /\ UNCHANGED <<todo, open, adrift, answers, db, stamps, listed, sweep, wanted, deleted>>
  BY DEF TakeThread, sweepVars
<1>2. CallOK(a, call[a]) /\ Len(Script(a, call[a].conn)) \in {3, 4}
  BY <1>1, CallFacts
<1>3. ~OAuth(a, call[a].conn)
  BY <1>1, <1>2 DEF CallOK, Understood, TokensCounted, OAuth
<1> DEFINE n == Len(Script(a, call[a].conn))
<1>4. n = 3 \/ n = 4
  BY <1>2
<1> HIDE DEF n
<1>5. 1 < n
  BY <1>4
<1>6. 1 < Len(Script(a, call[a].conn))
  BY <1>5 DEF n
<1>7. /\ call[a].pos < 1 /\ 1 \in Nat \ {0} /\ open' = open
      /\ OAuth(a, call[a].conn) => call[a].pos = 2 /\ 1 = 3
  BY <1>1, <1>3
<1>q. QED  BY <1>1, <1>6, <1>7, AdvanceKeepsIInv

LEMMA AnsweredKeepsIInv ==
  ASSUME IInv, NEW a \in Callers, Answered(a)
  PROVE  IInv'
<1> DEFINE me == call[a]
           c == me.conn
           op == At(a).op
           n == Len(Script(a, c))
<1>1. Running(a) /\ UNCHANGED <<adrift, db, faults, listed, flushed, sweep, wanted, deleted>>
  BY DEF Answered
<1>2. /\ me # Idle /\ me.pos \in 1 .. n /\ n \in {3, 4}
      /\ op = "close" <=> me.pos = n
      /\ op = "run" <=> me.pos = n - 1
      /\ op \in {"connect", "client", "session", "token", "head", "run", "close"}
      /\ op = "head" => me.pos = 2 /\ n = 4 /\ a = Sweeper
      /\ op = "token" => me.pos = 1 /\ n = 4
      /\ OAuth(a, c) => n = 4 /\ (op = "token" <=> me.pos = 1)
  BY <1>1, AtFacts
<1>3. /\ op \in {"connect", "client"} =>
           /\ open' = open \cup {<<a, c>>} /\ call' = [call EXCEPT ![a].pos = @ + 1]
           /\ UNCHANGED <<todo, answers, stamps>>
      /\ op = "session" =>
           /\ call' = [call EXCEPT ![a].pos = @ + 1]
           /\ UNCHANGED <<open, todo, answers, stamps>>
      /\ op = "token" =>
           /\ call' = [call EXCEPT ![a].tokens = @ + 1,
                                   ![a].pos = IF <<a, c>> \in open THEN @ + 2 ELSE @ + 1]
           /\ UNCHANGED <<open, todo, answers, stamps>>
      /\ op = "head" =>
           /\ \/ call' = [call EXCEPT ![a].pos = @ + 1]
              \/ call' = [call EXCEPT ![a].pos = @ + 2, ![a].outcome = "rows"]
           /\ UNCHANGED <<open, todo, answers, stamps>>
      /\ op = "run" =>
           /\ call' = [call EXCEPT ![a].pos = n, ![a].outcome = "rows"]
           /\ UNCHANGED <<open, todo, answers, stamps>>
      /\ op = "close" =>
           /\ open' = open \ {<<a, c>>} /\ Reply(a, me.outcome, Shape(a), me.tokens)
  BY DEF Answered, Closing
<1> HIDE DEF op, n
<1>4. CASE op \in {"connect", "client", "session"} \/ (op = "head" /\ call' = [call EXCEPT ![a].pos = @ + 1])
  <2> DEFINE p == me.pos + 1
  <2>1. /\ call' = [call EXCEPT ![a].pos = p]
        /\ open' = open \/ open' = open \cup {<<a, call[a].conn>>}
        /\ UNCHANGED <<todo, answers, stamps>>
    BY <1>3, <1>4
  <2>2. p \in Nat \ {0} /\ me.pos < p /\ p < n /\ (OAuth(a, c) => me.pos = 2 /\ p = 3)
    <3>1. me.pos # n /\ me.pos # n - 1 /\ (OAuth(a, c) => me.pos # 1)
      BY <1>2, <1>4
    <3>q. QED  BY <1>2, <3>1
  <2> HIDE DEF p
  <2>q. QED  BY <1>1, <1>2, <2>1, <2>2, AdvanceKeepsIInv DEF n
<1>5. CASE op = "token"
  <2> DEFINE p == IF <<a, c>> \in open THEN 3 ELSE 2
  <2>1. me.pos = 1 /\ n = 4
    BY <1>2, <1>5
  <2>2. call' = [call EXCEPT ![a].tokens = @ + 1, ![a].pos = p]
    BY <1>3, <1>5, <2>1
  <2>3. p \in {2, 3}
    OBVIOUS
  <2> HIDE DEF p
  <2>q. QED  BY <1>1, <1>2, <1>3, <1>5, <2>1, <2>2, <2>3, TokenKeepsIInv DEF n
<1>6. CASE op = "run" \/ (op = "head" /\ call' = [call EXCEPT ![a].pos = @ + 2, ![a].outcome = "rows"])
  <2>1. me.pos > 0 /\ me.pos < n
    BY <1>2, <1>6
  <2>2. call' = [call EXCEPT ![a].pos = n, ![a].outcome = "rows"] /\ UNCHANGED <<open, todo, answers, stamps>>
    <3>1. CASE op = "run"
      BY <1>3, <3>1
    <3>2. CASE op = "head" /\ call' = [call EXCEPT ![a].pos = @ + 2, ![a].outcome = "rows"]
      <4>1. call[a].pos = 2 /\ n = 4
        BY <1>2, <3>2
      <4>2. call[a].pos + 2 = n
        BY <4>1
      <4>3. call' = [call EXCEPT ![a].pos = call[a].pos + 2, ![a].outcome = "rows"]
        BY <3>2
      <4>4. call' = [call EXCEPT ![a].pos = n, ![a].outcome = "rows"]
        BY <4>2, <4>3
      <4>q. QED  BY <1>3, <3>2, <4>4
    <3>q. QED  BY <1>6, <3>1, <3>2
  <2>3. a # Sweeper => Understood(me)
    BY <1>2, <1>6 DEF Answered, Speaks, Understood, op
  <2>q. QED  BY <1>1, <1>2, <2>1, <2>2, <2>3, FinishKeepsIInv DEF n
<1>7. CASE op = "close"
  <2>1. me.pos = n /\ open' = open \ {<<a, c>>} /\ Reply(a, me.outcome, Shape(a), me.tokens)
    BY <1>2, <1>3, <1>7
  <2>2. me.tokens \in Nat
    BY <1>2, CallFacts DEF CallRecord
  <2>q. QED  BY <1>1, <1>2, <2>1, <2>2, CloseKeepsIInv DEF n
<1>q. QED  BY <1>2, <1>3, <1>4, <1>5, <1>6, <1>7

LEMMA FailsKeepsIInv ==
  ASSUME IInv, NEW a \in Callers, Fails(a)
  PROVE  IInv'
<1> DEFINE n == Len(Script(a, call[a].conn))
<1>1. Running(a) /\ UNCHANGED <<adrift, db, listed, flushed, sweep, wanted, deleted>>
  BY DEF Fails
<1>2. /\ call[a] # Idle /\ call[a].pos \in 1 .. n /\ n \in {3, 4}
      /\ At(a).op = "close" <=> call[a].pos = n
      /\ At(a).op = "head" => call[a].pos = 2 /\ n = 4
      /\ OAuth(a, call[a].conn) => n = 4
  BY <1>1, AtFacts
<1>3. CASE At(a).op = "head"
  <2>1. call' = [call EXCEPT ![a].pos = @ + 1] /\ UNCHANGED <<open, todo, answers, stamps>>
    BY <1>3 DEF Fails
  <2>2. call[a].pos = 2 /\ Len(Script(a, call[a].conn)) = 4
    BY <1>2, <1>3
  <2>3. call[a].pos + 1 = 3
    BY <2>2
  <2>4. call' = [call EXCEPT ![a].pos = call[a].pos + 1]
    BY <2>1
  <2>5. call' = [call EXCEPT ![a].pos = 3]
    BY <2>3, <2>4
  <2>6. /\ call[a].pos < 3 /\ 3 \in Nat \ {0} /\ open' = open
        /\ 3 < Len(Script(a, call[a].conn))
        /\ OAuth(a, call[a].conn) => call[a].pos = 2 /\ 3 = 3
    BY <2>1, <2>2
  <2>q. QED  BY <1>1, <1>2, <2>1, <2>5, <2>6, AdvanceKeepsIInv
<1>4. CASE At(a).op # "head" /\ FailsOpenly(a)
  <2>1. Unwind(a, "error", call[a].fired)
    BY <1>4 DEF Fails
  <2>2. call[a].fired \in SUBSET (Timers \cup {"retry"})
    BY <1>2, CallFacts DEF CallRecord
  <2>q. QED  BY <1>1, <2>1, <2>2, UnwindKeepsIInv
<1>5. CASE At(a).op # "head" /\ ~FailsOpenly(a)
  <2>1. open' = open \ {<<a, call[a].conn>>} /\ Reply(a, call[a].outcome, Shape(a), 0)
    BY <1>5 DEF Fails
  <2>2. call[a].pos = n /\ call[a].conn.dialect = "snowflake"
    BY <1>2, <1>5 DEF FailsOpenly
  <2>q. QED  BY <1>1, <1>2, <2>1, <2>2, CloseKeepsIInv
<1>q. QED  BY <1>3, <1>4, <1>5

LEMMA MisreadKeepsIInv ==
  ASSUME IInv, NEW a \in Callers, Misread(a)
  PROVE  IInv'
<1>1. /\ Running(a) /\ Unwind(a, "error", call[a].fired)
      /\ UNCHANGED <<adrift, db, listed, sweep, wanted, deleted>>
  BY DEF Misread
<1>2. call[a].fired \in SUBSET (Timers \cup {"retry"})
  BY <1>1, CallFacts DEF Running, CallRecord
<1>q. QED  BY <1>1, <1>2, UnwindKeepsIInv

LEMMA DeniedKeepsIInv ==
  ASSUME IInv, NEW a \in Callers, Denied(a)
  PROVE  IInv'
<1> DEFINE me == call[a]
           n == Len(Script(a, me.conn))
<1>1. /\ Running(a) /\ At(a).op = "run" /\ me.conn.dialect = "rest_api" /\ a # Sweeper
      /\ UNCHANGED <<adrift, db, listed, flushed, sweep, wanted, deleted>>
  BY DEF Denied
<1>2. /\ me # Idle /\ n \in {3, 4} /\ me.pos = n - 1
      /\ OAuth(a, me.conn) => n = 4
  BY <1>1, AtFacts
<1>3. me \in CallRecord /\ CallOK(a, me)
  BY <1>2, CallFacts
<1>4. me.conn.oauth => TokensCounted(me) /\ me.pos = 3
  BY <1>1, <1>2, <1>3 DEF CallOK, Understood, OAuth
<1>5. CASE me.conn.oauth /\ "retry" \notin me.fired
  <2> DEFINE r == [me EXCEPT !.pos = 1, !.fired = me.fired \cup {"retry"}]
  <2>1. /\ call' = [call EXCEPT ![a] = r] /\ UNCHANGED <<open, todo, answers, stamps>>
    BY <1>5 DEF Denied, Again
  <2>2. me.tokens = 1
    BY <1>4, <1>5 DEF TokensCounted
  <2>3. /\ r \in CallRecord /\ r.conn = me.conn /\ r.query = me.query /\ r.pos = 1
        /\ "retry" \in r.fired /\ r.tokens = 1 /\ r.outcome = me.outcome
    <3>1. r \in CallRecord
      BY <1>3 DEF CallRecord
    <3>2. "conn" \in DOMAIN me /\ "pos" \in DOMAIN me /\ "outcome" \in DOMAIN me /\ "query" \in DOMAIN me
          /\ "fired" \in DOMAIN me /\ "tokens" \in DOMAIN me
      BY <1>3 DEF CallRecord
    <3>q. QED  BY <2>2, <3>1, <3>2
  <2> HIDE DEF r
  <2>4. me.outcome # "unauthorized"
    <3>1. me.pos # n
      BY <1>2
    <3>q. QED  BY <1>3, <3>1 DEF CallOK, Understood
  <2>5. TokensCounted(r)
    BY <2>3 DEF TokensCounted
  <2>6. r.pos <= Len(Script(a, r.conn)) /\ r.pos # Len(Script(a, r.conn))
    <3>1. n = 3 \/ n = 4
      BY <1>2
    <3>2. n = Len(Script(a, r.conn))
      BY <2>3
    <3> HIDE DEF n
    <3>3. r.pos <= n /\ r.pos # n
      BY <2>3, <3>1
    <3>q. QED  BY <3>2, <3>3
  <2>7. CallOK(a, r)
    BY <1>3, <2>3, <2>4, <2>5, <2>6 DEF CallOK, Understood
  <2>8. r.pos > 0 /\ r.conn = call[a].conn
    BY <2>3
  <2>q. QED  BY <1>1, <2>1, <2>3, <2>7, <2>8, MoveKeepsIInv
<1>6. CASE ~(me.conn.oauth /\ "retry" \notin me.fired)
  <2>1. Unwind(a, "unauthorized", me.fired)
    BY <1>6 DEF Denied
  <2>2. me.conn.oauth => me.tokens = 2
    BY <1>4, <1>6 DEF TokensCounted
  <2>3. me.fired \in SUBSET (Timers \cup {"retry"})
    BY <1>3 DEF CallRecord
  <2>q. QED  BY <1>1, <2>1, <2>2, <2>3, UnwindKeepsIInv
<1>q. QED  BY <1>5, <1>6

LEMMA ExpiresKeepsIInv ==
  ASSUME IInv, NEW a \in Callers, NEW t \in Timers, Expires(a, t)
  PROVE  IInv'
<1>1. Running(a) /\ UNCHANGED <<db, faults, listed, flushed, sweep, wanted, deleted>>
  BY DEF Expires
<1>2. call[a] # Idle
  BY <1>1 DEF Running
<1>3. /\ call[a] \in CallRecord /\ call[a].conn \in Connections /\ todo[a] # <<>>
      /\ a = Sweeper => sweep = "probing"
  BY <1>2, CallFacts
<1>4. CASE Threaded(call[a].conn.dialect)
  <2> DEFINE g == [by |-> a, conn |-> call[a].conn, pos |-> call[a].pos]
  <2>1. adrift' = adrift \cup {g} /\ Reply(a, "timeout", Nothing, 0) /\ UNCHANGED open
    BY <1>4 DEF Expires
  <2>2. g \in Threads /\ g.by = a /\ g.conn = call[a].conn
    <3>1. call[a].pos \in Nat
      BY <1>3 DEF CallRecord
    <3>q. QED  BY <1>3, <1>4, <3>1 DEF Threads
  <2> HIDE DEF g
  <2>3. adrift' \subseteq Threads /\ adrift \subseteq adrift'
    BY <2>1, <2>2 DEF IInv, TypeInv
  <2>4. ASSUME NEW o \in open', o[1] = a  PROVE Drifting(o)'
    <3>1. Held(o) \/ Drifting(o)
      BY <2>1 DEF IInv
    <3>2. CASE Held(o)
      <4>1. o[2] = call[a].conn
        BY <2>4, <3>2 DEF Held
      <4>q. QED  BY <2>1, <2>2, <2>4, <4>1 DEF Drifting
    <3>3. CASE Drifting(o)
      BY <2>3, <3>3 DEF Drifting
    <3>q. QED  BY <3>1, <3>2, <3>3
  <2>5. /\ Answer(a, "timeout", Nothing, 0) \in Answers
        /\ AnswerOK(a, Answer(a, "timeout", Nothing, 0))
    BY <1>3, PlainEnds
  <2>q. QED  BY <1>1, <1>3, <2>1, <2>3, <2>4, <2>5, ReplyKeepsIInv
<1>5. CASE ~Threaded(call[a].conn.dialect)
  <2>1. /\ IF t \in {"server", "driver"} THEN Unwind(a, "error", call[a].fired)
           ELSE Unwind(a, "timeout", call[a].fired \cup {t})
        /\ UNCHANGED adrift
    BY <1>5 DEF Expires
  <2>2. /\ call[a].fired \in SUBSET (Timers \cup {"retry"})
        /\ call[a].fired \cup {t} \in SUBSET (Timers \cup {"retry"})
    BY <1>3 DEF CallRecord
  <2>q. QED  BY <1>1, <2>1, <2>2, UnwindKeepsIInv
<1>q. QED  BY <1>4, <1>5

-----------------------------------------------------------------------------
(* Threads, the sweep, the databases *)

\* What only moves a thread that is adrift, or the databases, or nothing.
LEMMA GoesOnKeepsIInv ==
  ASSUME IInv, NEW g \in adrift, GoesOn(g)
  PROVE  IInv'
<1> DEFINE s == Script(g.by, g.conn)[g.pos]
           o0 == <<g.by, g.conn>>
           g1 == [g EXCEPT !.pos = g.pos + 1]
<1>1. /\ adrift' = (adrift \ {g}) \cup (IF s.op = "close" THEN {} ELSE {g1})
      /\ open' = IF s.op = "close" THEN open \ {o0}
                 ELSE IF s.op \in {"connect", "client"} THEN open \cup {o0} ELSE open
      /\ UNCHANGED <<todo, call, answers, db, listed, stamps, sweep, wanted, deleted>>
  BY DEF GoesOn, Drifts, sweepVars
<1>2. /\ TypeInv /\ SweepInv
      /\ \A b \in Callers : call[b] # Idle => CallOK(b, call[b])
      /\ \A b \in Callers : \A i \in DOMAIN answers[b] : AnswerOK(b, answers[b][i])
      /\ \A o \in open : Held(o) \/ Drifting(o)
  BY DEF IInv
<1>3. g \in Threads
  BY <1>2 DEF TypeInv
<1>4. g1 \in Threads /\ g1.by = g.by /\ g1.conn = g.conn /\ o0 \in Callers \X Connections
  <2>1. g.pos + 1 \in Nat /\ g.by \in Callers /\ g.conn \in Connections
        /\ g \in [by : Callers, conn : Connections, pos : Nat] /\ Threaded(g.conn.dialect)
    BY <1>3 DEF Threads
  <2>2. g1 \in [by : Callers, conn : Connections, pos : Nat] /\ g1.by = g.by /\ g1.conn = g.conn
    BY <2>1
  <2>q. QED  BY <2>1, <2>2 DEF Threads
<1>5. o0[1] = g.by /\ o0[2] = g.conn
  OBVIOUS
<1> HIDE DEF s, o0, g1
<1>6. TypeInv'
  <2>1. adrift' \subseteq Threads /\ open' \subseteq Callers \X Connections
    BY <1>1, <1>2, <1>4 DEF TypeInv
  <2>q. QED  BY <1>1, <1>2, <2>1 DEF TypeInv
<1>7. ASSUME NEW o \in open'  PROVE Held(o)' \/ Drifting(o)'
  <2>1. CASE o \in open /\ Held(o)
    BY <1>1, <2>1 DEF Held
  <2>2. CASE o \in open /\ Drifting(o)
    <3>1. PICK h \in adrift : h.by = o[1] /\ h.conn = o[2]
      BY <2>2 DEF Drifting
    <3>2. CASE h # g
      <4>1. h \in adrift'
        BY <1>1, <3>1, <3>2
      <4>q. QED  BY <3>1, <4>1 DEF Drifting
    <3>3. CASE h = g /\ s.op # "close"
      <4>1. g1 \in adrift'
        BY <1>1, <3>3
      <4>q. QED  BY <1>4, <3>1, <3>3, <4>1 DEF Drifting
    <3>4. CASE h = g /\ s.op = "close"
      <4>1. o \in Callers \X Connections
        BY <1>2, <2>2 DEF TypeInv
      <4>2. o = o0
        BY <3>1, <3>4, <4>1 DEF o0
      <4>q. QED  BY <1>1, <3>4, <4>2
    <3>q. QED  BY <3>2, <3>3, <3>4
  <2>3. CASE o \notin open
    <3>1. o = o0 /\ g1 \in adrift'
      BY <1>1, <2>3
    <3>q. QED  BY <1>4, <1>5, <3>1 DEF Drifting
  <2>q. QED  BY <1>2, <2>1, <2>2, <2>3
<1>8. ASSUME NEW b \in Callers, call'[b] # Idle  PROVE CallOK(b, call[b])'
  BY <1>1, <1>2, <1>8 DEF CallOK, Understood
<1>9. ASSUME NEW b \in Callers, NEW i \in DOMAIN answers'[b]  PROVE AnswerOK(b, answers'[b][i])
  BY <1>1, <1>2
<1>10. SweepInv'
  BY <1>1, <1>2 DEF SweepInv, Stamped
<1>q. QED  BY <1>6, <1>7, <1>8, <1>9, <1>10 DEF IInv

\* What moves no call keeps IInv when it keeps the sweep's part and the databases'.
LEMMA QuietKeepsIInv ==
  ASSUME IInv, UNCHANGED <<todo, call, open, adrift, answers, stamps>>,
         db' \in [Ids -> {"up", "slow", "gone"}],
         sweep' \in {"idle", "probing", "committed", "failed"}, SweepInv'
  PROVE  IInv'
<1>1. /\ TypeInv
      /\ \A b \in Callers : call[b] # Idle => CallOK(b, call[b])
      /\ \A b \in Callers : \A i \in DOMAIN answers[b] : AnswerOK(b, answers[b][i])
      /\ \A o \in open : Held(o) \/ Drifting(o)
  BY DEF IInv
<1>2. TypeInv'
  BY <1>1 DEF TypeInv
<1>3. ASSUME NEW b \in Callers, call'[b] # Idle  PROVE CallOK(b, call[b])'
  BY <1>1, <1>3 DEF CallOK, Understood
<1>4. ASSUME NEW b \in Callers, NEW i \in DOMAIN answers'[b]  PROVE AnswerOK(b, answers'[b][i])
  BY <1>1
<1>5. ASSUME NEW o \in open'  PROVE Held(o)' \/ Drifting(o)'
  BY <1>1 DEF Held, Drifting
<1>q. QED  BY <1>2, <1>3, <1>4, <1>5 DEF IInv

LEMMA CommitKeepsIInv ==
  ASSUME IInv, Commit
  PROVE  IInv'
<1>1. /\ sweep = "probing" /\ call[Sweeper] = Idle /\ todo[Sweeper] = <<>>
      /\ sweep' = IF Stale(stamps) THEN "failed" ELSE "committed"
      /\ UNCHANGED <<todo, call, open, adrift, answers, db, stamps, listed, wanted, deleted>>
  BY DEF Commit, callVars
<1>2. TypeInv /\ SweepInv
  BY DEF IInv
<1>3. sweep' = "failed" \/ sweep' = "committed"
  BY <1>1
<1>4. sweep' = "failed" => deleted # {}
  BY <1>1 DEF Stale
<1>5. ToSet(todo[Sweeper]) = {}
  BY <1>1 DEF ToSet
<1>6. listed = Stamped
  BY <1>1, <1>2, <1>5 DEF SweepInv
<1>7. SweepInv'
  BY <1>1, <1>2, <1>3, <1>4, <1>6 DEF SweepInv, Stamped
<1>8. db' \in [Ids -> {"up", "slow", "gone"}]
  BY <1>1, <1>2 DEF TypeInv
<1>q. QED  BY <1>1, <1>3, <1>7, <1>8, QuietKeepsIInv

LEMMA DeletingKeepsIInv ==
  ASSUME IInv,
         \/ \E c \in ToSet(todo[Sweeper]) \cup {s.conn : s \in stamps} : Want(c)
         \/ \E c \in wanted : Delete(c)
  PROVE  IInv'
<1>1. TypeInv /\ SweepInv
  BY DEF IInv
<1>2. /\ UNCHANGED <<todo, call, open, adrift, answers, db, stamps, listed, sweep>>
      /\ wanted' \cup deleted' \subseteq listed /\ deleted \subseteq deleted'
  <2>1. CASE \E c \in ToSet(todo[Sweeper]) \cup {s.conn : s \in stamps} : Want(c)
    <3>1. PICK c \in ToSet(todo[Sweeper]) \cup {s.conn : s \in stamps} : Want(c)
      BY <2>1
    <3>2. c \in listed
      BY <1>1, <3>1 DEF Want, SweepInv, Stamped
    <3>q. QED  BY <1>1, <3>1, <3>2 DEF Want, callVars, SweepInv
  <2>2. CASE \E c \in wanted : Delete(c)
    BY <1>1, <2>2 DEF Delete, callVars, SweepInv
  <2>q. QED  BY <2>1, <2>2
<1>3. SweepInv'
  BY <1>1, <1>2 DEF SweepInv, Stamped
<1>q. QED  BY <1>1, <1>2, <1>3, QuietKeepsIInv DEF TypeInv

LEMMA TurnsKeepsIInv ==
  ASSUME IInv, NEW i \in Ids, Turns(i)
  PROVE  IInv'
<1>1. TypeInv /\ SweepInv
  BY DEF IInv
<1>2. /\ db' \in [Ids -> {"up", "slow", "gone"}]
      /\ UNCHANGED <<todo, call, open, adrift, answers, listed, stamps, sweep, wanted, deleted>>
  BY <1>1 DEF Turns, Slows, Vanishes, Returns, TypeInv, sweepVars
<1>3. SweepInv'
  BY <1>1, <1>2 DEF SweepInv, Stamped
<1>q. QED  BY <1>1, <1>2, <1>3, QuietKeepsIInv DEF TypeInv

LEMMA StutterKeepsIInv ==
  ASSUME IInv, UNCHANGED vars
  PROVE  IInv'
<1>1. TypeInv /\ SweepInv
  BY DEF IInv
<1>2. UNCHANGED <<todo, call, open, adrift, answers, db, listed, stamps, sweep, wanted, deleted>>
  BY DEF vars, callVars, sweepVars
<1>3. SweepInv'
  BY <1>1, <1>2 DEF SweepInv, Stamped
<1>q. QED  BY <1>1, <1>2, <1>3, QuietKeepsIInv DEF TypeInv

\* IInv holds at first, and every step keeps it.
LEMMA InitIInv == Init => IInv
<1> SUFFICES ASSUME Init PROVE IInv
  OBVIOUS
<1>1. /\ todo \in Jobs /\ call = [a \in Callers |-> Idle] /\ open = {} /\ adrift = {}
      /\ answers = [a \in Callers |-> <<>>] /\ db = [i \in Ids |-> "up"]
      /\ listed = ToSet(todo[Sweeper]) /\ stamps = {} /\ wanted = {} /\ deleted = {}
      /\ sweep = IF todo[Sweeper] = <<>> THEN "idle" ELSE "probing"
  BY DEF Init
<1>2. /\ todo \in [Callers -> Seq(Connections)]
      /\ \A m, n \in DOMAIN todo[Sweeper] : todo[Sweeper][m] = todo[Sweeper][n] => m = n
  BY <1>1, JobsAssumption
<1>3. sweep = "probing" \/ (sweep = "idle" /\ todo[Sweeper] = <<>>)
  BY <1>1
<1>4. TypeInv
  <2>1. IsFiniteSet(stamps)
    BY <1>1, FS_EmptySet
  <2>2. answers \in [Callers -> Seq(Answers)]
    BY <1>1
  <2>q. QED  BY <1>1, <1>2, <1>3, <2>1, <2>2 DEF TypeInv
<1>5. Stamped = {}
  BY <1>1 DEF Stamped
<1>6. SweepInv
  BY <1>1, <1>2, <1>3, <1>5, EnginesAssumption DEF SweepInv
<1>q. QED  BY <1>1, <1>4, <1>6 DEF IInv

LEMMA NextKeepsIInv == IInv /\ [Next]_vars => IInv'
<1> SUFFICES ASSUME IInv, [Next]_vars PROVE IInv'
  OBVIOUS
<1>1. ASSUME NEW a \in Callers, Goes(a)  PROVE IInv'
  <2>1. CASE Ask(a)
    BY <2>1, AskKeepsIInv
  <2>2. CASE Probe(a)
    BY <2>2, ProbeKeepsIInv
  <2>3. CASE TakeThread(a)
    BY <2>3, TakeThreadKeepsIInv
  <2>4. CASE Answered(a)
    BY <2>4, AnsweredKeepsIInv
  <2>5. CASE GivesUp(a)
    BY <2>5, GivesUpKeepsIInv
  <2>6. ASSUME NEW t \in Timers, Expires(a, t)  PROVE IInv'
    BY <2>6, ExpiresKeepsIInv
  <2>7. CASE Misread(a)
    BY <2>7, MisreadKeepsIInv
  <2>q. QED  BY <1>1, <2>1, <2>2, <2>3, <2>4, <2>5, <2>6, <2>7 DEF Goes
<1>2. ASSUME NEW a \in Callers, Fails(a)  PROVE IInv'
  BY <1>2, FailsKeepsIInv
<1>3. ASSUME NEW a \in Callers, Denied(a)  PROVE IInv'
  BY <1>3, DeniedKeepsIInv
<1>4. CASE ThreadsGo
  BY <1>4, GoesOnKeepsIInv DEF ThreadsGo
<1>5. CASE Commit
  BY <1>5, CommitKeepsIInv
<1>6. CASE \/ \E c \in ToSet(todo[Sweeper]) \cup {s.conn : s \in stamps} : Want(c)
           \/ \E c \in wanted : Delete(c)
  BY <1>6, DeletingKeepsIInv
<1>7. ASSUME NEW i \in Ids, Turns(i)  PROVE IInv'
  BY <1>7, TurnsKeepsIInv
<1>8. CASE UNCHANGED vars
  BY <1>8, StutterKeepsIInv
<1>q. QED  BY <1>1, <1>2, <1>3, <1>4, <1>5, <1>6, <1>7, <1>8 DEF Next

\* The inductive invariant holds for any callers, connections, threads and faults.
THEOREM EnginesInvariance == Spec => []IInv
<1>1. Init => IInv
  BY InitIInv
<1>2. IInv /\ [Next]_vars => IInv'
  BY NextKeepsIInv
<1>q. QED  BY <1>1, <1>2, PTL DEF Spec

\* As many connections are stamped as there are stamps.
LEMMA StampsCounted ==
  ASSUME IsFiniteSet(stamps), \A s, t \in stamps : s.conn = t.conn => s = t
  PROVE  Cardinality(stamps) = Cardinality(Stamped)
<1> DEFINE F == [s \in stamps |-> s.conn]
<1>1. F \in [stamps -> Stamped]
  BY DEF Stamped
<1>2. F \in Bijection(stamps, Stamped)
  BY <1>1 DEF Bijection, Injection, Surjection, IsInjective, Stamped
<1>3. ExistsBijection(stamps, Stamped)
  BY <1>2 DEF ExistsBijection
<1>q. QED  BY <1>3, FS_Bijection

\* IInv says what the runs check.
LEMMA IInvSound == IInv => CallsSound /\ AnswersSound
<1> SUFFICES ASSUME IInv PROVE CallsSound /\ AnswersSound
  OBVIOUS
<1>1. TypeInv /\ SweepInv
  BY DEF IInv
<1>2. ASSUME NEW a \in Callers, call[a] # Idle
      PROVE  /\ call[a].conn = Head(todo[a])
             /\ call[a].pos \in 0 .. Len(Script(a, call[a].conn))
             /\ call[a].outcome \in Outcomes \cup {None}
  BY <1>2, CallFacts DEF CallRecord, Ends, Outcomes
<1>3. ASSUME NEW a \in Callers, NEW i \in DOMAIN answers[a]
      PROVE  /\ answers[a][i] \in Answers /\ AnswerOK(a, answers[a][i])
             /\ answers[a][i].outcome \in Outcomes /\ answers[a][i].shape.rows \in Nat
  <2>1. answers[a][i] \in Answers
    BY <1>1 DEF TypeInv
  <2>2. answers[a][i].shape \in Shapes
    BY <2>1 DEF Answers
  <2>q. QED  BY <2>1, <2>2 DEF IInv, Answers, Shapes
<1>4. TypeOK
  <2>1. \A o \in open : o[1] \in Callers /\ o[2].id \in Ids
    BY <1>1 DEF TypeInv, Connections
  <2>2. \A g \in adrift : g.by \in Callers /\ Threaded(g.conn.dialect)
    BY <1>1 DEF TypeInv, Threads
  <2>q. QED  BY <1>1, <1>2, <1>3, <2>1, <2>2 DEF TypeOK, TypeInv, SweepInv
<1>5. ReleasedOnceAnswered
  BY DEF IInv, ReleasedOnceAnswered, Held, Drifting
<1>6. SweepAllOrNothing
  BY <1>1, StampsCounted DEF SweepAllOrNothing, SweepInv, TypeInv, Stamped
<1>7. RowsAsAsked
  BY <1>3 DEF RowsAsAsked, AnswerOK
<1>8. AcceptedTwice
  BY <1>3 DEF AcceptedTwice, AnswerOK
<1>9. DeniedTwice
  BY <1>3 DEF DeniedTwice, AnswerOK
<1>q. QED  BY <1>4, <1>5, <1>6, <1>7, <1>8, <1>9 DEF CallsSound, AnswersSound

-----------------------------------------------------------------------------
(* The budget *)

\* What the node lets pass its validator takes, and the budget bounds.
LEMMA AdmittedFacts ==
  ASSUME NEW c
  PROVE  Admitted(c) <=> /\ NodeValidates(c.ask, c.declared, c.catalog).ok
                         /\ WithinBudget(c.ask, c.declared, c.tables)
<1> DEFINE v == NodeValidates(c.ask, c.declared, c.catalog)
           within == WithinBudget(c.ask, c.declared, c.tables)
           over == Verdict({"ROW_BUDGET_EXCEEDED"}, c.ask)
<1>1. QueryValidator(c.ask, c.declared, c.catalog, c.tables) = IF v.ok /\ ~within THEN over ELSE v
  BY Zenon DEF QueryValidator
<1>2. ~over.ok
  BY VerdictFacts
<1> HIDE DEF v, within, over
<1>3. CASE v.ok /\ ~within
  BY <1>1, <1>2, <1>3 DEF Admitted, v, within
<1>4. CASE ~(v.ok /\ ~within)
  <2>1. Admitted(c) <=> v.ok
    BY <1>1, <1>4, Zenon DEF Admitted
  <2>q. QED  BY <1>4, <2>1, Zenon DEF v, within
<1>q. QED  BY <1>3, <1>4

\* What a name stands for the budget counts: the first of its tables, nothing without one.
LEMMA EstimateFacts ==
  ASSUME NEW c \in Connections, NEW name
  PROVE  /\ Meant(name, c) = {} => EstimateOf(name, c.tables) = 0
         /\ Meant(name, c) # {} => \E t \in Meant(name, c) : EstimateOf(name, c.tables) = t.rows
<1> DEFINE ts == c.tables
           found == {i \in DOMAIN ts : ts[i].name = name.name /\ name.schema \in {None, ts[i].schema}}
<1>1. Len(ts) \in Nat /\ DOMAIN ts = 1 .. Len(ts)
  BY DEF Connections
<1>2. EstimateOf(name, ts) = IF found = {} THEN 0 ELSE ts[Min(found)].rows
  BY Zenon DEF EstimateOf
<1>3. Meant(name, c) = {ts[i] : i \in found}
  BY DEF Meant, ToSet
<1>4. found # {} => Min(found) \in found
  <2>1. found \in SUBSET Nat
    BY <1>1
  <2> HIDE DEF found
  <2>q. QED  BY <2>1, MinFacts
<1> HIDE DEF found, ts
<1>q. QED  BY <1>2, <1>3, <1>4 DEF ts

\* As long as each name is that of one table, the budget counts what the query reads.
LEMMA BudgetCountsScan ==
  ASSUME NEW c \in Connections, OneTableEach(c)
  PROVE  /\ SumFunction([name \in c.ask.reads |-> EstimateOf(name, c.tables)]) = Scan(c)
         /\ Scan(c) \in Nat
<1> DEFINE reads == c.ask.reads
           read == UNION {Meant(name, c) : name \in reads}
           f == [name \in reads |-> EstimateOf(name, c.tables)]
           g == [t \in read |-> t.rows]
           D == {name \in reads : Meant(name, c) # {}}
           h == [name \in D |-> CHOOSE t \in Meant(name, c) : TRUE]
<1>1. IsFiniteSet(reads)
  <2>1. c.ask \in Queries
    BY DEF Connections
  <2>2. c.ask.reads \in Reads
    BY <2>1 DEF Queries, SqlQueries, MongoQueries, EsQueries, GraphqlQueries, RestQueries
  <2>q. QED  BY <2>2 DEF Reads
<1>2. \A m, n \in reads : \A t \in Meant(m, c), u \in Meant(n, c) : m = n <=> t = u
  BY DEF OneTableEach
<1>3. ASSUME NEW name, NEW t \in Meant(name, c)  PROVE t.rows \in Nat
  <2>1. c.tables \in Seq([schema : STRING, name : STRING, rows : Nat])
    BY DEF Connections
  <2>2. t \in ToSet(c.tables)
    BY DEF Meant
  <2>3. ToSet(c.tables) \subseteq [schema : STRING, name : STRING, rows : Nat]
    BY <2>1, SeqIsSeq, Zenon
  <2>q. QED  BY <2>2, <2>3
<1> HIDE DEF reads
<1>4. /\ h \in [D -> read]
      /\ \A name \in D : h[name] \in Meant(name, c)
  OBVIOUS
<1>5. \A x, y \in D : h[x] = h[y] => x = y
  BY <1>2, <1>4
<1>6. \A t \in read : \E name \in D : h[name] = t
  BY <1>2, <1>4
<1>7. IsFiniteSet(read)
  <2>1. IsFiniteSet(D)
    BY <1>1, FS_Subset, Zenon
  <2>2. h \in Surjection(D, read)
    <3> HIDE DEF h, D, read
    <3>q. QED  BY <1>4, <1>6 DEF Surjection
  <2>q. QED  BY <2>1, <2>2, FS_Surjection, Zenon
<1>8. \A x \in reads : f[x] \in Nat
  BY <1>3, EstimateFacts
<1>9. \A t \in read : g[t] \in Nat
  BY <1>3
<1>10. \A x \in reads \ D : f[x] = 0
  BY EstimateFacts
<1>11. \A x \in D : f[x] = g[h[x]]
  <2>1. TAKE x \in D
  <2>2. PICK t \in Meant(x, c) : EstimateOf(x, c.tables) = t.rows
    BY EstimateFacts
  <2>3. t = h[x] /\ h[x] \in read
    BY <1>2, <1>4, <2>2
  <2>q. QED  BY <2>2, <2>3
<1>12. DOMAIN f = reads /\ DOMAIN g = read /\ D \in SUBSET reads
  OBVIOUS
<1>13. SumFunction(g) = Scan(c)
  BY Zenon DEF Scan, reads
<1> HIDE DEF f, g, h, D, read
<1>14. SumFunction(f) = SumFunction(g)
  BY <1>1, <1>4, <1>5, <1>6, <1>7, <1>8, <1>9, <1>10, <1>11, <1>12, SameSum
<1>15. SumFunction(g) \in Nat
  <2>1. \E sum : Adds(sum, g) /\ SumFunction(g) = sum[DOMAIN g]
    BY <1>7, <1>9, <1>12, SumFacts
  <2>q. QED  BY <2>1 DEF Adds
<1>q. QED  BY <1>13, <1>14, <1>15 DEF f, reads

\* The budget excuses what the property does (_has_strict_upper_bound, _check_es,
\* _check_mongo).
LEMMA BoundedIsExcused ==
  ASSUME NEW q \in Queries, NEW d \in Dialects, q.lang = Language(d)
  PROVE  Bounded(q, d) <=> Excused(q)
<1>0. RowCap \in Nat
  BY ValidatorsAssumption
<1>1. CASE q.lang = "sql"
  <2>1. d \notin {"rest_api", "graphql", "elasticsearch", "mongodb"}
    BY <1>1 DEF Language
  <2>q. QED  BY <1>1, <2>1 DEF Bounded, SqlBounded, Excused
<1>2. CASE q.lang = "mongo"
  <2>1. d = "mongodb"
    BY <1>2, Spoken
  <2>q. QED  BY <1>2, <2>1 DEF Bounded, MongoBounded, Excused
<1>3. CASE q.lang = "es"
  <2>1. d = "elasticsearch" /\ q.size \subseteq Nat
    BY <1>3, Spoken, KindsOfQueries DEF EsQueries, AtMostOne
  <2>2. \A n \in q.size : n \in 1 .. RowCap <=> 1 <= n /\ n <= RowCap
    BY <1>0, <2>1
  <2>q. QED  BY <1>3, <2>1, <2>2 DEF Bounded, EsBounded, Excused
<1>4. CASE q.lang \in {"graphql", "rest"}
  <2>1. d \in {"rest_api", "graphql"}
    BY <1>4, Spoken
  <2>q. QED  BY <1>4, <2>1 DEF Bounded, Excused
<1>q. QED  BY <1>1, <1>2, <1>3, <1>4, KindsOfQueries

\* IInv keeps the budget.
LEMMA IInvBudget == IInv => BudgetKept
<1> SUFFICES ASSUME IInv, NEW a \in Callers \ {Sweeper}, NEW i \in DOMAIN answers[a],
                    OneTableEach(answers[a][i].conn)
             PROVE  LET r == answers[a][i]  c == r.conn
                    IN /\ r.outcome = "rows" => Excused(c.ask) \/ Scan(c) <= ScanCap
                       /\ r.outcome = "refused" =>
                            \/ ~Excused(c.ask) /\ Scan(c) > ScanCap
                            \/ ~NodeValidates(c.ask, c.declared, c.catalog).ok
  BY DEF BudgetKept
<1> DEFINE r == answers[a][i]
           c == r.conn
           sum == SumFunction([name \in c.ask.reads |-> EstimateOf(name, c.tables)])
<1>1. r \in Answers /\ AnswerOK(a, r) /\ a # Sweeper
  BY DEF IInv, TypeInv
<1>2. c \in Connections
  BY <1>1 DEF Answers
<1>3. sum = Scan(c) /\ Scan(c) \in Nat
  BY <1>2, BudgetCountsScan
<1>4. WithinBudget(c.ask, c.declared, c.tables) <=> Bounded(c.ask, c.declared) \/ sum <= ScanCap
  BY Zenon DEF WithinBudget
<1>5. NodeValidates(c.ask, c.declared, c.catalog).ok => (Bounded(c.ask, c.declared) <=> Excused(c.ask))
  <2>1. c.ask \in Queries /\ c.declared \in Dialects
    BY <1>2 DEF Connections
  <2>q. QED  BY <2>1, NodeTakes, BoundedIsExcused
<1> HIDE DEF sum, c, r
<1>6. Admitted(c) <=> /\ NodeValidates(c.ask, c.declared, c.catalog).ok
                      /\ Excused(c.ask) \/ Scan(c) <= ScanCap
  BY <1>3, <1>4, <1>5, AdmittedFacts
<1>7. /\ r.outcome = "rows" => Admitted(c)
      /\ r.outcome = "refused" => ~Admitted(c)
  BY <1>1 DEF AnswerOK, c
<1>8. Scan(c) <= ScanCap \/ Scan(c) > ScanCap
  BY <1>3, ValidatorsAssumption
<1>q. QED  BY <1>6, <1>7, <1>8 DEF c, r

-----------------------------------------------------------------------------
(* Theorems *)

\* Whatever connections the questions and the sweep call, and whatever fails, is denied,
\* stalls or is deleted meanwhile: once a caller has its answer, what its call opened is
\* closed or held by a thread that still runs (the finally of every execute), and a sweep
\* stamps every connection it listed or none (run_health_sweep's one commit).
THEOREM CallsAreSound == Spec => []CallsSound
<1>1. IInv => CallsSound
  BY IInvSound
<1>q. QED  BY <1>1, EnginesInvariance, PTL

\* Whatever is asked, and whatever dialect the plan declares it in: an answer has the rows
\* that were asked for, up to the cap, although the query was validated and limited twice,
\* as the one dialect by the node (query_validator.py:28-54) and as the other by the
\* engine; an engine refuses what the node let pass only where the two differ; and a
\* client-credentials connection is told `unauthorized' only after a second token
\* (rest_api.py:314).
THEOREM AnswersAreSound == Spec => []AnswersSound
<1>1. IInv => AnswersSound
  BY IInvSound
<1>q. QED  BY <1>1, EnginesInvariance, PTL

\* Whatever is asked of whatever tables: a query gets its rows only when the tables it
\* reads are within MAX_PREDICTED_ROWS, or for a limit anywhere in it, a lone aggregation,
\* or what else Excused names, and none of those is refused for its budget
\* (row_budget_validator.py:104-128), as long as each of its names is that of one table.
THEOREM BudgetIsKept == Spec => []BudgetKept
<1>1. IInv => BudgetKept
  BY IInvBudget
<1>q. QED  BY <1>1, EnginesInvariance, PTL
=============================================================================
