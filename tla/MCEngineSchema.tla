---------------------------- MODULE MCEngineSchema ----------------------------
EXTENDS EngineSchema

Col(name, type, values, null, rows) ==
  [name |-> <<name>>, type |-> type, values |-> values, null |-> null, rows |-> rows]
Id == Col("id", "number", {1}, FALSE, 1)
Other(name) == Col(name, "blob", {1}, FALSE, 1)
T(schema, name, cols, keys) ==
  [schema |-> schema, name |-> name, kind |-> "table", internal |-> FALSE, quoted |-> FALSE,
   cols |-> cols, pk |-> {<<"id">>}, keys |-> keys, rules |-> {}]
Fk(name, cols, to, refs, refers) ==
  [name |-> name, cols |-> cols, to |-> to, refs |-> refs, implicit |-> FALSE, refers |-> refers]
Rule(name, kind, cols) == [name |-> name, kind |-> kind, cols |-> cols]
World(d, all) == [dialect |-> d, db |-> "main", owner |-> TRUE, tables |-> all]

Keyed == {"postgres", "sqlite", "mysql", "mssql", "oracle", "duckdb"}
Sql == Keyed \cup {"clickhouse", "snowflake", "bigquery"}

\* Three tables: a parent, a child with the keys, one in another schema.
Ruled(t, rules) == [t EXCEPT !.rules = rules]
ParentPk == Rule("pk", "key", <<<<"id">>>>)
Parent ==
  Ruled(T("main", "parent", <<Id, Other("k")>>, {}),
        {ParentPk, Rule("uk", "key", <<<<"k">>>>), Rule("wide", "key", <<<<"id">>, <<"k">>>>)})
Child(keys) == T("main", "child", <<Other("p"), Other("q")>>, keys)
Elsewhere(keys) == Ruled(T("else", "parent", <<Id, Other("p")>>, keys), {ParentPk})
Apart == Ruled(Elsewhere({}), {Rule("else_pk", "key", <<<<"id">>>>)})
One == Fk("fk", <<<<"p">>>>, <<"main", "parent">>, <<<<"id">>>>, "pk")
Composite == Fk("fk", <<<<"p">>, <<"q">>>>, <<"main", "parent">>, <<<<"id">>, <<"k">>>>, "wide")
Across == Fk("fk", <<<<"p">>>>, <<"else", "parent">>, <<<<"id">>>>, "pk")
Away == [Across EXCEPT !.refers = "else_pk"]
Second == Fk("fk2", <<<<"p">>>>, <<"main", "parent">>, <<<<"k">>>>, "uk")
Namesake == Fk("fk", <<<<"p">>>>, <<"main", "parent">>, <<<<"k">>>>, "uk")
\* A key into another schema, whose rule has a namesake at home and one that has none; a
\* key, a primary key and a check of one name.
Keys(d) ==
  {World(d, {Parent, Child({One})}), World(d, {Parent, Child({Composite})}),
   World(d, {Parent, Child({One, Second})})}
    \cup (IF d \in {"postgres", "mssql", "oracle", "mysql"}
          THEN {World(d, {Parent, Child({One}), Elsewhere({Namesake})}),
                World(d, {Parent, Child({Away}), Apart}),
                World(d, {Parent, Child({Across}), Elsewhere({})})}
          ELSE {})
    \cup (IF d = "postgres"
          THEN {World(d, {Parent, Child({One}), Ruled(Elsewhere({}), {Rule("fk", kind, <<<<"id">>>>)})}) :
                  kind \in {"key", "check"}}
                 \cup {World(d, {Parent, Child({One}),
                                 Ruled(T("main", "other", <<Id>>, {}), {Rule("fk", kind, <<<<"id">>>>)})}) :
                         kind \in {"key", "check"}}
          ELSE {})
Hard(d) ==
  {World(d, {[Parent EXCEPT !.quoted = TRUE], Child({One})}),
   World(d, {Parent, Child({[One EXCEPT !.implicit = TRUE]})}),
   [World(d, {Parent, Child({One})}) EXCEPT !.owner = FALSE]}
Kinds(d) ==
  LET plain == Ruled(Parent, {})
  IN {World(d, {Parent, [plain EXCEPT !.name = "file", !.kind = "view"],
                [plain EXCEPT !.name = "hidden", !.internal = TRUE],
                [plain EXCEPT !.schema = "INFORMATION_SCHEMA"]})}

\* One column, of each type, with fewer values than a sample lists, as many and more.
Types == {"text", "number", "interval", "time", "json", "blob"}
Values == {{1}, {1, 2}, {1, 2, 3, 4}}
Columns(d) ==
  {World(d, {T("main", "t", <<Id, Col("c", type, v, null, 5)>>, {})} ) :
     type \in Types, v \in Values, null \in BOOLEAN}

Mongo(docs, cols) ==
  World("mongodb", {[docs |-> docs] @@ T("main", "t", cols, {})})
Collection(name, kind) ==
  [docs |-> <<[_id |-> "objectid"]>>] @@ [T("main", name, <<>>, {}) EXCEPT !.kind = kind]
Mongos ==
  {World("mongodb", {Collection("orders", "table"), Collection("late", "view")})} \cup
  {Mongo(<<>>, <<>>),
   Mongo(<<[_id |-> "objectid"], [_id |-> "objectid", a |-> "null"], [b |-> "string"]>>, <<>>)}
    \cup {Mongo(<<[_id |-> "objectid", a |-> "null"], [a |-> type]>>,
                <<Col("a", type, v, null, 5)>>) :
            type \in {"number", "string"}, v \in Values, null \in BOOLEAN}
Elastic(mapping, cols) ==
  World("elasticsearch", {[mapping |-> mapping] @@ T("main", "t", cols, {})})
Elastics ==
  {Elastic(<<>>, <<>>),
   Elastic(<<"a">> :> "object" @@ <<"a", "b">> :> "nested" @@ <<"a", "b", "c">> :> "number", <<>>)}
    \cup {Elastic(<<"a">> :> type, <<Col("a", type, v, null, 5)>>) :
            type \in {"number", "string", "geo"}, v \in Values, null \in BOOLEAN}
Ref(name, wraps) == [name |-> name, wraps |-> wraps]
Graphqls ==
  {[types |-> "Item" :> [id |-> Ref("ID", 1), owner |-> Ref("User", f)]] @@
   World("graphql", {[type |-> Ref(of, w)] @@ T("query", "items", <<>>, {}),
                     [T("query", "__meta", <<>>, {}) EXCEPT !.internal = TRUE]}) :
     of \in {"Item", "Int"}, w \in {0, 3, 4}, f \in {1, 2}}
Rests ==
  {World("rest_api", {[fields |-> fs, params |-> ps] @@ T("api", "GET /items", <<>>, {})}) :
     fs \in {<<>>, [id |-> "integer", n |-> "string"]}, ps \in {{}, {"n"}}}

MCWorlds ==
  (UNION {Keys(d) \cup Hard(d) : d \in Keyed}) \cup (UNION {Kinds(d) \cup Columns(d) : d \in Sql})
    \cup Mongos \cup Elastics \cup Graphqls \cup Rests
MCIdNames == {<<"id">>, <<"_id">>}
=============================================================================
