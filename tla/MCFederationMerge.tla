-------------------------- MODULE MCFederationMerge --------------------------
EXTENDS FederationMerge

Sub(alias, conn, d) == [alias |-> alias, connection |-> conn, dialect |-> d]
Good1 == Sub("q1", "pg", "postgres")
Good2 == Sub("q2", "es", "elasticsearch")
MCSubQueries ==
  {<<Good1>>, <<Good1, Good2>>, <<Good1, [Good2 EXCEPT !.alias = "q1"]>>,
   <<Good1, [Good2 EXCEPT !.connection = "gone"]>>, <<Good1, [Good2 EXCEPT !.dialect = "mysql"]>>}

Step(kind, on, left, right, output) ==
  [kind |-> kind, on |-> on, left |-> left, right |-> right, output |-> output]
Kinds == {<<"join", <<"k">>>>, <<"join", <<>>>>, <<"join", <<"k", "a">>>>, <<"union", <<>>>>,
          <<"concat", <<>>>>}
Steps(inputs, outputs) ==
  {Step(k[1], k[2], l, r, o) : k \in Kinds, l \in inputs, r \in inputs, o \in outputs}
\* What the language model may get wrong, one step at a time, and chains of two.
OneStep == {<<s>> : s \in Steps({"q1", "q2", "m1"}, {"q1", "m1"})}
TwoSteps ==
  {<<s, t>> : s \in Steps({"q1", "q2"}, {"m1"}), t \in Steps({"q1", "q2", "m1"}, {"m2"})}
    \cup {<<Step("union", <<>>, "q1", "q2", o), Step("concat", <<>>, "m1", "m2", p)>> :
            o \in {"m1", "m2"}, p \in {"m1", "q2"}}
MCDrafts ==
  {[sub_queries |-> q, merge_steps |-> <<>>] : q \in MCSubQueries}
    \cup {[sub_queries |-> q, merge_steps |-> s] : q \in MCSubQueries, s \in OneStep}
    \cup {[sub_queries |-> <<Good1, Good2>>, merge_steps |-> s] : s \in TwoSteps}

MCBundles == "pg" :> "postgres" @@ "es" :> "elasticsearch"

Rs(columns, rows, truncated) ==
  [columns |-> columns, rows |-> rows, truncated |-> truncated]
CONSTANT Doc
MCCells == {1, 2, Null, Doc}
MCSubResults ==
  {Rs(<<"k">>, <<<<1>>, <<2>>>>, FALSE), Rs(<<"k", "a">>, <<<<1, 2>>, <<1, 2>>>>, FALSE),
   Rs(<<"a", "k">>, <<<<2, 1>>, <<1, Null>>>>, TRUE), Rs(<<"k", "a">>, <<<<Null, 1>>, <<1, Doc>>>>, FALSE),
   Rs(<<"k", "b">>, <<<<1, 1>>, <<2, 1>>>>, FALSE), Rs(<<"b">>, <<>>, FALSE),
   Rs(<<"k", "k">>, <<<<1, 2>>, <<1, 1>>>>, FALSE)}
=============================================================================
