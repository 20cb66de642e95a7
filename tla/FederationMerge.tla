--------------------------- MODULE FederationMerge ---------------------------
(***************************************************************************)
(* A question over several connections, from the plan to the table         *)
(* (agents/nodes/federated_planner.py, federated_executor.py,              *)
(* services/federation_merge.py): the checks of the plan, the sub-queries  *)
(* that run side by side, and the merge of their results.                  *)
(*                                                                         *)
(* A result set is its columns, its rows and whether it was truncated; a   *)
(* column is found by the first position of its name, as list.index does.  *)
(***************************************************************************)
EXTENDS Naturals, SequencesExt, Subsequences

CONSTANTS Drafts,     \* the plans a planner may write
          Bundles,    \* the connections of the question, each with its dialect
          SubResults, \* what a sub-query may return
          Cells,      \* what a row may hold
          Null,       \* Python's None
          Nested,     \* cells that are lists or documents: no key of a set or a dict
          MaxRows     \* FEDERATION_MAX_ROWS

\* Result sets: each row has a cell for each column.  Names may repeat.
Tables ==
  {t \in [columns : Seq(STRING), rows : Seq(Seq(Cells)), truncated : BOOLEAN] :
     \A i \in DOMAIN t.rows : Len(t.rows[i]) = Len(t.columns)}
\* schemas/llm_io.py
SubQueries == Seq([alias : STRING, connection : STRING, dialect : STRING])
MergeSteps == Seq([kind : {"join", "union", "concat"}, on : Seq(STRING),
                   left : STRING, right : STRING, output : STRING])

ASSUME FederationAssumption ==
  /\ MaxRows \in Nat /\ Null \in Cells
  /\ SubResults \subseteq Tables
  /\ Drafts \subseteq [sub_queries : SubQueries \ {<<>>}, merge_steps : MergeSteps]

VARIABLES plan,     \* what the planner wrote
          outcomes, \* what each sub-query came back with
          stage,    \* drafted, rejected, running, failed, done
          result

mergeVars == <<plan, outcomes, stage, result>>

-----------------------------------------------------------------------------
(* Result sets *)

Column(columns, c) == Min({i \in DOMAIN columns : columns[i] = c})
Hashable(row) == ToSet(row) \cap Nested = {}
\* Mutant: only the left side can have been truncated.
ResultSetLeft(columns, rows, left, right) ==
  [columns |-> columns, rows |-> rows, truncated |-> left.truncated]
ResultSet(columns, rows, left, right) ==
  [columns |-> columns, rows |-> rows, truncated |-> left.truncated \/ right.truncated]

KeyOf(rs, row, on) == [i \in DOMAIN on |-> row[Column(rs.columns, on[i])]]
\* The hash table keeps the rows of one key in their order.
Matches(lrow, left, right, on) ==
  {j \in DOMAIN right.rows : KeyOf(right, right.rows[j], on) = KeyOf(left, lrow, on)}
Extra(right, on) ==
  InOrder(right.columns, {i \in DOMAIN right.columns : right.columns[i] \notin ToSet(on)})
Joined(lrow, rrow, right, on) ==
  LET extra == Extra(right, on)
  IN lrow \o [i \in DOMAIN extra |-> rrow[Column(right.columns, extra[i])]]
JoinRaises(left, right, on) ==
  \/ on = <<>> \/ ~(ToSet(on) \subseteq ToSet(left.columns) \cap ToSet(right.columns))
  \/ \E rs \in {left, right} : \E i \in DOMAIN rs.rows : ~Hashable(KeyOf(rs, rs.rows[i], on))
MergeJoin(left, right, on) ==
  LET Block(lrow) ==
        LET ms == Ascending(Matches(lrow, left, right, on))
        IN [n \in DOMAIN ms |-> Joined(lrow, right.rows[ms[n]], right, on)]
  IN ResultSet(left.columns \o Extra(right, on),
               FlattenSeq([i \in DOMAIN left.rows |-> Block(left.rows[i])]), left, right)

\* Its row, in the order of other columns, with Null where it has none.
Projected(rs, columns) ==
  [i \in DOMAIN rs.rows |->
     [j \in DOMAIN columns |->
        IF columns[j] \in ToSet(rs.columns) THEN rs.rows[i][Column(rs.columns, columns[j])]
                                            ELSE Null]]
\* Where each element of a sequence comes first.
Firsts(s) == {i \in DOMAIN s : \A j \in 1 .. i - 1 : s[j] # s[i]}

UnionRaises(left, right) ==
  \/ ToSet(left.columns) # ToSet(right.columns)
  \/ \E rows \in {left.rows, Projected(right, left.columns)} :
       \E i \in DOMAIN rows : ~Hashable(rows[i])
MergeUnion(left, right) ==
  LET rows == left.rows \o Projected(right, left.columns)
  IN ResultSet(left.columns, InOrder(rows, Firsts(rows)), left, right)

MergeConcat(left, right) ==
  LET new == {i \in Firsts(right.columns) : right.columns[i] \notin ToSet(left.columns)}
      columns == left.columns \o InOrder(right.columns, new)
  IN ResultSet(columns, Projected(left, columns) \o Projected(right, columns), left, right)

Raises(step, left, right) ==
  \/ step.kind = "join" /\ JoinRaises(left, right, step.on)
  \/ step.kind = "union" /\ UnionRaises(left, right)
Merged(step, left, right) ==
  CASE step.kind = "join"   -> MergeJoin(left, right, step.on)
    [] step.kind = "union"  -> MergeUnion(left, right)
    [] step.kind = "concat" -> MergeConcat(left, right)

Assigned(f, x, v) == [y \in DOMAIN f \cup {x} |-> IF y = x THEN v ELSE f[y]]
\* One step; the first that fails ends it.
Bind(b, step) ==
  LET Left == b.bound[step.left]
      Right == b.bound[step.right]
  IN IF \/ b.failed \/ ~({step.left, step.right} \subseteq DOMAIN b.bound)
        \/ Raises(step, Left, Right)
     THEN [bound |-> b.bound, failed |-> TRUE]
     ELSE [bound |-> Assigned(b.bound, step.output, Merged(step, Left, Right)), failed |-> FALSE]
\* What is bound after each step.
Bindings(sub_results, steps) ==
  LET b[i \in 0 .. Len(steps)] ==
        IF i = 0 THEN [bound |-> sub_results, failed |-> FALSE] ELSE Bind(b[i - 1], steps[i])
  IN b

MergeError == [error |-> TRUE]
\* execute_merge_pipeline
ExecuteMergePipeline(sub_results, steps) ==
  LET b == Bindings(sub_results, steps)[Len(steps)]
  IN IF b.failed \/ (steps = <<>> /\ Cardinality(DOMAIN sub_results) # 1) THEN MergeError
     ELSE IF steps = <<>> THEN sub_results[CHOOSE a \in DOMAIN sub_results : TRUE]
     ELSE b.bound[Last(steps).output]

\* _apply_row_cap; zero is no cap.
ApplyRowCap(rs) ==
  IF MaxRows = 0 \/ Len(rs.rows) <= MaxRows THEN rs
  ELSE [columns |-> rs.columns, rows |-> SubSeq(rs.rows, 1, MaxRows), truncated |-> TRUE]

-----------------------------------------------------------------------------
(* The plan *)

AliasesOf(d) == {d.sub_queries[i].alias : i \in DOMAIN d.sub_queries}
\* What is known when step i is looked at: the outputs before it, in order or not.
KnownBefore(d, i) == AliasesOf(d) \cup {d.merge_steps[j].output : j \in 1 .. i - 1}

\* Mutant: the inputs of a step are not looked up.
PlanAcceptedUnnamed(d) ==
  /\ \A i \in DOMAIN d.sub_queries :
       LET q == d.sub_queries[i]
       IN q.connection \in DOMAIN Bundles /\ q.dialect = Bundles[q.connection]
  /\ Cardinality(AliasesOf(d)) = Len(d.sub_queries)
  /\ \A i \in DOMAIN d.merge_steps :
       LET s == d.merge_steps[i]
       IN s.output \notin KnownBefore(d, i) /\ (s.kind = "join" => s.on # <<>>)
PlanAccepted(d) ==
  /\ \A i \in DOMAIN d.sub_queries :
       LET q == d.sub_queries[i]
       IN q.connection \in DOMAIN Bundles /\ q.dialect = Bundles[q.connection]
  /\ Cardinality(AliasesOf(d)) = Len(d.sub_queries)
  /\ \A i \in DOMAIN d.merge_steps :
       LET s == d.merge_steps[i]
       IN /\ {s.left, s.right} \subseteq KnownBefore(d, i)
          /\ s.output \notin KnownBefore(d, i)
          /\ s.kind = "join" => s.on # <<>>

Pending == [pending |-> TRUE]
Failed == [error |-> TRUE]
NoResult == [none |-> TRUE]

MergeInit ==
  /\ plan \in Drafts
  /\ outcomes = [i \in DOMAIN plan.sub_queries |-> Pending]
  /\ stage = "drafted"
  /\ result = NoResult

CrossValidate ==
  /\ stage = "drafted"
  /\ stage' = IF PlanAccepted(plan) THEN "running" ELSE "rejected"
  /\ UNCHANGED <<plan, outcomes, result>>

\* _run_one: validated, executed and closed beside the others; gather waits for all,
\* so a failure stops none of them.
RunOne(i) ==
  /\ stage = "running" /\ outcomes[i] = Pending
  /\ \E o \in SubResults \cup {Failed} : outcomes' = [outcomes EXCEPT ![i] = o]
  /\ UNCHANGED <<plan, stage, result>>

\* The results by alias; the last sub-query of an alias would take its place.
SubResultsOf(p, os) ==
  [a \in AliasesOf(p) |-> os[Max({i \in DOMAIN p.sub_queries : p.sub_queries[i].alias = a})]]

Gather ==
  /\ stage = "running" /\ \A i \in DOMAIN outcomes : outcomes[i] # Pending
  /\ IF \E i \in DOMAIN outcomes : outcomes[i] = Failed
     THEN stage' = "failed" /\ UNCHANGED result
     ELSE LET merged == ExecuteMergePipeline(SubResultsOf(plan, outcomes), plan.merge_steps)
          IN IF merged = MergeError THEN stage' = "failed" /\ UNCHANGED result
             ELSE stage' = "done" /\ result' = ApplyRowCap(merged)
  /\ UNCHANGED <<plan, outcomes>>

MergeNext == CrossValidate \/ (\E i \in DOMAIN outcomes : RunOne(i)) \/ Gather
MergeSpec == MergeInit /\ [][MergeNext]_mergeVars

-----------------------------------------------------------------------------
(* What the steps mean, as relations: a bag of rows, each from column to cell.  Null  *)
(* equals itself, as None does.                                                        *)

\* merge_steps as their descriptions have them (schemas/llm_io.py:118): the inner
\* equijoin, the union of sets, the stack of both.
RowOf(columns, row) == [c \in ToSet(columns) |-> row[Column(columns, c)]]
Rows(rs) == [i \in DOMAIN rs.rows |-> RowOf(rs.columns, rs.rows[i])]
BagOf(fs) == [f \in ToSet(fs) |-> Cardinality({i \in DOMAIN fs : fs[i] = f})]
Relation(a, rs) ==
  [columns |-> ToSet(rs.columns), from |-> {a}, bag |-> BagOf(Rows(rs))]

\* A row beside another, which gives the cells of the columns the first has not.
Beside(f, g) == [c \in DOMAIN f \cup DOMAIN g |-> IF c \in DOMAIN f THEN f[c] ELSE g[c]]
JoinOf(l, r, on) ==
  LET pairs == {p \in (DOMAIN l) \X (DOMAIN r) : \A c \in on : p[1][c] = p[2][c]}
  IN [h \in {Beside(p[1], p[2]) : p \in pairs} |->
        LET p == CHOOSE q \in pairs : Beside(q[1], q[2]) = h IN l[p[1]] * r[p[2]]]
UnionOf(l, r) == SetToBag(DOMAIN l \cup DOMAIN r)
\* The rows of a bag, with Null in the columns they lack.
Widened(b, columns) ==
  LET Wide(f) == Beside(f, [c \in columns |-> Null])
  IN [h \in {Wide(f) : f \in DOMAIN b} |-> b[CHOOSE f \in DOMAIN b : Wide(f) = h]]
StackOf(l, r, columns) == Widened(l, columns) (+) Widened(r, columns)

MeaningOf(step, l, r) ==
  LET columns == l.columns \cup r.columns
  IN [columns |-> columns, from |-> l.from \cup r.from,
      bag |-> CASE step.kind = "join"   -> JoinOf(l.bag, r.bag, ToSet(step.on))
                [] step.kind = "union"  -> UnionOf(l.bag, r.bag)
                [] step.kind = "concat" -> StackOf(l.bag, r.bag, columns)]

\* Why a step has no meaning.
Senseless(step, l, r) ==
  LET Compared(b, columns) == UNION {{f[c] : c \in columns} : f \in DOMAIN b}
  IN CASE step.kind = "join"   -> \/ ~(ToSet(step.on) \subseteq l.columns \cap r.columns)
                                  \/ Compared(l.bag, ToSet(step.on)) \cap Nested # {}
                                  \/ Compared(r.bag, ToSet(step.on)) \cap Nested # {}
       [] step.kind = "union"  -> \/ l.columns # r.columns
                                  \/ Compared(l.bag, l.columns) \cap Nested # {}
                                  \/ Compared(r.bag, r.columns) \cap Nested # {}
       [] step.kind = "concat" -> FALSE
\* A join whose sides share a column that is no key: the one name stands for two.
Ambiguous(step, l, r) == step.kind = "join" /\ (l.columns \cap r.columns) \ ToSet(step.on) # {}

Alike(columns) == \E i, j \in DOMAIN columns : i # j /\ columns[i] = columns[j]

\* One step, up to the first that has no meaning.
Mean(s, step) ==
  LET l == s.bound[step.left]
      r == s.bound[step.right]
  IN IF s.senseless \/ Senseless(step, l, r)
     THEN [bound |-> s.bound, senseless |-> TRUE, ambiguous |-> s.ambiguous]
     ELSE [bound |-> Assigned(s.bound, step.output, MeaningOf(step, l, r)), senseless |-> FALSE,
           ambiguous |-> s.ambiguous \/ Ambiguous(step, l, r)]
\* The relations bound after the last step.
Meanings(p, os) ==
  LET results == SubResultsOf(p, os)
      meant[i \in 0 .. Len(p.merge_steps)] ==
        IF i = 0 THEN [bound |-> [a \in AliasesOf(p) |-> Relation(a, results[a])],
                       senseless |-> FALSE,
                       ambiguous |-> \E a \in AliasesOf(p) : Alike(results[a].columns)]
        ELSE Mean(meant[i - 1], p.merge_steps[i])
  IN meant[Len(p.merge_steps)]

\* Every name a step uses is a sub-query's or an earlier step's, and stands for one.
NamesBound(p) ==
  \A i \in DOMAIN p.merge_steps : LET s == p.merge_steps[i] IN
    /\ \A a \in {s.left, s.right} \ AliasesOf(p) : \E j \in 1 .. i - 1 : p.merge_steps[j].output = a
    /\ \A j \in DOMAIN p.merge_steps : j # i => p.merge_steps[j].output # s.output

\* The one table a plan without steps returns is that of its only sub-query.
Answerless(p) == p.merge_steps = <<>> /\ Len(p.sub_queries) > 1
AnswerOf(p) ==
  IF p.merge_steps = <<>> THEN p.sub_queries[1].alias ELSE Last(p.merge_steps).output

-----------------------------------------------------------------------------
MergeTypeOK ==
  /\ DOMAIN outcomes = DOMAIN plan.sub_queries
  /\ stage \in {"drafted", "rejected", "running", "failed", "done"}
  /\ (result # NoResult) = (stage = "done")
  /\ stage = "done" => \A i \in DOMAIN result.rows :
                         Len(result.rows[i]) = Len(result.columns)

\* A finished table is what its steps mean of the results of its sub-queries, whatever
\* the order of rows and columns they came in: each row as often as it should be, up to
\* MaxRows; and it says truncated exactly when rows are missing, here or in a result it
\* was made of (federation_merge.py, _apply_row_cap).  Tables with two columns of one name,
\* out of a query or of a join, are left to CellsKept.
MergedAsDescribed ==
  stage = "done" =>
    LET meant == Meanings(plan, outcomes)
        m == meant.bound[AnswerOf(plan)]
        kept == Relation("result", result).bag
        all == SumFunction(m.bag)
        cut == MaxRows > 0 /\ all > MaxRows
    IN meant.ambiguous
       \/ /\ ToSet(result.columns) = m.columns
          /\ kept \sqsubseteq m.bag
          /\ SumFunction(kept) = IF cut THEN MaxRows ELSE all
          /\ result.truncated <=> cut \/ \E a \in m.from : SubResultsOf(plan, outcomes)[a].truncated

\* What a finished merge returns is a table, and the right one.
MergeSound == MergeTypeOK /\ MergedAsDescribed

\* A plan the planner's checks let pass is merged without a missing name: it fails only
\* when a sub-query does, when its results have not the columns a step wants or cells
\* a step cannot compare, when one name stands for two columns, and when it leaves
\* several tables unmerged
\* (federated_planner.py:257-273 against federation_merge.py:170-187).
AcceptedPlansMerge ==
  stage = "failed" =>
    \/ \E i \in DOMAIN outcomes : outcomes[i] = Failed
    \/ Answerless(plan)
    \/ /\ NamesBound(plan)
       /\ Meanings(plan, outcomes).senseless \/ Meanings(plan, outcomes).ambiguous

-----------------------------------------------------------------------------
(* What the repository says and the code does not do *)

\* schemas/llm_io.py:123: concat is a vertical stack, so each row of its left side is
\* the beginning of one of its rows.  A join leaves two columns of one name where its
\* sides share one that is no key; the stack finds both by the position of the first
\* and writes the first one's cell in both.
CellsKept ==
  stage = "done" /\ plan.merge_steps # <<>> /\ Last(plan.merge_steps).kind = "concat" =>
    LET b == Bindings(SubResultsOf(plan, outcomes), plan.merge_steps)[Len(plan.merge_steps)].bound
        step == Last(plan.merge_steps)
    IN \A row \in ToSet(b[step.left].rows) :
         \E r \in ToSet(b[step.output].rows) : IsPrefix(row, r)
=============================================================================
