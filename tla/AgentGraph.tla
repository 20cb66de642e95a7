----------------------------- MODULE AgentGraph -----------------------------
(***************************************************************************)
(* One turn of the LangGraph agent (backend/app/agents/graph.py): thirteen *)
(* nodes, the conditional edges between them, and the two retry budgets.   *)
(* `state' is GraphState, the dictionary every node reads and returns a    *)
(* delta of; `frontier' is the set of nodes scheduled in the current       *)
(* superstep.  Two nodes run in the same superstep only after a query has  *)
(* succeeded (chart_designer and answer_writer); they write disjoint keys, *)
(* so their order inside the superstep is the only thing left open.        *)
(*                                                                         *)
(* A query text is abstracted to the number of the planner attempt that    *)
(* produced it: `plan', `validated' and `result' hold such numbers, 0      *)
(* standing for None.  Connections are numbered in order of created_at.    *)
(***************************************************************************)
EXTENDS Integers, FiniteSets

CONSTANTS MaxPlannerAttempts,   \* MAX_PLANNER_ATTEMPTS of graph.py
          MaxExecutorAttempts,  \* MAX_EXECUTOR_ATTEMPTS of graph.py
          NConns,               \* connections of the workspace
          Deletable             \* those another request may delete meanwhile

ASSUME BudgetAssumption ==
  /\ MaxPlannerAttempts \in Nat \ {0}
  /\ MaxExecutorAttempts \in Nat \ {0}
  /\ NConns \in Nat \ {0}
  /\ Deletable \subseteq 1 .. NConns

VARIABLES request,   \* what the caller passed in, and the workspace it sees
          state,     \* GraphState
          frontier,  \* nodes of the current superstep
          outcome    \* "running", "finished" or "raised"

vars == <<request, state, frontier, outcome>>

Conns == 1 .. NConns
Intents == {"chitchat", "metadata", "data_query", "dashboard",
            "federated_query", "clarify"}
Nodes == {"coordinator", "schema_loader", "rag_retriever", "query_planner",
          "query_validator", "query_executor", "multi_schema_loader",
          "federated_planner", "federated_executor", "chart_designer",
          "answer_writer", "error_responder", "finalizer"}

\* Nodes that await the LLM or the metadata database outside any handler of
\* their own, so that an exception leaves the node and ends the turn.
Fallible == {"coordinator", "schema_loader", "rag_retriever", "query_planner",
             "query_executor", "multi_schema_loader", "federated_planner",
             "federated_executor", "answer_writer"}

\* chat.py passes a resolved workspace and connection; report_task.py and
\* mcp/server.py ("batch") pass only the active_* pair; "direct" callers, such
\* as tests/unit/test_graph_smoke.py, pass only a message.
Request == [caller : {"chat", "batch", "direct"}, empty : BOOLEAN,
            conn : 0 .. NConns, wide : BOOLEAN, scope : SUBSET Conns,
            ready : SUBSET Conns, profiled : SUBSET Conns]

Feedback == {"none", "schema_mismatch", "no_plan", "rejected",
             "cross_validation", "no_bundles"}

GraphState ==
  [intent : Intents \cup {"unset"}, workspace : BOOLEAN, conn : 0 .. NConns,
   bundle : 0 .. NConns, bundles : SUBSET Conns, federated_plan : SUBSET Conns,
   plan : Nat, validated : Nat, ok : BOOLEAN, result : Nat,
   chart : BOOLEAN, answer : {"none", "chitchat", "schema", "no_rows", "data"},
   planner_attempts : Nat, executor_attempts : Nat,
   error_message : {"none", "empty", "no_workspace", "no_ready", "no_bundle"},
   last_validation_error : Feedback,
   last_executor_error : {"none", "no_valid_plan", "failed"},
   ui_spec : {"none", "retry_report", "error", "text", "chart", "dashboard",
              "no_output"}]

-----------------------------------------------------------------------------
(* Callers *)

\* chat.py marks a turn whose scope is wider than `database' as federated
\* before the graph starts.
Federate(r) == r.wide

\* A wide scope resolves to some of the ready connections (none is an error that
\* ends the turn before the graph); `database' to the active connection, ready
\* or not.  Only chat.py passes scope_connection_ids.
ResolvedScope(r) ==
  IF r.wide
  THEN r.caller = "chat" /\ r.scope # {} /\ r.scope \subseteq r.ready
  ELSE r.scope = IF r.caller = "chat" /\ r.conn # 0 THEN {r.conn} ELSE {}

InitialState(r) ==
  [intent |-> IF Federate(r) THEN "federated_query" ELSE "unset",
   workspace |-> r.caller = "chat",
   conn |-> IF r.caller = "chat" THEN r.conn ELSE 0,
   bundle |-> 0, bundles |-> {}, federated_plan |-> {},
   plan |-> 0, validated |-> 0, ok |-> FALSE, result |-> 0,
   chart |-> FALSE, answer |-> "none",
   planner_attempts |-> 0, executor_attempts |-> 0,
   error_message |-> "none", last_validation_error |-> "none",
   last_executor_error |-> "none", ui_spec |-> "none"]

\* A connection becomes ready only after its bundle is stored
\* (profile_task.py), so ready connections are profiled.  ChatRequest and
\* SavedQuestion refuse an empty message.
Init ==
  /\ request \in Request
  /\ request.ready \subseteq request.profiled
  /\ ResolvedScope(request)
  /\ request.caller = "direct" => request.conn = 0
  /\ request.empty => request.caller = "direct"
  /\ state = InitialState(request)
  /\ frontier = {"coordinator"}
  /\ outcome = "running"

-----------------------------------------------------------------------------
(* Routing: the conditional edges, as functions of the merged state. *)

RouteAfterCoordinator(s) ==
  CASE s.intent = "chitchat" -> {"answer_writer"}
    [] s.intent \in {"metadata", "data_query", "dashboard"} -> {"schema_loader"}
    [] s.intent = "federated_query" -> {"multi_schema_loader"}
    [] OTHER -> {"finalizer"}

RouteAfterSchema(s) ==
  CASE s.error_message # "none" -> {"error_responder"}
    [] s.error_message = "none" /\ s.intent = "metadata" -> {"answer_writer"}
    [] OTHER -> {"rag_retriever"}

RouteAfterMultiSchema(s) ==
  IF s.error_message # "none" THEN {"error_responder"} ELSE {"federated_planner"}

RouteAfterValidation(s) ==
  CASE s.ok -> {"query_executor"}
    [] ~s.ok /\ s.planner_attempts >= MaxPlannerAttempts -> {"error_responder"}
    [] OTHER -> {"query_planner"}

RouteAfterFederatedPlanner(s) ==
  CASE s.federated_plan # {} -> {"federated_executor"}
    [] s.federated_plan = {} /\ s.planner_attempts >= MaxPlannerAttempts
         -> {"error_responder"}
    [] OTHER -> {"federated_planner"}

\* Mutant: a failed query is run again as it is.
RouteAfterExecutionRerun(s, planner) ==
  CASE s.result # 0 -> {"chart_designer", "answer_writer"}
    [] s.result = 0 /\ s.executor_attempts >= MaxExecutorAttempts
         -> {"error_responder"}
    [] OTHER -> {IF planner = "query_planner" THEN "query_executor"
                 ELSE "federated_executor"}

\* Shared shape of _route_after_executor and _route_after_federated_executor;
\* they differ in the planner a failure goes back to.
RouteAfterExecution(s, planner) ==
  CASE s.result # 0 -> {"chart_designer", "answer_writer"}
    [] s.result = 0 /\ s.executor_attempts >= MaxExecutorAttempts
         -> {"error_responder"}
    [] OTHER -> {planner}

-----------------------------------------------------------------------------
(* Nodes *)

\* The runner applies a node's delta and schedules the successors.
Run(node, new, successors) ==
  /\ node \in frontier
  /\ state' = new
  /\ frontier' = successors
  /\ UNCHANGED <<request, outcome>>

\* Mutant: finalizer is scheduled as soon as one branch is done.
JoinFirst(node) == {"finalizer"}

\* chart_designer, answer_writer and error_responder all lead to finalizer,
\* which starts once the whole superstep is done.
Join(node) == IF frontier = {node} THEN {"finalizer"} ELSE frontier \ {node}

Coordinator ==
  IF request.empty
  THEN LET new == [state EXCEPT !.intent = "clarify", !.error_message = "empty"]
       IN  Run("coordinator", new, RouteAfterCoordinator(new))
  ELSE \E decided \in Intents :
         LET new == [state EXCEPT !.intent = decided,
                       !.workspace = state.workspace \/ request.caller = "batch"]
         IN  Run("coordinator", new, RouteAfterCoordinator(new))

FirstReady(ready) == CHOOSE c \in ready : \A d \in ready : c <= d

\* Mutant: the dropdown's connection is ignored.
PickConnectionFirstReady(ready) == IF ready = {} THEN 0 ELSE FirstReady(ready)

PickConnection(ready) ==
  IF state.conn # 0 THEN state.conn
  ELSE IF ready = {} THEN 0 ELSE FirstReady(ready)

Scanned(ready) ==
  IF request.scope = {} THEN ready ELSE ready \cap request.scope

\* schema_loader's delta, given the rows its queries return.
LoadSchema(ready, profiled) ==
  LET picked  == PickConnection(ready)
      located == state.conn # 0 \/ state.workspace
  IN  CASE ~located ->
             [state EXCEPT !.intent = "clarify",
                           !.error_message = "no_workspace"]
        [] located /\ picked = 0 ->
             [state EXCEPT !.error_message = "no_ready"]
        [] located /\ picked # 0 /\ picked \notin profiled ->
             [state EXCEPT !.error_message = "no_bundle"]
        [] OTHER ->
             [state EXCEPT !.bundle = picked, !.conn = picked]

\* Another request may delete connections while a loader reads them.
SchemaLoader ==
  \E gone \in SUBSET Deletable :
    LET new == LoadSchema(request.ready \ gone, request.profiled \ gone)
    IN  Run("schema_loader", new, RouteAfterSchema(new))

\* multi_schema_loader's delta: `scanned' are the ready connections its first
\* query returns, `loaded' those whose bundle the later queries still find.
LoadSchemas(scanned, loaded) ==
  CASE ~state.workspace ->
         [state EXCEPT !.intent = "clarify", !.error_message = "no_workspace"]
    [] state.workspace /\ scanned = {} ->
         [state EXCEPT !.error_message = "no_ready"]
    [] state.workspace /\ scanned # {} /\ loaded = {} ->
         [state EXCEPT !.error_message = "no_bundle"]
    [] OTHER ->
         [state EXCEPT !.bundle = FirstReady(loaded), !.bundles = loaded]

MultiSchemaLoader ==
  \E gone \in SUBSET Deletable, goneLater \in SUBSET Deletable :
    LET scanned == Scanned(request.ready \ gone)
        new == LoadSchemas(scanned, scanned \ goneLater)
    IN  Run("multi_schema_loader", new, RouteAfterMultiSchema(new))

\* Retrieval only adds context to the prompts, whatever its outcome.
RagRetriever == Run("rag_retriever", state, {"query_planner"})

\* Mutants: the verdict on the previous plan survives a failed draft; a failed
\* draft is not counted.
NoDraftKeepsVerdict(attempts) ==
  [state EXCEPT !.plan = 0, !.planner_attempts = attempts,
                !.last_validation_error = "schema_mismatch",
                !.last_executor_error = "none"]

NoDraft(attempts) ==
  [state EXCEPT !.plan = 0, !.validated = 0, !.ok = FALSE,
                !.planner_attempts = attempts,
                !.last_validation_error = "schema_mismatch",
                !.last_executor_error = "none"]

\* The LLM drafts a query, or returns JSON that fails the SqlPlan schema even
\* after LLMClient's repair turn.
QueryPlanner ==
  LET attempts == state.planner_attempts + 1
  IN  \/ Run("query_planner",
             [state EXCEPT !.plan = attempts, !.planner_attempts = attempts,
                           !.last_validation_error = "none",
                           !.last_executor_error = "none"],
             {"query_validator"})
      \/ Run("query_planner", NoDraft(attempts), {"query_validator"})

\* Read-only check and row budget; either may reject.
QueryValidator ==
  IF state.plan = 0
  THEN LET new == [state EXCEPT !.last_validation_error = "no_plan"]
       IN  Run("query_validator", new, RouteAfterValidation(new))
  ELSE \E accepted \in BOOLEAN :
         LET new == [state EXCEPT !.validated = state.plan, !.ok = accepted,
                       !.last_validation_error =
                          IF accepted THEN @ ELSE "rejected"]
         IN  Run("query_validator", new, RouteAfterValidation(new))

\* A cache hit and a successful execution return the same delta.  A deleted
\* connection and an engine exception count as an attempt; the guard does not.
QueryExecutor ==
  IF state.plan = 0 \/ state.validated = 0 \/ ~state.ok \/ state.conn = 0
  THEN LET new == [state EXCEPT !.last_executor_error = "no_valid_plan"]
       IN  Run("query_executor", new, RouteAfterExecution(new, "query_planner"))
  ELSE \E succeeds \in BOOLEAN :
         LET new == [state EXCEPT !.executor_attempts = @ + 1,
                       !.result = IF succeeds THEN state.plan ELSE @,
                       !.last_executor_error =
                          IF succeeds THEN "none" ELSE "failed"]
         IN  Run("query_executor", new,
                 RouteAfterExecution(new, "query_planner"))

\* Mutant: sub-queries may name any connection.
CrossValidatedShapeOnly(targets, wellFormed) == wellFormed

CrossValidated(targets, wellFormed) ==
  wellFormed /\ targets \subseteq state.bundles

\* A federated plan is abstracted to the connections its sub-queries name; the
\* LLM may also invent an id (0) or an ill-formed merge pipeline.
FederatedPlanner ==
  LET attempts == state.planner_attempts + 1
      Rejected(why) == [state EXCEPT !.planner_attempts = attempts,
                          !.federated_plan = {},
                          !.last_validation_error = why]
      Route(new) == Run("federated_planner", new, RouteAfterFederatedPlanner(new))
  IN  IF state.bundles = {}
      THEN Route(Rejected("no_bundles"))
      ELSE \/ Route(Rejected("schema_mismatch"))
           \/ \E targets \in SUBSET (0 .. NConns), wellFormed \in BOOLEAN :
                /\ targets # {}
                /\ IF CrossValidated(targets, wellFormed)
                   THEN Route([state EXCEPT !.planner_attempts = attempts,
                                 !.federated_plan = targets,
                                 !.last_validation_error = "none",
                                 !.last_executor_error = "none"])
                   ELSE Route(Rejected("cross_validation"))

\* One failing leg, a connection deleted since, or a merge error fails the
\* whole plan; unlike query_executor a missing plan costs an attempt too.
FederatedExecutor ==
  \E succeeds \in BOOLEAN :
    LET done == succeeds /\ state.federated_plan # {}
        new  == [state EXCEPT !.executor_attempts = @ + 1,
                   !.result = IF done THEN state.planner_attempts ELSE @,
                   !.last_executor_error = IF done THEN "none" ELSE "failed"]
    IN  Run("federated_executor", new,
            RouteAfterExecution(new, "federated_planner"))

ChartDesigner ==
  Run("chart_designer", [state EXCEPT !.chart = state.result # 0],
      Join("chart_designer"))

AnswerWriter ==
  LET grounds == CASE state.result # 0 -> "data"
                   [] state.result = 0 /\ state.intent = "metadata" -> "schema"
                   [] state.result = 0 /\ state.intent = "chitchat" -> "chitchat"
                   [] OTHER -> "no_rows"
  IN  Run("answer_writer", [state EXCEPT !.answer = grounds],
          Join("answer_writer"))

ErrorResponder ==
  Run("error_responder", [state EXCEPT !.ui_spec = "retry_report"],
      Join("error_responder"))

Finalizer ==
  LET answered == state.answer # "none"
      spec == CASE state.chart /\ answered   -> "dashboard"
                [] state.chart /\ ~answered  -> "chart"
                [] ~state.chart /\ answered  -> "text"
                [] OTHER -> IF state.error_message # "none" THEN "error"
                            ELSE "no_output"
  IN  /\ "finalizer" \in frontier
      /\ state' = [state EXCEPT !.ui_spec = spec]
      /\ frontier' = {}
      /\ outcome' = "finished"
      /\ UNCHANGED request

\* An exception out of any node ends the turn; the caller sees it raised.
NodeRaises ==
  /\ frontier \cap Fallible # {}
  /\ frontier' = {}
  /\ outcome' = "raised"
  /\ UNCHANGED <<request, state>>

Next ==
  \/ Coordinator
  \/ SchemaLoader
  \/ MultiSchemaLoader
  \/ RagRetriever
  \/ QueryPlanner
  \/ QueryValidator
  \/ QueryExecutor
  \/ FederatedPlanner
  \/ FederatedExecutor
  \/ ChartDesigner
  \/ AnswerWriter
  \/ ErrorResponder
  \/ Finalizer
  \/ NodeRaises

Spec == Init /\ [][Next]_vars

\* The runner keeps stepping while a superstep is scheduled, and every await
\* of a node is bounded by a client timeout.
FairSpec == Spec /\ WF_vars(Next)

-----------------------------------------------------------------------------
(* Properties *)

\* The type invariant: every key of GraphState keeps to the values its readers
\* handle, and a federated plan names only connections that exist.
TypeOK ==
  /\ request \in Request
  /\ state \in GraphState
  /\ frontier \subseteq Nodes
  /\ outcome \in {"running", "finished", "raised"}

\* The two budgets of graph.py interact: a validation retry and an execution
\* retry draw on the same planner counter, and only the former checks it.  The
\* planner still runs at most MAX_PLANNER + MAX_EXECUTOR - 1 times, and the
\* executor at most MAX_EXECUTOR times.
RetryBudget ==
  /\ state.planner_attempts <= MaxPlannerAttempts + MaxExecutorAttempts - 1
  /\ state.executor_attempts <= MaxExecutorAttempts

\* query_executor only ever sees the plan the validator has just accepted,
\* drafted against the bundle of the connection it will run on, so its "invoked
\* without a valid plan" return, which costs no attempt, is unreachable.
ExecutesValidatedPlan ==
  "query_executor" \in frontier =>
    /\ state.plan # 0
    /\ state.validated = state.plan
    /\ state.ok
    /\ state.conn # 0
    /\ state.bundle = state.conn

\* A federated plan never reaches a connection outside the scope chat.py
\* resolved, even when connections disappear while the plan is being made.
FederationStaysInScope ==
  request.scope # {} => state.federated_plan \subseteq request.scope

\* On the single-connection path of a chat turn the query runs on the
\* connection of the dropdown, never on another ready one.
ChatConnectionKept ==
  /\ request.caller = "chat"
  /\ request.conn # 0
  /\ "query_executor" \in frontier
  => state.conn = request.conn

\* Both together: a query runs only where the request pointed to, by its scope or
\* by its dropdown.
RightConnection == FederationStaysInScope /\ ChatConnectionKept

\* A turn whose query succeeded ends with both the chart and the answer in the
\* page, built from the result of the last plan: neither branch of the fan-out
\* is lost in finalizer.
ResultFullyPresented ==
  outcome = "finished" /\ state.result # 0 =>
    /\ state.ui_spec = "dashboard"
    /\ state.answer = "data"
    /\ state.result = state.planner_attempts

\* answer_writer never says "The query returned no rows" when no query has
\* succeeded: its `rs is None' fallback is unreachable.
NeverClaimsEmptyResult == state.answer # "no_rows"

\* Both together: the page shows a result exactly as the last query gave it.
ResultShown == ResultFullyPresented /\ NeverClaimsEmptyResult

\* The graph implements the abstract turn, with its planner and executor
\* counters as the drafts and the runs.  The fairness of the abstract turn makes
\* every turn end: the retry loops between planner, validator and executor cannot
\* go on forever, on the single-connection and the federated path alike.
Turn == INSTANCE AgentTurn WITH
  MaxDrafts <- MaxPlannerAttempts + MaxExecutorAttempts - 1,
  MaxRuns   <- MaxExecutorAttempts,
  phase     <- IF outcome # "running" THEN "closed"
               ELSE IF state.result # 0 THEN "answered" ELSE "open",
  drafts    <- state.planner_attempts,
  runs      <- state.executor_attempts
ImplementsTurn == Turn!FairSpec

-----------------------------------------------------------------------------
(* What the repository says and the code does not do *)

\* query_planner.py:466-468: a draft that fails the SqlPlan schema is fed "back
\* into the retry loop with a concrete message so the next attempt can
\* course-correct".  query_validator always runs in between and overwrites it.
RetryFeedbackConcrete ==
  "query_planner" \in frontier /\ state.planner_attempts > 0 /\ state.plan = 0
    => state.last_validation_error = "schema_mismatch"

\* chat.py:460-462: a scope wider than `database' overrides the
\* coordinator-decided intent, "so the graph routes through
\* multi_schema_loader".  The coordinator runs after the override.
WideScopeFederates ==
  Federate(request) => "query_executor" \notin frontier

\* models.py:1030-1034: a saved question is pinned to the connection it "should
\* run against".  report_task.py passes it as active_connection_id, which no
\* node reads.
PinnedConnectionKept ==
  /\ request.caller = "batch"
  /\ request.conn # 0
  /\ "query_executor" \in frontier
  => state.conn = request.conn
=============================================================================
