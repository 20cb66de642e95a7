-------------------------- MODULE AgentGraph_proofs --------------------------
(***************************************************************************)
(* Proofs about AgentGraph for every budget and every number of            *)
(* connections.  The inductive invariant IInv says, node by node, what the *)
(* counters and the plan slots hold when the node is scheduled; the safety *)
(* properties and the refinement of AgentTurn follow from it.              *)
(*                                                                         *)
(* And proofs about QueryCache, which its query_executor asks first, for   *)
(* every number of connections, queries, turns, requests and outages.      *)
(* InvalidationComplete speaks of a request that has finished; MarkInv     *)
(* says what makes it so while the scan runs: an entry that was there when *)
(* the scan began is still on its list.                                    *)
(*                                                                         *)
(* And proofs about FederationMerge, which its federated nodes run, for    *)
(* every plan, every result a sub-query may return and every row cap: the  *)
(* join, the union and the stack of two tables are those of the bags of    *)
(* their rows, and by induction over the steps of a plan what the code has *)
(* bound stands for what the steps mean.                                   *)
(***************************************************************************)
EXTENDS AgentGraph, QueryCache, FederationMerge, SequenceLemmas, FiniteSetTheorems,
        WellFoundedInduction, TLAPS

At(nodes) == frontier \cap nodes # {}

Entry     == {"coordinator", "schema_loader", "multi_schema_loader",
              "rag_retriever"}
Planning  == {"query_planner", "federated_planner"}
Drafted   == {"query_validator", "query_executor", "federated_executor"}
OneDBPath == {"rag_retriever", "query_planner", "query_validator",
              "query_executor"}

\* Where the budget stands.  A planner may be one draft short of the slack the
\* executor has used up; what follows it may have used that draft.
BudgetInv ==
  /\ RetryBudget
  /\ state.executor_attempts <= state.planner_attempts
  /\ At(Entry) => state.planner_attempts = 0 /\ state.executor_attempts = 0
  /\ At(Planning) =>
       /\ state.planner_attempts
            <= MaxPlannerAttempts + state.executor_attempts - 1
       /\ state.executor_attempts < MaxExecutorAttempts
  /\ At(Drafted) =>
       /\ state.planner_attempts <= MaxPlannerAttempts + state.executor_attempts
       /\ state.executor_attempts < MaxExecutorAttempts
       /\ state.executor_attempts < state.planner_attempts

\* What the plan slots hold.
PlanInv ==
  /\ At(OneDBPath) => state.conn # 0 /\ state.bundle = state.conn
  /\ "query_validator" \in frontier /\ state.plan = 0 => ~state.ok
  /\ ExecutesValidatedPlan
  /\ "federated_executor" \in frontier => state.federated_plan # {}

\* The turn is open exactly while something is scheduled, and nothing is
\* planned or run once there is a result.
PhaseInv ==
  /\ frontier # {} => outcome = "running"
  /\ At(Entry \cup Planning \cup Drafted) => state.result = 0

ScopeInv ==
  request.scope # {} =>
    /\ state.bundles \subseteq request.scope
    /\ state.federated_plan \subseteq request.scope

IInv == TypeOK /\ BudgetInv /\ PlanInv /\ PhaseInv /\ ScopeInv

-----------------------------------------------------------------------------
(* The inductive invariant *)

\* Every reachable state starts from IInv: nothing is counted or loaded yet.
LEMMA InitIInv == Init => IInv
<1> SUFFICES ASSUME Init PROVE IInv
  OBVIOUS
<1>1. state \in GraphState
  BY BudgetAssumption
     DEF Init, InitialState, Federate, GraphState, Request, Conns, Intents,
         Feedback
<1>2. TypeOK
  BY <1>1 DEF Init, TypeOK, Nodes
<1>3. BudgetInv /\ PlanInv /\ PhaseInv /\ ScopeInv
  BY BudgetAssumption
     DEF Init, InitialState, BudgetInv, RetryBudget, PlanInv, PhaseInv,
         ScopeInv, ExecutesValidatedPlan, At, Entry, Planning, Drafted,
         OneDBPath
<1>4. QED
  BY <1>2, <1>3 DEF IInv

-----------------------------------------------------------------------------
(* What a node leaves alone, as the lemmas below use it *)

KeepCounts ==
  /\ state'.planner_attempts = state.planner_attempts
  /\ state'.executor_attempts = state.executor_attempts
  /\ state'.result = state.result
KeepPlan ==
  /\ state'.plan = state.plan
  /\ state'.validated = state.validated
  /\ state'.ok = state.ok
KeepConn  == state'.conn = state.conn /\ state'.bundle = state.bundle
KeepScope ==
  /\ state'.bundles = state.bundles
  /\ state'.federated_plan = state.federated_plan

\* The first ready connection is one of the ready ones.
LEMMA FirstReadyIn == ASSUME NEW S \in SUBSET Conns, S # {}
                      PROVE  FirstReady(S) \in S
<1>1. IsWellFoundedOn(OpToRel(<, Nat), Nat)
  BY NatLessThanWellFounded
<1>2. S \subseteq Nat
  BY BudgetAssumption DEF Conns
<1>3. PICK c \in S : \A d \in S : ~(<<d, c>> \in OpToRel(<, Nat))
  BY <1>1, <1>2, WFMin
<1>4. ASSUME NEW d \in S PROVE c <= d
  <2>1. c \in Nat /\ d \in Nat
    BY <1>2
  <2>2. <<d, c>> \in Nat \X Nat /\ <<d, c>>[1] = d /\ <<d, c>>[2] = c
    BY <2>1
  <2>3. ~(<<d, c>>[1] < <<d, c>>[2])
    BY <1>3, <2>2 DEF OpToRel
  <2>4. QED
    BY <2>1, <2>2, <2>3
<1>5. QED
  BY <1>4 DEF FirstReady

\* coordinator routes to an entry node, or out of the turn.
LEMMA CoordinatorRoutes ==
  ASSUME NEW s
  PROVE  RouteAfterCoordinator(s) \in
           {{"answer_writer"}, {"schema_loader"}, {"multi_schema_loader"},
            {"finalizer"}}
BY DEF RouteAfterCoordinator

\* A failed execution goes back to its planner only below the budget.
LEMMA ExecutionRoutes ==
  ASSUME NEW s, NEW planner
  PROVE  \/ s.result # 0
            /\ RouteAfterExecution(s, planner) = {"chart_designer", "answer_writer"}
         \/ RouteAfterExecution(s, planner) = {"error_responder"}
         \/ /\ s.result = 0
            /\ ~(s.executor_attempts >= MaxExecutorAttempts)
            /\ RouteAfterExecution(s, planner) = {planner}
BY DEF RouteAfterExecution

\* GraphState is closed under the updates the nodes make to it.
LEMMA LoadedTyped ==
  ASSUME NEW s \in GraphState, NEW b \in 0 .. NConns, NEW bs \in SUBSET Conns
  PROVE  [s EXCEPT !.bundle = b, !.bundles = bs] \in GraphState
BY Zenon DEF GraphState

LEMMA DecidedTyped ==
  ASSUME NEW s \in GraphState, NEW intent \in Intents, NEW located \in BOOLEAN
  PROVE  [s EXCEPT !.intent = intent, !.workspace = located] \in GraphState
BY Zenon DEF GraphState

LEMMA ErrorTyped ==
  ASSUME NEW s \in GraphState, NEW intent \in Intents \cup {"unset"},
         NEW why \in {"no_workspace", "no_ready", "no_bundle"}
  PROVE  [s EXCEPT !.intent = intent, !.error_message = why] \in GraphState
BY Zenon DEF GraphState

LEMMA DraftTyped ==
  ASSUME NEW s \in GraphState, NEW n \in Nat
  PROVE  [s EXCEPT !.plan = n, !.planner_attempts = n,
                   !.last_validation_error = "none",
                   !.last_executor_error = "none"] \in GraphState
BY Zenon DEF GraphState, Feedback

LEMMA NoDraftTyped ==
  ASSUME state \in GraphState, NEW n \in Nat
  PROVE  NoDraft(n) \in GraphState
BY Zenon DEF NoDraft, GraphState, Feedback

LEMMA FederatedDraftTyped ==
  ASSUME NEW s \in GraphState, NEW n \in Nat, NEW targets \in SUBSET Conns,
         NEW v \in Feedback, NEW x \in {"none", "no_valid_plan", "failed"}
  PROVE  [s EXCEPT !.planner_attempts = n, !.federated_plan = targets,
                   !.last_validation_error = v,
                   !.last_executor_error = x] \in GraphState
BY Zenon DEF GraphState

LEMMA ExecutionTyped ==
  ASSUME NEW s \in GraphState, NEW e \in Nat, NEW r \in Nat,
         NEW x \in {"none", "failed"}
  PROVE  [s EXCEPT !.executor_attempts = e, !.result = r,
                   !.last_executor_error = x] \in GraphState
BY Zenon DEF GraphState

-----------------------------------------------------------------------------
(* One lemma per node: it preserves the inductive invariant. *)

\* coordinator hands over to an entry node with untouched counters.
LEMMA CoordinatorIInv == IInv /\ Coordinator => IInv'
<1> SUFFICES ASSUME IInv, Coordinator PROVE IInv'
  OBVIOUS
<1>1. state \in GraphState
  BY DEF IInv, TypeOK
<1>2. /\ "coordinator" \in frontier
      /\ UNCHANGED <<request, outcome>>
      /\ KeepCounts /\ KeepPlan /\ KeepConn /\ KeepScope
      /\ state' \in GraphState
      /\ frontier' \in {{"answer_writer"}, {"schema_loader"},
                        {"multi_schema_loader"}, {"finalizer"}}
  <2>1. CASE request.empty
    <3>1. /\ state' = [state EXCEPT !.intent = "clarify",
                                   !.error_message = "empty"]
          /\ frontier' = RouteAfterCoordinator(state')
          /\ "coordinator" \in frontier
          /\ UNCHANGED <<request, outcome>>
      BY <2>1 DEF Coordinator, Run
    <3>2. QED
      BY <3>1, <1>1, CoordinatorRoutes
         DEF KeepCounts, KeepPlan, KeepConn, KeepScope, GraphState, Intents
  <2>2. CASE ~request.empty
    <3>1. PICK decided \in Intents :
            /\ state' = [state EXCEPT !.intent = decided,
                  !.workspace = state.workspace \/ request.caller = "batch"]
            /\ frontier' = RouteAfterCoordinator(state')
            /\ "coordinator" \in frontier
            /\ UNCHANGED <<request, outcome>>
      BY <2>2 DEF Coordinator, Run
    <3>2. (state.workspace \/ request.caller = "batch") \in BOOLEAN
      OBVIOUS
    <3>3. state' \in GraphState
      BY <3>1, <3>2, <1>1, DecidedTyped
    <3>4. KeepCounts /\ KeepPlan /\ KeepConn /\ KeepScope
      BY <3>1, <1>1
         DEF KeepCounts, KeepPlan, KeepConn, KeepScope, GraphState
    <3>5. QED
      BY <3>1, <3>3, <3>4, CoordinatorRoutes
  <2>3. QED
    BY <2>1, <2>2
<1>3. TypeOK'
  BY <1>1, <1>2 DEF IInv, TypeOK, Nodes
<1>4. BudgetInv'
  BY <1>1, <1>2, BudgetAssumption
     DEF IInv, TypeOK, GraphState, BudgetInv, RetryBudget, KeepCounts, At,
         Entry, Planning, Drafted
<1>5. PlanInv' /\ PhaseInv' /\ ScopeInv'
  BY <1>1, <1>2
     DEF IInv, PlanInv, PhaseInv, ScopeInv, ExecutesValidatedPlan, KeepCounts,
         KeepPlan, KeepConn, KeepScope, At, Entry, Planning, Drafted, OneDBPath
<1>6. QED
  BY <1>3, <1>4, <1>5 DEF IInv

\* schema_loader leaves with a connection and its bundle, or an error.
LEMMA SchemaLoaderIInv == IInv /\ SchemaLoader => IInv'
<1> SUFFICES ASSUME IInv, SchemaLoader PROVE IInv'
  OBVIOUS
<1>1. state \in GraphState
  BY DEF IInv, TypeOK
<1>2. /\ "schema_loader" \in frontier
      /\ UNCHANGED <<request, outcome>>
      /\ KeepCounts /\ KeepPlan /\ KeepScope
      /\ state' \in GraphState
      /\ \/ frontier' \in {{"error_responder"}, {"answer_writer"}}
         \/ /\ frontier' = {"rag_retriever"}
            /\ state'.conn # 0
            /\ state'.bundle = state'.conn
  <2>1. PICK gone \in SUBSET Deletable :
          /\ state' = LoadSchema(request.ready \ gone, request.profiled \ gone)
          /\ frontier' = RouteAfterSchema(state')
          /\ "schema_loader" \in frontier
          /\ UNCHANGED <<request, outcome>>
    BY DEF SchemaLoader, Run
  <2> DEFINE ready == request.ready \ gone
             picked == PickConnection(ready)
  <2>2. ready \in SUBSET Conns
    BY DEF IInv, TypeOK, Request
  <2>3. picked \in 0 .. NConns /\ (state.conn # 0 => picked = state.conn)
    <3>1. CASE state.conn # 0 \/ ready = {}
      BY <1>1, <3>1, BudgetAssumption DEF PickConnection, GraphState
    <3>2. CASE state.conn = 0 /\ ready # {}
      BY <2>2, <3>2, FirstReadyIn, BudgetAssumption DEF PickConnection, Conns
    <3>3. QED
      BY <3>1, <3>2
  <2>4. \/ \E why \in {"no_workspace", "no_ready", "no_bundle"},
              intent \in Intents \cup {"unset"} :
            state' = [state EXCEPT !.intent = intent, !.error_message = why]
        \/ picked # 0 /\ state' = [state EXCEPT !.bundle = picked,
                                               !.conn = picked]
    <3>1. CASE ~(state.conn # 0 \/ state.workspace)
      <4>1. state' = [state EXCEPT !.intent = "clarify",
                                   !.error_message = "no_workspace"]
        BY <2>1, <3>1 DEF LoadSchema
      <4>2. QED
        BY <4>1 DEF Intents
    <3>2. CASE (state.conn # 0 \/ state.workspace) /\ picked = 0
      <4>1. state' = [state EXCEPT !.error_message = "no_ready"]
        BY <2>1, <3>2 DEF LoadSchema
      <4>2. state' = [state EXCEPT !.intent = state.intent,
                                   !.error_message = "no_ready"]
        BY <4>1, <1>1 DEF GraphState
      <4>3. QED
        BY <4>2, <1>1 DEF GraphState
    <3>3. CASE (state.conn # 0 \/ state.workspace) /\ picked # 0
      <4>1. \/ state' = [state EXCEPT !.error_message = "no_bundle"]
            \/ state' = [state EXCEPT !.bundle = picked, !.conn = picked]
        BY <2>1, <3>3 DEF LoadSchema
      <4>2. state' = [state EXCEPT !.error_message = "no_bundle"] =>
              state' = [state EXCEPT !.intent = state.intent,
                                     !.error_message = "no_bundle"]
        BY <1>1 DEF GraphState
      <4>3. QED
        BY <4>1, <4>2, <3>3, <1>1 DEF GraphState
    <3>4. QED
      BY <3>1, <3>2, <3>3
  <2>5. CASE \E why \in {"no_workspace", "no_ready", "no_bundle"},
                intent \in Intents \cup {"unset"} :
               state' = [state EXCEPT !.intent = intent, !.error_message = why]
    <3>1. /\ KeepCounts /\ KeepPlan /\ KeepScope /\ state' \in GraphState
          /\ state'.error_message # "none"
      BY <2>5, <1>1, ZenonT(30) DEF KeepCounts, KeepPlan, KeepScope, GraphState
    <3>2. frontier' = {"error_responder"}
      BY <3>1, <2>1 DEF RouteAfterSchema
    <3>3. QED
      BY <3>1, <3>2, <2>1
  <2>6. CASE picked # 0 /\ state' = [state EXCEPT !.bundle = picked,
                                                !.conn = picked]
    <3>1. /\ KeepCounts /\ KeepPlan /\ KeepScope /\ state' \in GraphState
          /\ state'.conn # 0 /\ state'.bundle = state'.conn
      BY <2>6, <2>3, <1>1 DEF KeepCounts, KeepPlan, KeepScope, GraphState
    <3>2. frontier' \in {{"error_responder"}, {"answer_writer"},
                         {"rag_retriever"}}
      BY <2>1 DEF RouteAfterSchema
    <3>3. QED
      BY <3>1, <3>2, <2>1
  <2>7. QED
    BY <2>4, <2>5, <2>6
<1>3. TypeOK'
  BY <1>1, <1>2 DEF IInv, TypeOK, Nodes
<1>4. BudgetInv'
  BY <1>1, <1>2, BudgetAssumption
     DEF IInv, TypeOK, GraphState, BudgetInv, RetryBudget, KeepCounts, At,
         Entry, Planning, Drafted
<1>5. PlanInv' /\ PhaseInv' /\ ScopeInv'
  BY <1>1, <1>2
     DEF IInv, PlanInv, PhaseInv, ScopeInv, ExecutesValidatedPlan, KeepCounts,
         KeepPlan, KeepConn, KeepScope, At, Entry, Planning, Drafted, OneDBPath
<1>6. QED
  BY <1>3, <1>4, <1>5 DEF IInv

\* multi_schema_loader loads only bundles of the scope.
LEMMA MultiSchemaLoaderIInv == IInv /\ MultiSchemaLoader => IInv'
<1> SUFFICES ASSUME IInv, MultiSchemaLoader PROVE IInv'
  OBVIOUS
<1>1. state \in GraphState
  BY DEF IInv, TypeOK
<1>2. /\ "multi_schema_loader" \in frontier
      /\ UNCHANGED <<request, outcome>>
      /\ KeepCounts /\ KeepPlan
      /\ state'.federated_plan = state.federated_plan
      /\ state' \in GraphState
      /\ \/ state'.bundles = state.bundles
         \/ request.scope # {} => state'.bundles \subseteq request.scope
      /\ frontier' \in {{"error_responder"}, {"federated_planner"}}
  <2>1. PICK gone \in SUBSET Deletable, goneLater \in SUBSET Deletable :
          /\ state' = LoadSchemas(Scanned(request.ready \ gone),
                                  Scanned(request.ready \ gone) \ goneLater)
          /\ frontier' = RouteAfterMultiSchema(state')
          /\ "multi_schema_loader" \in frontier
          /\ UNCHANGED <<request, outcome>>
    BY DEF MultiSchemaLoader, Run
  <2> DEFINE scanned == Scanned(request.ready \ gone)
             loaded  == scanned \ goneLater
  <2>2. /\ loaded \in SUBSET Conns
        /\ request.scope # {} => loaded \subseteq request.scope
    BY DEF IInv, TypeOK, Request, Scanned
  <2>3. \/ state' = [state EXCEPT !.intent = "clarify",
                                 !.error_message = "no_workspace"]
        \/ state' = [state EXCEPT !.error_message = "no_ready"]
        \/ state' = [state EXCEPT !.error_message = "no_bundle"]
        \/ /\ loaded # {}
           /\ state' = [state EXCEPT !.bundle = FirstReady(loaded),
                                    !.bundles = loaded]
    <3>1. CASE ~state.workspace
      BY <2>1, <3>1 DEF LoadSchemas
    <3>2. CASE state.workspace /\ scanned = {}
      BY <2>1, <3>2 DEF LoadSchemas
    <3>3. CASE state.workspace /\ scanned # {} /\ loaded = {}
      BY <2>1, <3>3 DEF LoadSchemas
    <3>4. CASE state.workspace /\ scanned # {} /\ loaded # {}
      BY <2>1, <3>4 DEF LoadSchemas
    <3>5. QED
      BY <3>1, <3>2, <3>3, <3>4
  <2>4. loaded # {} => FirstReady(loaded) \in 0 .. NConns
    BY <2>2, FirstReadyIn, BudgetAssumption DEF Conns
  <2>5. /\ KeepCounts /\ KeepPlan
        /\ state'.federated_plan = state.federated_plan
        /\ \/ state'.bundles = state.bundles
           \/ request.scope # {} => state'.bundles \subseteq request.scope
    BY <1>1, <2>2, <2>3 DEF KeepCounts, KeepPlan, GraphState
  <2>6. state' \in GraphState
    <3>1. CASE loaded # {} /\ state' = [state EXCEPT
                                !.bundle = FirstReady(loaded), !.bundles = loaded]
      BY <3>1, <1>1, <2>2, <2>4, LoadedTyped
    <3>2. CASE \/ state' = [state EXCEPT !.intent = "clarify",
                                       !.error_message = "no_workspace"]
               \/ state' = [state EXCEPT !.error_message = "no_ready"]
               \/ state' = [state EXCEPT !.error_message = "no_bundle"]
      <4>1. PICK intent \in Intents \cup {"unset"},
                 why \in {"no_workspace", "no_ready", "no_bundle"} :
              state' = [state EXCEPT !.intent = intent, !.error_message = why]
        <5>1. CASE state' = [state EXCEPT !.intent = "clarify",
                                          !.error_message = "no_workspace"]
          BY <5>1 DEF Intents
        <5>2. ASSUME NEW why \in {"no_ready", "no_bundle"},
                     state' = [state EXCEPT !.error_message = why]
              PROVE  state' = [state EXCEPT !.intent = state.intent,
                                            !.error_message = why]
          BY <5>2, <1>1 DEF GraphState
        <5>3. QED
          BY <3>2, <5>1, <5>2, <1>1 DEF GraphState
      <4>2. QED
        BY <4>1, <1>1, ErrorTyped
    <3>3. QED
      BY <2>3, <3>1, <3>2
  <2>7. frontier' \in {{"error_responder"}, {"federated_planner"}}
    BY <2>1 DEF RouteAfterMultiSchema
  <2>8. QED
    BY <2>1, <2>5, <2>6, <2>7
<1>3. TypeOK'
  BY <1>1, <1>2 DEF IInv, TypeOK, Nodes
<1>4. BudgetInv'
  BY <1>1, <1>2, BudgetAssumption
     DEF IInv, TypeOK, GraphState, BudgetInv, RetryBudget, KeepCounts, At,
         Entry, Planning, Drafted
<1>5. PlanInv' /\ PhaseInv' /\ ScopeInv'
  BY <1>1, <1>2
     DEF IInv, PlanInv, PhaseInv, ScopeInv, ExecutesValidatedPlan, KeepCounts,
         KeepPlan, KeepConn, KeepScope, At, Entry, Planning, Drafted, OneDBPath
<1>6. QED
  BY <1>3, <1>4, <1>5 DEF IInv

\* rag_retriever keeps what schema_loader resolved.
LEMMA RagRetrieverIInv == IInv /\ RagRetriever => IInv'
BY BudgetAssumption
   DEF IInv, TypeOK, BudgetInv, RetryBudget, PlanInv, PhaseInv, ScopeInv,
         ExecutesValidatedPlan, At, Entry, Planning, Drafted, OneDBPath,
         GraphState, Request, Conns, Intents, Nodes, Feedback,
         RagRetriever, Run

\* query_planner uses up at most the draft its slack allows.
LEMMA QueryPlannerIInv == IInv /\ QueryPlanner => IInv'
<1> SUFFICES ASSUME IInv, QueryPlanner PROVE IInv'
  OBVIOUS
<1>1. state \in GraphState
  BY DEF IInv, TypeOK
<1>2. /\ "query_planner" \in frontier
      /\ UNCHANGED <<request, outcome>>
      /\ KeepConn /\ KeepScope
      /\ state'.planner_attempts = state.planner_attempts + 1
      /\ state'.executor_attempts = state.executor_attempts
      /\ state'.result = state.result
      /\ state'.plan = 0 => ~state'.ok
      /\ state' \in GraphState
      /\ frontier' = {"query_validator"}
  <2>1. /\ "query_planner" \in frontier
        /\ UNCHANGED <<request, outcome>>
        /\ frontier' = {"query_validator"}
        /\ \/ state' = [state EXCEPT !.plan = state.planner_attempts + 1,
                        !.planner_attempts = state.planner_attempts + 1,
                        !.last_validation_error = "none",
                        !.last_executor_error = "none"]
           \/ state' = NoDraft(state.planner_attempts + 1)
    BY DEF QueryPlanner, Run
  <2>2. state.planner_attempts + 1 \in Nat \ {0}
    BY <1>1 DEF GraphState
  <2>3. CASE state' = NoDraft(state.planner_attempts + 1)
    <3>1. state' \in GraphState
      BY <2>2, <2>3, <1>1, NoDraftTyped
    <3>2. QED
      BY <2>1, <2>2, <2>3, <3>1, <1>1
         DEF NoDraft, KeepConn, KeepScope, GraphState
  <2>4. CASE state' = [state EXCEPT !.plan = state.planner_attempts + 1,
                         !.planner_attempts = state.planner_attempts + 1,
                         !.last_validation_error = "none",
                         !.last_executor_error = "none"]
    <3>1. state' \in GraphState
      BY <2>2, <2>4, <1>1, DraftTyped
    <3>2. QED
      BY <2>1, <2>2, <2>4, <3>1, <1>1 DEF KeepConn, KeepScope, GraphState
  <2>5. QED
    BY <2>1, <2>3, <2>4
<1>3. TypeOK'
  BY <1>1, <1>2 DEF IInv, TypeOK, Nodes
<1>4. BudgetInv'
  BY <1>1, <1>2, BudgetAssumption
     DEF IInv, TypeOK, GraphState, BudgetInv, RetryBudget, KeepCounts, At,
         Entry, Planning, Drafted
<1>5. PlanInv' /\ PhaseInv' /\ ScopeInv'
  BY <1>1, <1>2
     DEF IInv, PlanInv, PhaseInv, ScopeInv, ExecutesValidatedPlan, KeepCounts,
         KeepPlan, KeepConn, KeepScope, At, Entry, Planning, Drafted, OneDBPath
<1>6. QED
  BY <1>3, <1>4, <1>5 DEF IInv

\* query_validator retries only below the planner's budget.
LEMMA QueryValidatorIInv == IInv /\ QueryValidator => IInv'
<1> SUFFICES ASSUME IInv, QueryValidator PROVE IInv'
  OBVIOUS
<1>1. state \in GraphState
  BY DEF IInv, TypeOK
<1>2. /\ "query_validator" \in frontier
      /\ UNCHANGED <<request, outcome>>
      /\ KeepCounts /\ KeepConn /\ KeepScope
      /\ state' \in GraphState
      /\ \/ /\ state'.ok /\ state'.plan # 0 /\ state'.validated = state'.plan
            /\ frontier' = {"query_executor"}
         \/ frontier' = {"error_responder"}
         \/ /\ ~(state'.planner_attempts >= MaxPlannerAttempts)
            /\ frontier' = {"query_planner"}
  <2>1. /\ "query_validator" \in frontier
        /\ UNCHANGED <<request, outcome>>
        /\ frontier' = RouteAfterValidation(state')
    BY DEF QueryValidator, Run
  <2>2. /\ KeepCounts /\ KeepConn /\ KeepScope
        /\ state' \in GraphState
        /\ state'.ok => state'.plan # 0 /\ state'.validated = state'.plan
    <3>1. CASE state.plan = 0
      <4>1. state' = [state EXCEPT !.last_validation_error = "no_plan"]
        BY <3>1 DEF QueryValidator, Run
      <4>2. ~state.ok
        BY <3>1, <2>1 DEF IInv, PlanInv
      <4>3. QED
        BY <4>1, <4>2, <1>1
           DEF KeepCounts, KeepConn, KeepScope, GraphState, Feedback
    <3>2. CASE state.plan # 0
      <4>1. PICK accepted \in BOOLEAN :
              state' = [state EXCEPT !.validated = state.plan, !.ok = accepted,
                          !.last_validation_error =
                             IF accepted THEN @ ELSE "rejected"]
        BY <3>2 DEF QueryValidator, Run
      <4>2. QED
        BY <4>1, <3>2, <1>1, ZenonT(30)
           DEF KeepCounts, KeepConn, KeepScope, GraphState, Feedback
    <3>3. QED
      BY <3>1, <3>2
  <2>3. \/ state'.ok /\ frontier' = {"query_executor"}
        \/ frontier' = {"error_responder"}
        \/ /\ ~(state'.planner_attempts >= MaxPlannerAttempts)
           /\ frontier' = {"query_planner"}
    BY <2>1 DEF RouteAfterValidation
  <2>4. QED
    BY <2>1, <2>2, <2>3
<1>3. TypeOK'
  BY <1>1, <1>2 DEF IInv, TypeOK, Nodes
<1>4. BudgetInv'
  BY <1>1, <1>2, BudgetAssumption
     DEF IInv, TypeOK, GraphState, BudgetInv, RetryBudget, KeepCounts, At,
         Entry, Planning, Drafted
<1>5. PlanInv' /\ PhaseInv' /\ ScopeInv'
  BY <1>1, <1>2
     DEF IInv, PlanInv, PhaseInv, ScopeInv, ExecutesValidatedPlan, KeepCounts,
         KeepPlan, KeepConn, KeepScope, At, Entry, Planning, Drafted, OneDBPath
<1>6. QED
  BY <1>3, <1>4, <1>5 DEF IInv

\* query_executor returns to the planner with one more unit of slack.
LEMMA QueryExecutorIInv == IInv /\ QueryExecutor => IInv'
<1> SUFFICES ASSUME IInv, QueryExecutor PROVE IInv'
  OBVIOUS
<1>1. state \in GraphState
  BY DEF IInv, TypeOK
<1>2. /\ "query_executor" \in frontier
      /\ UNCHANGED <<request, outcome>>
      /\ KeepPlan /\ KeepConn /\ KeepScope
      /\ state'.planner_attempts = state.planner_attempts
      /\ state'.executor_attempts = state.executor_attempts + 1
      /\ state' \in GraphState
      /\ \/ frontier' = {"chart_designer", "answer_writer"}
         \/ frontier' = {"error_responder"}
         \/ /\ state'.result = 0
            /\ ~(state'.executor_attempts >= MaxExecutorAttempts)
            /\ frontier' = {"query_planner"}
  <2>1. "query_executor" \in frontier
    BY DEF QueryExecutor, Run
  <2>2. /\ state.plan # 0 /\ state.validated # 0 /\ state.ok /\ state.conn # 0
    BY <2>1 DEF IInv, PlanInv, ExecutesValidatedPlan
  <2>3. PICK succeeds \in BOOLEAN :
          /\ state' = [state EXCEPT !.executor_attempts = @ + 1,
                         !.result = IF succeeds THEN state.plan ELSE @,
                         !.last_executor_error =
                            IF succeeds THEN "none" ELSE "failed"]
          /\ frontier' = RouteAfterExecution(state', "query_planner")
          /\ UNCHANGED <<request, outcome>>
    BY <2>2 DEF QueryExecutor, Run
  <2>4. /\ KeepPlan /\ KeepConn /\ KeepScope
        /\ state'.planner_attempts = state.planner_attempts
        /\ state'.executor_attempts = state.executor_attempts + 1
    BY <2>3, <1>1 DEF KeepPlan, KeepConn, KeepScope, GraphState
  <2>5. state' \in GraphState
    <3>1. PICK r \in Nat, x \in {"none", "failed"} :
            state' = [state EXCEPT
                        !.executor_attempts = state.executor_attempts + 1,
                        !.result = r, !.last_executor_error = x]
      <4>1. CASE succeeds
        BY <4>1, <2>3, <1>1 DEF GraphState
      <4>2. CASE ~succeeds
        BY <4>2, <2>3, <1>1 DEF GraphState
      <4>3. QED
        BY <4>1, <4>2
    <3>2. state.executor_attempts + 1 \in Nat
      BY <1>1 DEF GraphState
    <3>3. QED
      BY <3>1, <3>2, <1>1, ExecutionTyped
  <2>6. QED
    BY <2>1, <2>3, <2>4, <2>5, ExecutionRoutes
<1>3. TypeOK'
  BY <1>1, <1>2 DEF IInv, TypeOK, Nodes
<1>4. BudgetInv'
  BY <1>1, <1>2, BudgetAssumption
     DEF IInv, TypeOK, GraphState, BudgetInv, RetryBudget, KeepCounts, At,
         Entry, Planning, Drafted
<1>5. PlanInv' /\ PhaseInv' /\ ScopeInv'
  BY <1>1, <1>2
     DEF IInv, PlanInv, PhaseInv, ScopeInv, ExecutesValidatedPlan, KeepCounts,
         KeepPlan, KeepConn, KeepScope, At, Entry, Planning, Drafted, OneDBPath
<1>6. QED
  BY <1>3, <1>4, <1>5 DEF IInv

\* federated_planner accepts only plans over the loaded bundles.
LEMMA FederatedPlannerIInv == IInv /\ FederatedPlanner => IInv'
<1> SUFFICES ASSUME IInv, FederatedPlanner PROVE IInv'
  OBVIOUS
<1>1. state \in GraphState
  BY DEF IInv, TypeOK
<1>2. /\ "federated_planner" \in frontier
      /\ UNCHANGED <<request, outcome>>
      /\ KeepPlan /\ KeepConn
      /\ state'.bundles = state.bundles
      /\ state'.federated_plan \subseteq state.bundles
      /\ state'.planner_attempts = state.planner_attempts + 1
      /\ state'.executor_attempts = state.executor_attempts
      /\ state'.result = state.result
      /\ state' \in GraphState
      /\ \/ state'.federated_plan # {} /\ frontier' = {"federated_executor"}
         \/ frontier' = {"error_responder"}
         \/ /\ ~(state'.planner_attempts >= MaxPlannerAttempts)
            /\ frontier' = {"federated_planner"}
  <2>1. /\ "federated_planner" \in frontier
        /\ UNCHANGED <<request, outcome>>
        /\ frontier' = RouteAfterFederatedPlanner(state')
        /\ \E targets \in SUBSET (0 .. NConns), validation \in Feedback,
              execution \in {"none", state.last_executor_error} :
             /\ targets \subseteq state.bundles
             /\ state' = [state EXCEPT !.planner_attempts = @ + 1,
                            !.federated_plan = targets,
                            !.last_validation_error = validation,
                            !.last_executor_error = execution]
    <3>1. \/ \E why \in Feedback :
               Run("federated_planner",
                   [state EXCEPT !.planner_attempts = state.planner_attempts + 1,
                                 !.federated_plan = {},
                                 !.last_validation_error = why],
                   RouteAfterFederatedPlanner(state'))
          \/ \E targets \in SUBSET (0 .. NConns) :
               /\ targets \subseteq state.bundles
               /\ Run("federated_planner",
                      [state EXCEPT
                         !.planner_attempts = state.planner_attempts + 1,
                         !.federated_plan = targets,
                         !.last_validation_error = "none",
                         !.last_executor_error = "none"],
                      RouteAfterFederatedPlanner(state'))
      <4>1. CASE state.bundles = {}
        BY <4>1 DEF FederatedPlanner, Run, Feedback
      <4>2. CASE state.bundles # {}
        BY <4>2 DEF FederatedPlanner, CrossValidated, Run, Feedback
      <4>3. QED
        BY <4>1, <4>2
    <3>2. CASE \E why \in Feedback :
               Run("federated_planner",
                   [state EXCEPT !.planner_attempts = state.planner_attempts + 1,
                                 !.federated_plan = {},
                                 !.last_validation_error = why],
                   RouteAfterFederatedPlanner(state'))
      <4>1. PICK why \in Feedback :
               Run("federated_planner",
                   [state EXCEPT !.planner_attempts = state.planner_attempts + 1,
                                 !.federated_plan = {},
                                 !.last_validation_error = why],
                   RouteAfterFederatedPlanner(state'))
        BY <3>2
      <4>2. state' = [state EXCEPT
                        !.planner_attempts = state.planner_attempts + 1,
                        !.federated_plan = {},
                        !.last_validation_error = why,
                        !.last_executor_error = state.last_executor_error]
        BY <4>1, <1>1 DEF Run, GraphState
      <4>3. QED
        BY <4>1, <4>2 DEF Run
    <3>3. CASE \E targets \in SUBSET (0 .. NConns) :
               /\ targets \subseteq state.bundles
               /\ Run("federated_planner",
                      [state EXCEPT
                         !.planner_attempts = state.planner_attempts + 1,
                         !.federated_plan = targets,
                         !.last_validation_error = "none",
                         !.last_executor_error = "none"],
                      RouteAfterFederatedPlanner(state'))
      BY <3>3 DEF Run, Feedback
    <3>4. QED
      BY <3>1, <3>2, <3>3
  <2>2. PICK targets \in SUBSET (0 .. NConns), validation \in Feedback,
             execution \in {"none", state.last_executor_error} :
          /\ targets \subseteq state.bundles
          /\ state' = [state EXCEPT !.planner_attempts = @ + 1,
                         !.federated_plan = targets,
                         !.last_validation_error = validation,
                         !.last_executor_error = execution]
    BY <2>1
  <2>3. /\ KeepPlan /\ KeepConn
        /\ state'.bundles = state.bundles
        /\ state'.federated_plan \subseteq state.bundles
        /\ state'.planner_attempts = state.planner_attempts + 1
        /\ state'.executor_attempts = state.executor_attempts
        /\ state'.result = state.result
    BY <2>2, <1>1 DEF KeepPlan, KeepConn, GraphState
  <2>4. \/ state'.federated_plan # {} /\ frontier' = {"federated_executor"}
        \/ frontier' = {"error_responder"}
        \/ /\ ~(state'.planner_attempts >= MaxPlannerAttempts)
           /\ frontier' = {"federated_planner"}
    BY <2>1 DEF RouteAfterFederatedPlanner
  <2>5. state' \in GraphState
    <3>1. targets \in SUBSET Conns
      BY <2>2, <1>1 DEF GraphState
    <3>2. execution \in {"none", "no_valid_plan", "failed"}
      BY <1>1 DEF GraphState
    <3>3. state.planner_attempts + 1 \in Nat
      BY <1>1 DEF GraphState
    <3>4. QED
      BY <2>2, <3>1, <3>2, <3>3, <1>1, FederatedDraftTyped
  <2>6. QED
    BY <2>1, <2>3, <2>4, <2>5
<1>3. TypeOK'
  BY <1>1, <1>2 DEF IInv, TypeOK, Nodes
<1>4. BudgetInv'
  BY <1>1, <1>2, BudgetAssumption
     DEF IInv, TypeOK, GraphState, BudgetInv, RetryBudget, KeepCounts, At,
         Entry, Planning, Drafted
<1>5. PlanInv' /\ PhaseInv' /\ ScopeInv'
  BY <1>1, <1>2
     DEF IInv, PlanInv, PhaseInv, ScopeInv, ExecutesValidatedPlan, KeepCounts,
         KeepPlan, KeepConn, KeepScope, At, Entry, Planning, Drafted, OneDBPath
<1>6. QED
  BY <1>3, <1>4, <1>5 DEF IInv

\* federated_executor returns to its planner with one more unit of slack.
LEMMA FederatedExecutorIInv == IInv /\ FederatedExecutor => IInv'
<1> SUFFICES ASSUME IInv, FederatedExecutor PROVE IInv'
  OBVIOUS
<1>1. state \in GraphState
  BY DEF IInv, TypeOK
<1>2. /\ "federated_executor" \in frontier
      /\ UNCHANGED <<request, outcome>>
      /\ KeepPlan /\ KeepConn /\ KeepScope
      /\ state'.planner_attempts = state.planner_attempts
      /\ state'.executor_attempts = state.executor_attempts + 1
      /\ state' \in GraphState
      /\ \/ frontier' = {"chart_designer", "answer_writer"}
         \/ frontier' = {"error_responder"}
         \/ /\ state'.result = 0
            /\ ~(state'.executor_attempts >= MaxExecutorAttempts)
            /\ frontier' = {"federated_planner"}
  <2>1. PICK succeeds \in BOOLEAN, done \in BOOLEAN :
          /\ "federated_executor" \in frontier
          /\ state' = [state EXCEPT !.executor_attempts = @ + 1,
                         !.result = IF done THEN state.planner_attempts ELSE @,
                         !.last_executor_error =
                            IF done THEN "none" ELSE "failed"]
          /\ frontier' = RouteAfterExecution(state', "federated_planner")
          /\ UNCHANGED <<request, outcome>>
    BY DEF FederatedExecutor, Run
  <2>2. /\ KeepPlan /\ KeepConn /\ KeepScope
        /\ state'.planner_attempts = state.planner_attempts
        /\ state'.executor_attempts = state.executor_attempts + 1
    BY <2>1, <1>1 DEF KeepPlan, KeepConn, KeepScope, GraphState
  <2>3. state' \in GraphState
    <3>1. PICK r \in Nat, x \in {"none", "failed"} :
            state' = [state EXCEPT
                        !.executor_attempts = state.executor_attempts + 1,
                        !.result = r, !.last_executor_error = x]
      <4>1. CASE done
        BY <4>1, <2>1, <1>1 DEF GraphState
      <4>2. CASE ~done
        BY <4>2, <2>1, <1>1 DEF GraphState
      <4>3. QED
        BY <4>1, <4>2
    <3>2. state.executor_attempts + 1 \in Nat
      BY <1>1 DEF GraphState
    <3>3. QED
      BY <3>1, <3>2, <1>1, ExecutionTyped
  <2>4. QED
    BY <2>1, <2>2, <2>3, ExecutionRoutes
<1>3. TypeOK'
  BY <1>1, <1>2 DEF IInv, TypeOK, Nodes
<1>4. BudgetInv'
  BY <1>1, <1>2, BudgetAssumption
     DEF IInv, TypeOK, GraphState, BudgetInv, RetryBudget, KeepCounts, At,
         Entry, Planning, Drafted
<1>5. PlanInv' /\ PhaseInv' /\ ScopeInv'
  BY <1>1, <1>2
     DEF IInv, PlanInv, PhaseInv, ScopeInv, ExecutesValidatedPlan, KeepCounts,
         KeepPlan, KeepConn, KeepScope, At, Entry, Planning, Drafted, OneDBPath
<1>6. QED
  BY <1>3, <1>4, <1>5 DEF IInv

\* chart_designer touches neither counters nor plans.
LEMMA ChartDesignerIInv == IInv /\ ChartDesigner => IInv'
<1> SUFFICES ASSUME IInv, ChartDesigner PROVE IInv'
  OBVIOUS
<1>1. TypeOK'
  BY BudgetAssumption, ZenonT(30)
     DEF IInv, TypeOK, GraphState, Request, Conns, Intents, Nodes, Feedback, ChartDesigner, Run, Join
<1>2. BudgetInv'
  BY BudgetAssumption
     DEF IInv, TypeOK, GraphState, Request, Conns, Intents, Nodes, Feedback, BudgetInv, RetryBudget, PlanInv, PhaseInv, ScopeInv,
         ExecutesValidatedPlan, At, Entry, Planning, Drafted, OneDBPath, ChartDesigner, Run, Join
<1>3. PlanInv' /\ PhaseInv' /\ ScopeInv'
  BY BudgetAssumption
     DEF IInv, TypeOK, GraphState, Request, Conns, Intents, Nodes, Feedback, BudgetInv, RetryBudget, PlanInv, PhaseInv, ScopeInv,
         ExecutesValidatedPlan, At, Entry, Planning, Drafted, OneDBPath, ChartDesigner, Run, Join
<1>4. QED
  BY <1>1, <1>2, <1>3 DEF IInv

\* answer_writer touches neither counters nor plans.
LEMMA AnswerWriterIInv == IInv /\ AnswerWriter => IInv'
BY BudgetAssumption
   DEF IInv, TypeOK, BudgetInv, RetryBudget, PlanInv, PhaseInv, ScopeInv,
         ExecutesValidatedPlan, At, Entry, Planning, Drafted, OneDBPath,
         GraphState, Request, Conns, Intents, Nodes, Feedback,
         AnswerWriter, Run, Join

\* error_responder touches neither counters nor plans.
LEMMA ErrorResponderIInv == IInv /\ ErrorResponder => IInv'
BY BudgetAssumption
   DEF IInv, TypeOK, BudgetInv, RetryBudget, PlanInv, PhaseInv, ScopeInv,
         ExecutesValidatedPlan, At, Entry, Planning, Drafted, OneDBPath,
         GraphState, Request, Conns, Intents, Nodes, Feedback,
         ErrorResponder, Run, Join

\* finalizer closes the turn.
LEMMA FinalizerIInv == IInv /\ Finalizer => IInv'
BY BudgetAssumption
   DEF IInv, TypeOK, BudgetInv, RetryBudget, PlanInv, PhaseInv, ScopeInv,
         ExecutesValidatedPlan, At, Entry, Planning, Drafted, OneDBPath,
         GraphState, Request, Conns, Intents, Nodes, Feedback,
         Finalizer

\* an exception closes the turn.
LEMMA NodeRaisesIInv == IInv /\ NodeRaises => IInv'
BY BudgetAssumption
   DEF IInv, TypeOK, BudgetInv, RetryBudget, PlanInv, PhaseInv, ScopeInv,
         ExecutesValidatedPlan, At, Entry, Planning, Drafted, OneDBPath,
         GraphState, Request, Conns, Intents, Nodes, Feedback,
         NodeRaises

-----------------------------------------------------------------------------
(* Theorems *)

\* Every step, stuttering included, preserves the inductive invariant.
LEMMA NextIInv == IInv /\ [Next]_vars => IInv'
<1> SUFFICES ASSUME IInv, [Next]_vars PROVE IInv'
  OBVIOUS
<1>1. CASE Next
  BY <1>1, CoordinatorIInv, SchemaLoaderIInv, MultiSchemaLoaderIInv,
     RagRetrieverIInv, QueryPlannerIInv, QueryValidatorIInv,
     QueryExecutorIInv, FederatedPlannerIInv, FederatedExecutorIInv,
     ChartDesignerIInv, AnswerWriterIInv, ErrorResponderIInv,
     FinalizerIInv, NodeRaisesIInv
     DEF Next
<1>2. CASE UNCHANGED vars
  BY <1>2 DEF vars, IInv, TypeOK, BudgetInv, RetryBudget, PlanInv, PhaseInv,
     ScopeInv, ExecutesValidatedPlan, At
<1>3. QED
  BY <1>1, <1>2

\* The inductive invariant holds throughout a turn.
THEOREM Invariance == Spec => []IInv
<1>1. QED
  BY InitIInv, NextIInv, PTL DEF Spec

\* Every key of GraphState keeps to its values throughout a turn.
THEOREM TypeCorrect == Spec => []TypeOK
<1>1. IInv => TypeOK
  BY DEF IInv
<1>2. QED
  BY <1>1, Invariance, PTL

\* No turn asks for more than MAX_PLANNER + MAX_EXECUTOR - 1 drafts, nor runs
\* more than MAX_EXECUTOR queries, whatever the two budgets are.
THEOREM BudgetsHold == Spec => []RetryBudget
<1>1. IInv => RetryBudget
  BY DEF IInv, BudgetInv
<1>2. QED
  BY <1>1, Invariance, PTL

\* query_executor runs only the plan validated last, on the connection it was
\* drafted for.
THEOREM OnlyValidatedPlansRun == Spec => []ExecutesValidatedPlan
<1>1. IInv => ExecutesValidatedPlan
  BY DEF IInv, PlanInv
<1>2. QED
  BY <1>1, Invariance, PTL

\* No federated plan leaves the scope, for any number of connections.
THEOREM ScopeHolds == Spec => []FederationStaysInScope
<1>1. IInv => FederationStaysInScope
  BY DEF IInv, ScopeInv, FederationStaysInScope
<1>2. QED
  BY <1>1, Invariance, PTL

-----------------------------------------------------------------------------
(* Where a query runs, and what the page shows of it *)

\* The dropdown of a chat turn decides the connection from the first state on.
ChosenInv ==
  request.caller = "chat" /\ request.conn # 0 => state.conn = request.conn

\* What the page will be made of: a result is the one of the last draft, it is on
\* its way through the fan-out, and each branch that is done has left its part.
ShownInv ==
  /\ state.answer # "no_rows"
  /\ state.result # 0 =>
       /\ state.result = state.planner_attempts
       /\ frontier \subseteq {"chart_designer", "answer_writer", "finalizer"}
       /\ outcome # "raised" =>
            /\ "chart_designer" \notin frontier => state.chart
            /\ "answer_writer" \notin frontier => state.answer = "data"
       /\ outcome = "finished" => state.ui_spec = "dashboard"
  /\ "answer_writer" \in frontier /\ state.result = 0 =>
       state.intent \in {"metadata", "chitchat"}
  /\ "finalizer" \in frontier => frontier = {"finalizer"}
  /\ At({"query_validator", "query_executor"}) /\ state.plan # 0 =>
       state.plan = state.planner_attempts

LEMMA InitShown == Init => ChosenInv /\ ShownInv
BY DEF Init, InitialState, ChosenInv, ShownInv, At

\* A node that leaves no result behind shows nothing yet; it must only send the turn
\* on in good order.
LEMMA NothingShown ==
  ASSUME ChosenInv, ShownInv, UNCHANGED <<request, outcome>>,
         state'.conn = state.conn \/ request.caller # "chat" \/ request.conn = 0,
         state'.answer = state.answer, state'.result = 0,
         "answer_writer" \in frontier' => state'.intent \in {"metadata", "chitchat"},
         "finalizer" \in frontier' => frontier' = {"finalizer"},
         At({"query_validator", "query_executor"})' /\ state'.plan # 0 =>
           state'.plan = state'.planner_attempts
  PROVE  ChosenInv' /\ ShownInv'
BY DEF ChosenInv, ShownInv

\* The nodes before the first draft: answer_writer is reached only for what it can
\* answer without a result.
LEMMA CoordinatorShown == IInv /\ ChosenInv /\ ShownInv /\ Coordinator => ChosenInv' /\ ShownInv'
<1> SUFFICES ASSUME IInv, ChosenInv, ShownInv, Coordinator PROVE ChosenInv' /\ ShownInv'
  OBVIOUS
<1>1. state \in GraphState
  BY DEF IInv, TypeOK
<1>2. /\ "coordinator" \in frontier
      /\ UNCHANGED <<request, outcome>>
      /\ frontier' = RouteAfterCoordinator(state')
  BY DEF Coordinator, Run
<1>3. state.result = 0
  BY <1>2 DEF IInv, PhaseInv, At, Entry
<1>4. /\ state'.conn = state.conn
      /\ state'.answer = state.answer
      /\ state'.result = state.result
  <2>1. CASE request.empty
    BY <2>1, <1>1 DEF Coordinator, Run, GraphState
  <2>2. CASE ~request.empty
    BY <2>2, <1>1 DEF Coordinator, Run, GraphState
  <2>3. QED
    BY <2>1, <2>2
<1>5. /\ "answer_writer" \in frontier' => state'.intent = "chitchat"
      /\ "finalizer" \in frontier' => frontier' = {"finalizer"}
      /\ ~At({"query_validator", "query_executor"})'
  BY <1>2 DEF RouteAfterCoordinator, At
<1>6. QED
  BY <1>2, <1>3, <1>4, <1>5, NothingShown

LEMMA SchemaLoaderShown == IInv /\ ChosenInv /\ ShownInv /\ SchemaLoader => ChosenInv' /\ ShownInv'
<1> SUFFICES ASSUME IInv, ChosenInv, ShownInv, SchemaLoader PROVE ChosenInv' /\ ShownInv'
  OBVIOUS
<1>1. state \in GraphState
  BY DEF IInv, TypeOK
<1>2. PICK gone \in SUBSET Deletable :
        /\ "schema_loader" \in frontier
        /\ UNCHANGED <<request, outcome>>
        /\ state' = LoadSchema(request.ready \ gone, request.profiled \ gone)
        /\ frontier' = RouteAfterSchema(state')
  BY DEF SchemaLoader, Run
<1>3. state.result = 0
  BY <1>2 DEF IInv, PhaseInv, At, Entry
<1>4. /\ state.conn # 0 => state'.conn = state.conn
      /\ state'.answer = state.answer
      /\ state'.result = state.result
  BY <1>1, <1>2 DEF LoadSchema, PickConnection, GraphState
<1>5. state'.conn = state.conn \/ request.caller # "chat" \/ request.conn = 0
  BY <1>4 DEF ChosenInv
<1>6. /\ "answer_writer" \in frontier' => state'.intent = "metadata"
      /\ "finalizer" \notin frontier'
      /\ ~At({"query_validator", "query_executor"})'
  BY <1>2 DEF RouteAfterSchema, At
<1>7. QED
  BY <1>2, <1>3, <1>4, <1>5, <1>6, NothingShown

LEMMA MultiSchemaLoaderShown ==
  IInv /\ ChosenInv /\ ShownInv /\ MultiSchemaLoader => ChosenInv' /\ ShownInv'
<1> SUFFICES ASSUME IInv, ChosenInv, ShownInv, MultiSchemaLoader PROVE ChosenInv' /\ ShownInv'
  OBVIOUS
<1>1. state \in GraphState
  BY DEF IInv, TypeOK
<1>2. PICK scanned, loaded :
        /\ "multi_schema_loader" \in frontier
        /\ UNCHANGED <<request, outcome>>
        /\ state' = LoadSchemas(scanned, loaded)
        /\ frontier' = RouteAfterMultiSchema(state')
  BY DEF MultiSchemaLoader, Run
<1>3. state.result = 0
  BY <1>2 DEF IInv, PhaseInv, At, Entry
<1>4. /\ state'.conn = state.conn
      /\ state'.answer = state.answer
      /\ state'.result = state.result
  BY <1>1, <1>2 DEF LoadSchemas, GraphState
<1>5. frontier' \in {{"error_responder"}, {"federated_planner"}}
  BY <1>2 DEF RouteAfterMultiSchema
<1>6. QED
  BY <1>2, <1>3, <1>4, <1>5, NothingShown DEF At

LEMMA RagRetrieverShown == IInv /\ ChosenInv /\ ShownInv /\ RagRetriever => ChosenInv' /\ ShownInv'
BY NothingShown DEF IInv, PhaseInv, At, Entry, RagRetriever, Run

\* The nodes that draft: a plan carries the number of its draft.
LEMMA QueryPlannerShown == IInv /\ ChosenInv /\ ShownInv /\ QueryPlanner => ChosenInv' /\ ShownInv'
<1> SUFFICES ASSUME IInv, ChosenInv, ShownInv, QueryPlanner PROVE ChosenInv' /\ ShownInv'
  OBVIOUS
<1>1. state \in GraphState
  BY DEF IInv, TypeOK
<1>2. /\ "query_planner" \in frontier
      /\ UNCHANGED <<request, outcome>>
      /\ frontier' = {"query_validator"}
      /\ \/ state' = [state EXCEPT !.plan = state.planner_attempts + 1,
                      !.planner_attempts = state.planner_attempts + 1,
                      !.last_validation_error = "none",
                      !.last_executor_error = "none"]
         \/ state' = NoDraft(state.planner_attempts + 1)
  BY DEF QueryPlanner, Run
<1>3. state.result = 0
  BY <1>2 DEF IInv, PhaseInv, At, Planning
<1>4. /\ state'.conn = state.conn
      /\ state'.answer = state.answer
      /\ state'.result = state.result
      /\ state'.plan # 0 => state'.plan = state'.planner_attempts
  <2>1. CASE state' = [state EXCEPT !.plan = state.planner_attempts + 1,
                       !.planner_attempts = state.planner_attempts + 1,
                       !.last_validation_error = "none",
                       !.last_executor_error = "none"]
    BY <1>1, <2>1 DEF GraphState
  <2>2. CASE state' = NoDraft(state.planner_attempts + 1)
    BY <1>1, <2>2 DEF NoDraft, GraphState
  <2>q. QED  BY <1>2, <2>1, <2>2
<1>5. QED
  BY <1>2, <1>3, <1>4, NothingShown

LEMMA QueryValidatorShown ==
  IInv /\ ChosenInv /\ ShownInv /\ QueryValidator => ChosenInv' /\ ShownInv'
<1> SUFFICES ASSUME IInv, ChosenInv, ShownInv, QueryValidator PROVE ChosenInv' /\ ShownInv'
  OBVIOUS
<1>1. state \in GraphState
  BY DEF IInv, TypeOK
<1>2. /\ "query_validator" \in frontier
      /\ UNCHANGED <<request, outcome>>
      /\ frontier' = RouteAfterValidation(state')
  BY DEF QueryValidator, Run
<1>3. state.result = 0
  BY <1>2 DEF IInv, PhaseInv, At, Drafted
<1>4. /\ state'.conn = state.conn
      /\ state'.answer = state.answer
      /\ state'.result = state.result
      /\ state'.plan = state.plan
      /\ state'.planner_attempts = state.planner_attempts
  <2>1. CASE state.plan = 0
    BY <2>1, <1>1 DEF QueryValidator, Run, GraphState
  <2>2. CASE state.plan # 0
    BY <2>2, <1>1 DEF QueryValidator, Run, GraphState
  <2>3. QED
    BY <2>1, <2>2
<1>5. frontier' \in {{"query_executor"}, {"error_responder"}, {"query_planner"}}
  BY <1>2 DEF RouteAfterValidation
<1>6. state.plan # 0 => state.plan = state.planner_attempts
  BY <1>2 DEF ShownInv, At
<1>7. QED
  BY <1>2, <1>3, <1>4, <1>5, <1>6, NothingShown

LEMMA FederatedPlannerShown ==
  IInv /\ ChosenInv /\ ShownInv /\ FederatedPlanner => ChosenInv' /\ ShownInv'
<1> SUFFICES ASSUME IInv, ChosenInv, ShownInv, FederatedPlanner PROVE ChosenInv' /\ ShownInv'
  OBVIOUS
<1>1. state \in GraphState
  BY DEF IInv, TypeOK
<1>2. PICK targets, v, x :
        /\ "federated_planner" \in frontier
        /\ UNCHANGED <<request, outcome>>
        /\ state' = [state EXCEPT !.planner_attempts = state.planner_attempts + 1,
                                  !.federated_plan = targets,
                                  !.last_validation_error = v,
                                  !.last_executor_error = x]
        /\ frontier' = RouteAfterFederatedPlanner(state')
  <2> DEFINE Rejected(why) ==
        [state EXCEPT !.planner_attempts = state.planner_attempts + 1,
                      !.federated_plan = {}, !.last_validation_error = why]
  <2>1. \A why : Rejected(why) =
          [state EXCEPT !.planner_attempts = state.planner_attempts + 1,
                        !.federated_plan = {}, !.last_validation_error = why,
                        !.last_executor_error = state.last_executor_error]
    BY <1>1 DEF GraphState
  <2>2. \/ \E why : state' = Rejected(why)
        \/ \E targets : state' = [state EXCEPT
                             !.planner_attempts = state.planner_attempts + 1,
                             !.federated_plan = targets,
                             !.last_validation_error = "none",
                             !.last_executor_error = "none"]
    BY Zenon DEF FederatedPlanner, Run
  <2>3. /\ "federated_planner" \in frontier
        /\ UNCHANGED <<request, outcome>>
        /\ frontier' = RouteAfterFederatedPlanner(state')
    BY DEF FederatedPlanner, Run
  <2>4. CASE \E why : state' = Rejected(why)
    <3>1. PICK why : state' = Rejected(why)
      BY <2>4
    <3>2. state' = [state EXCEPT !.planner_attempts = state.planner_attempts + 1,
                                 !.federated_plan = {},
                                 !.last_validation_error = why,
                                 !.last_executor_error = state.last_executor_error]
      BY <3>1, <2>1, Zenon
    <3>3. QED
      BY <3>2, <2>3
  <2>5. QED
    BY <2>2, <2>3, <2>4
<1>3. state.result = 0
  BY <1>2 DEF IInv, PhaseInv, At, Planning
<1>4. /\ state'.conn = state.conn
      /\ state'.answer = state.answer
      /\ state'.result = state.result
  BY <1>1, <1>2 DEF GraphState
<1>5. frontier' \in {{"federated_executor"}, {"error_responder"}, {"federated_planner"}}
  BY <1>2 DEF RouteAfterFederatedPlanner
<1>6. QED
  BY <1>2, <1>3, <1>4, <1>5, NothingShown DEF At

\* The nodes that run: a result is that of the draft that was run, and starts the
\* fan-out with both of its branches.
LEMMA ExecutorShown ==
  ASSUME IInv, ChosenInv, ShownInv, UNCHANGED <<request, outcome>>,
         state'.conn = state.conn, state'.answer = state.answer,
         state'.planner_attempts = state.planner_attempts,
         outcome = "running",
         state'.result \in {0, state'.planner_attempts},
         \/ state'.result # 0 /\ frontier' = {"chart_designer", "answer_writer"}
         \/ state'.result = 0 /\ frontier' \in {{"error_responder"}, {"query_planner"},
                                                {"federated_planner"}}
  PROVE  ChosenInv' /\ ShownInv'
BY DEF ChosenInv, ShownInv, At

LEMMA QueryExecutorShown ==
  IInv /\ ChosenInv /\ ShownInv /\ QueryExecutor => ChosenInv' /\ ShownInv'
<1> SUFFICES ASSUME IInv, ChosenInv, ShownInv, QueryExecutor PROVE ChosenInv' /\ ShownInv'
  OBVIOUS
<1>1. state \in GraphState
  BY DEF IInv, TypeOK
<1>2. "query_executor" \in frontier
  BY DEF QueryExecutor, Run
<1>3. /\ state.plan # 0 /\ state.validated # 0 /\ state.ok /\ state.conn # 0
      /\ state.plan = state.planner_attempts
      /\ state.result = 0 /\ outcome = "running"
  BY <1>2 DEF IInv, PlanInv, PhaseInv, ExecutesValidatedPlan, ShownInv, At, Drafted
<1>4. PICK succeeds \in BOOLEAN :
        /\ state' = [state EXCEPT !.executor_attempts = @ + 1,
                       !.result = IF succeeds THEN state.plan ELSE @,
                       !.last_executor_error =
                          IF succeeds THEN "none" ELSE "failed"]
        /\ frontier' = RouteAfterExecution(state', "query_planner")
        /\ UNCHANGED <<request, outcome>>
  BY <1>3 DEF QueryExecutor, Run
<1>5. /\ state'.conn = state.conn
      /\ state'.answer = state.answer
      /\ state'.planner_attempts = state.planner_attempts
      /\ state'.result \in {0, state.plan}
  BY <1>1, <1>3, <1>4 DEF GraphState
<1>6. \/ state'.result # 0 /\ frontier' = {"chart_designer", "answer_writer"}
      \/ state'.result = 0 /\ frontier' \in {{"error_responder"}, {"query_planner"}}
  BY <1>4 DEF RouteAfterExecution
<1>7. QED
  BY <1>3, <1>4, <1>5, <1>6, ExecutorShown

LEMMA FederatedExecutorShown ==
  IInv /\ ChosenInv /\ ShownInv /\ FederatedExecutor => ChosenInv' /\ ShownInv'
<1> SUFFICES ASSUME IInv, ChosenInv, ShownInv, FederatedExecutor PROVE ChosenInv' /\ ShownInv'
  OBVIOUS
<1>1. state \in GraphState
  BY DEF IInv, TypeOK
<1>2. PICK done \in BOOLEAN :
        /\ "federated_executor" \in frontier
        /\ state' = [state EXCEPT !.executor_attempts = @ + 1,
                       !.result = IF done THEN state.planner_attempts ELSE @,
                       !.last_executor_error = IF done THEN "none" ELSE "failed"]
        /\ frontier' = RouteAfterExecution(state', "federated_planner")
        /\ UNCHANGED <<request, outcome>>
  BY DEF FederatedExecutor, Run
<1>3. state.result = 0 /\ outcome = "running"
  BY <1>2 DEF IInv, PhaseInv, At, Drafted
<1>4. /\ state'.conn = state.conn
      /\ state'.answer = state.answer
      /\ state'.planner_attempts = state.planner_attempts
      /\ state'.result \in {0, state.planner_attempts}
  BY <1>1, <1>2, <1>3 DEF GraphState
<1>5. \/ state'.result # 0 /\ frontier' = {"chart_designer", "answer_writer"}
      \/ state'.result = 0 /\ frontier' \in {{"error_responder"}, {"federated_planner"}}
  BY <1>2 DEF RouteAfterExecution
<1>6. QED
  BY <1>2, <1>3, <1>4, <1>5, ExecutorShown

\* The fan-out: each branch leaves its part, and the join waits for both.
LEMMA ChartDesignerShown ==
  IInv /\ ChosenInv /\ ShownInv /\ ChartDesigner => ChosenInv' /\ ShownInv'
<1> SUFFICES ASSUME IInv, ChosenInv, ShownInv, ChartDesigner PROVE ChosenInv' /\ ShownInv'
  OBVIOUS
<1>1. state \in GraphState
  BY DEF IInv, TypeOK
<1>2. /\ "chart_designer" \in frontier
      /\ UNCHANGED <<request, outcome>>
      /\ frontier' = IF frontier = {"chart_designer"} THEN {"finalizer"}
                     ELSE frontier \ {"chart_designer"}
      /\ state' = [state EXCEPT !.chart = state.result # 0]
  BY DEF ChartDesigner, Run, Join
<1>3. outcome = "running"
  BY <1>2 DEF IInv, PhaseInv
<1>4. /\ state'.conn = state.conn
      /\ state'.answer = state.answer
      /\ state'.result = state.result
      /\ state'.intent = state.intent
      /\ state'.plan = state.plan
      /\ state'.planner_attempts = state.planner_attempts
      /\ state.result # 0 => state'.chart
  BY <1>1, <1>2 DEF GraphState
<1>5. "finalizer" \notin frontier
  BY <1>2 DEF ShownInv
<1>6. QED
  BY <1>2, <1>3, <1>4, <1>5 DEF ChosenInv, ShownInv, At

\* The ends of a turn.
LEMMA EndShown ==
  IInv /\ ChosenInv /\ ShownInv /\ (AnswerWriter \/ ErrorResponder \/ Finalizer \/ NodeRaises)
    => ChosenInv' /\ ShownInv'
<1> SUFFICES ASSUME IInv, ChosenInv, ShownInv PROVE
      (AnswerWriter \/ ErrorResponder \/ Finalizer \/ NodeRaises) => ChosenInv' /\ ShownInv'
  OBVIOUS
<1>0. state \in GraphState
  BY DEF IInv, TypeOK
<1>1. CASE AnswerWriter
  BY <1>0, <1>1 DEF IInv, PhaseInv, ChosenInv, ShownInv, At, AnswerWriter, Run, Join, GraphState
<1>2. CASE ErrorResponder
  BY <1>0, <1>2 DEF IInv, PhaseInv, ChosenInv, ShownInv, At, ErrorResponder, Run, Join, GraphState
<1>3. CASE Finalizer
  BY <1>0, <1>3 DEF IInv, PhaseInv, ChosenInv, ShownInv, At, Finalizer, GraphState
<1>4. CASE NodeRaises
  BY <1>0, <1>4 DEF IInv, PhaseInv, ChosenInv, ShownInv, At, NodeRaises, GraphState
<1>5. QED
  BY <1>1, <1>2, <1>3, <1>4

LEMMA NextShown == IInv /\ ChosenInv /\ ShownInv /\ [Next]_vars => ChosenInv' /\ ShownInv'
<1> SUFFICES ASSUME IInv, ChosenInv, ShownInv, [Next]_vars PROVE ChosenInv' /\ ShownInv'
  OBVIOUS
<1>1. CASE Next
  BY <1>1, CoordinatorShown, SchemaLoaderShown, MultiSchemaLoaderShown, RagRetrieverShown,
     QueryPlannerShown, QueryValidatorShown, QueryExecutorShown, FederatedPlannerShown,
     FederatedExecutorShown, ChartDesignerShown, EndShown DEF Next
<1>2. CASE UNCHANGED vars
  BY <1>2 DEF vars, ChosenInv, ShownInv, At
<1>3. QED
  BY <1>1, <1>2

LEMMA ShownInvariance == Spec => [](ChosenInv /\ ShownInv)
BY InitShown, NextShown, Invariance, PTL DEF Spec

\* A query runs on the connection of the dropdown, and a federated plan inside the
\* scope, for any number of connections and whatever is deleted meanwhile.
THEOREM ConnectionIsRight == Spec => []RightConnection
<1>1. IInv /\ ChosenInv => RightConnection
  BY DEF IInv, ScopeInv, ChosenInv, RightConnection, FederationStaysInScope, ChatConnectionKept
<1>2. QED
  BY <1>1, Invariance, ShownInvariance, PTL

\* A result reaches the page with its chart and its answer, and none is claimed to be
\* empty, whichever branch of the fan-out is done first.
THEOREM ResultsAreShown == Spec => []ResultShown
<1>1. IInv /\ ShownInv => ResultShown
  BY DEF IInv, PhaseInv, ShownInv, ResultShown, ResultFullyPresented, NeverClaimsEmptyResult
<1>2. QED
  BY <1>1, Invariance, ShownInvariance, PTL

-----------------------------------------------------------------------------
(* Refinement: every step of the graph is a step of the abstract turn. *)

\* A turn starts open, with nothing drafted and nothing run.
LEMMA InitRefines == Init => Turn!Init
BY DEF Init, InitialState, Turn!Init

\* A step that leaves the counters, the result and the outcome alone stutters.
LEMMA QuietStutters ==
  KeepCounts /\ UNCHANGED outcome => UNCHANGED Turn!turnVars
BY DEF KeepCounts, Turn!turnVars

\* A planner's step is a draft within the budget of the abstract turn.
LEMMA PlanningRefines ==
  ASSUME IInv, At(Planning), UNCHANGED outcome,
         state'.planner_attempts = state.planner_attempts + 1,
         state'.executor_attempts = state.executor_attempts,
         state'.result = state.result
  PROVE  Turn!Draft
<1>1. outcome = "running" /\ state.result = 0
  BY DEF IInv, PhaseInv, At, Planning
<1>2. state.planner_attempts < MaxPlannerAttempts + MaxExecutorAttempts - 1
  BY BudgetAssumption DEF IInv, TypeOK, GraphState, BudgetInv
<1>3. QED
  BY <1>1, <1>2 DEF Turn!Draft

\* An executor's step is a run of a draft that was not run before.
LEMMA ExecutionRefines ==
  ASSUME IInv, At({"query_executor", "federated_executor"}), UNCHANGED outcome,
         state'.planner_attempts = state.planner_attempts,
         state'.executor_attempts = state.executor_attempts + 1
  PROVE  Turn!Execute
<1>1. outcome = "running" /\ state.result = 0
  BY DEF IInv, PhaseInv, At, Drafted
<1>2. /\ state.executor_attempts < MaxExecutorAttempts
      /\ state.executor_attempts < state.planner_attempts
  BY DEF IInv, BudgetInv, At, Drafted
<1>3. QED
  BY <1>1, <1>2 DEF Turn!Execute

\* The end of a turn, answered or not, closes the abstract turn.
LEMMA ClosingRefines ==
  ASSUME outcome = "running", outcome' \in {"finished", "raised"},
         state'.planner_attempts = state.planner_attempts,
         state'.executor_attempts = state.executor_attempts
  PROVE  Turn!Close
BY DEF Turn!Close

\* Only planners and executors count, and only finalizer and exceptions end.
LEMMA QuietNodes ==
  ASSUME IInv,
         \/ Coordinator \/ SchemaLoader \/ MultiSchemaLoader \/ RagRetriever
         \/ QueryValidator \/ ChartDesigner \/ AnswerWriter \/ ErrorResponder
  PROVE  UNCHANGED Turn!turnVars
<1>1. state \in GraphState
  BY DEF IInv, TypeOK
<1>2. CASE Coordinator
  BY <1>1, <1>2, QuietStutters DEF Coordinator, Run, KeepCounts, GraphState
<1>3. CASE SchemaLoader
  <2>1. PICK gone \in SUBSET Deletable :
          state' = LoadSchema(request.ready \ gone, request.profiled \ gone)
    BY <1>3 DEF SchemaLoader, Run
  <2>2. KeepCounts
    BY <1>1, <2>1 DEF LoadSchema, KeepCounts, GraphState
  <2>3. QED
    BY <1>3, <2>2, QuietStutters DEF SchemaLoader, Run
<1>4. CASE MultiSchemaLoader
  <2>1. PICK scanned, loaded : state' = LoadSchemas(scanned, loaded)
    BY <1>4 DEF MultiSchemaLoader, Run
  <2>2. KeepCounts
    BY <1>1, <2>1 DEF LoadSchemas, KeepCounts, GraphState
  <2>3. QED
    BY <1>4, <2>2, QuietStutters DEF MultiSchemaLoader, Run
<1>5. CASE RagRetriever
  BY <1>5, QuietStutters DEF RagRetriever, Run, KeepCounts
<1>6. CASE QueryValidator
  BY <1>1, <1>6, QuietStutters DEF QueryValidator, Run, KeepCounts, GraphState
<1>7. CASE ChartDesigner
  BY <1>1, <1>7, QuietStutters DEF ChartDesigner, Run, KeepCounts, GraphState
<1>8. CASE AnswerWriter
  BY <1>1, <1>8, QuietStutters DEF AnswerWriter, Run, KeepCounts, GraphState
<1>9. CASE ErrorResponder
  BY <1>1, <1>9, QuietStutters DEF ErrorResponder, Run, KeepCounts, GraphState
<1>10. QED
  BY <1>2, <1>3, <1>4, <1>5, <1>6, <1>7, <1>8, <1>9

\* Both planners draft.
LEMMA PlannersRefine ==
  ASSUME IInv, QueryPlanner \/ FederatedPlanner
  PROVE  Turn!Draft
<1>1. state \in GraphState
  BY DEF IInv, TypeOK
<1>2. CASE QueryPlanner
  <2>1. /\ "query_planner" \in frontier /\ UNCHANGED outcome
        /\ state'.planner_attempts = state.planner_attempts + 1
        /\ state'.executor_attempts = state.executor_attempts
        /\ state'.result = state.result
    BY <1>1, <1>2 DEF QueryPlanner, NoDraft, Run, GraphState
  <2>2. QED
    BY <2>1, PlanningRefines DEF At, Planning
<1>3. CASE FederatedPlanner
  <2>1. /\ "federated_planner" \in frontier /\ UNCHANGED outcome
        /\ state'.planner_attempts = state.planner_attempts + 1
        /\ state'.executor_attempts = state.executor_attempts
        /\ state'.result = state.result
    BY <1>1, <1>3 DEF FederatedPlanner, Run, GraphState
  <2>2. QED
    BY <2>1, PlanningRefines DEF At, Planning
<1>4. QED
  BY <1>2, <1>3

\* Both executors run.
LEMMA ExecutorsRefine ==
  ASSUME IInv, QueryExecutor \/ FederatedExecutor
  PROVE  Turn!Execute
<1>1. state \in GraphState
  BY DEF IInv, TypeOK
<1>2. CASE QueryExecutor
  <2>1. "query_executor" \in frontier
    BY <1>2 DEF QueryExecutor, Run
  <2>2. state.plan # 0 /\ state.validated # 0 /\ state.ok /\ state.conn # 0
    BY <2>1 DEF IInv, PlanInv, ExecutesValidatedPlan
  <2>3. /\ UNCHANGED outcome
        /\ state'.planner_attempts = state.planner_attempts
        /\ state'.executor_attempts = state.executor_attempts + 1
    BY <1>1, <1>2, <2>2 DEF QueryExecutor, Run, GraphState
  <2>4. QED
    BY <2>1, <2>3, ExecutionRefines DEF At
<1>3. CASE FederatedExecutor
  <2>1. /\ "federated_executor" \in frontier /\ UNCHANGED outcome
        /\ state'.planner_attempts = state.planner_attempts
        /\ state'.executor_attempts = state.executor_attempts + 1
    BY <1>1, <1>3 DEF FederatedExecutor, Run, GraphState
  <2>2. QED
    BY <2>1, ExecutionRefines DEF At
<1>4. QED
  BY <1>2, <1>3

\* finalizer and an exception close the turn.
LEMMA EndsRefine ==
  ASSUME IInv, Finalizer \/ NodeRaises
  PROVE  Turn!Close
<1>1. state \in GraphState /\ outcome = "running"
  BY DEF IInv, TypeOK, PhaseInv, Finalizer, NodeRaises, Fallible
<1>2. CASE Finalizer
  BY <1>1, <1>2, ClosingRefines DEF Finalizer, GraphState
<1>3. CASE NodeRaises
  BY <1>1, <1>3, ClosingRefines DEF NodeRaises
<1>4. QED
  BY <1>2, <1>3

\* The graph implements the safety part of the abstract turn: drafts and runs
\* stay within their budgets, each run follows a fresh draft, nothing happens
\* after a result, and the turn closes once.
THEOREM TurnRefinement == Spec => Turn!Spec
<1>1. IInv /\ [Next]_vars => [Turn!Next]_(Turn!turnVars)
  <2> SUFFICES ASSUME IInv, [Next]_vars PROVE [Turn!Next]_(Turn!turnVars)
    OBVIOUS
  <2>1. CASE Next
    BY <2>1, QuietNodes, PlannersRefine, ExecutorsRefine, EndsRefine
       DEF Next, Turn!Next
  <2>2. CASE UNCHANGED vars
    BY <2>2 DEF vars, Turn!turnVars
  <2>3. QED
    BY <2>1, <2>2
<1>2. QED
  BY <1>1, InitRefines, Invariance, PTL DEF Spec, Turn!Spec

-----------------------------------------------------------------------------
(* The cache that a query asks before its database *)

\* A turn that is about to store has a result.
StoringInv ==
  \A t \in Turns : turn[t].at = "storing" => turn[t].got \in Versions

\* An entry older than the scan of request q lies in the keys q scans, and q has
\* yet to delete it.
Marked(q, c, k) ==
  /\ scan[q].at # "idle"
  /\ scan[q].conn = c
  /\ outages = 0 => k \in scan[q].todo

MarkInv ==
  \A c \in Connections, k \in Keys : \A q \in cache[c][k].seen : Marked(q, c, k)

\* A request finishes when its list is empty.
DoneInv ==
  \A q \in Requests : scan[q].at = "finished" => scan[q].todo = {}

CacheIInv == CacheTypeOK /\ StoringInv /\ MarkInv /\ DoneInv

-----------------------------------------------------------------------------
(* Facts about entries *)

\* Every entry of the cache is one of these, and the absent one has no mark.
Slot == CacheEntry \cup {NoEntry}

LEMMA SlotFacts ==
  ASSUME NEW e \in Slot
  PROVE  /\ e.seen \in SUBSET Requests
         /\ e = NoEntry => e.seen = {}
BY DEF Slot, CacheEntry, NoEntry

\* Marking and unmarking an entry changes its marks only.
LEMMA SeenFacts ==
  ASSUME NEW e \in CacheEntry, NEW S \in SUBSET Requests
  PROVE  /\ [e EXCEPT !.seen = S] \in CacheEntry
         /\ [e EXCEPT !.seen = S].seen = S
BY DEF CacheEntry

LEMMA UnmarkFacts ==
  ASSUME NEW e \in Slot, NEW q \in Requests
  PROVE  /\ [e EXCEPT !.seen = @ \ {q}] \in Slot
         /\ [e EXCEPT !.seen = @ \ {q}].seen = e.seen \ {q}
<1>1. CASE e \in CacheEntry
  BY <1>1 DEF Slot, CacheEntry
<1>2. CASE e = NoEntry
  BY <1>2 DEF Slot, NoEntry
<1>3. QED BY <1>1, <1>2 DEF Slot

\* Writing one slot leaves the others.
LEMMA WriteFacts ==
  ASSUME NEW f \in [Connections -> [Keys -> Slot]],
         NEW c \in Connections, NEW k \in Keys, NEW e \in Slot,
         NEW g, g = [f EXCEPT ![c][k] = e]
  PROVE  /\ g \in [Connections -> [Keys -> Slot]]
         /\ g[c][k] = e
         /\ \A d \in Connections, j \in Keys : d # c \/ j # k => g[d][j] = f[d][j]
OBVIOUS

\* An entry that ages keeps its marks or goes.
LEMMA AgeFacts ==
  ASSUME NEW e \in Slot
  PROVE  Age(e) \in Slot /\ Age(e).seen \subseteq e.seen
<1>1. CASE e \in CacheEntry
  BY <1>1, CacheAssumption DEF Slot, Age, CacheEntry, NoEntry
<1>2. CASE e = NoEntry
  BY <1>2 DEF Slot, Age, NoEntry
<1>3. QED BY <1>1, <1>2 DEF Slot

-----------------------------------------------------------------------------
(* The initial state *)

\* The empty cache satisfies CacheIInv.
LEMMA InitCacheIInv == CacheInit => CacheIInv
<1> SUFFICES ASSUME CacheInit PROVE CacheIInv
  OBVIOUS
<1>1. /\ AnyConnection \in Connections
      /\ (CHOOSE k \in Keys : TRUE) \in Keys
  BY CacheAssumption DEF AnyConnection
<1>2. CacheTypeOK
  BY <1>1, CacheAssumption
  DEF CacheInit, CacheTypeOK, Versions, Turns, Requests, NoTurn, NoRequest, NoEntry
<1>3. StoringInv
  BY DEF CacheInit, StoringInv, NoTurn
<1>4. MarkInv
  BY DEF CacheInit, MarkInv, NoEntry
<1>5. DoneInv
  BY DEF CacheInit, DoneInv, NoRequest
<1>6. QED BY <1>2, <1>3, <1>4, <1>5 DEF CacheIInv

-----------------------------------------------------------------------------
(* Turns *)

TurnRecord == [at : {"idle", "lookup", "loading", "querying", "storing"},
               conn : Connections, key : Keys, got : 0 .. MaxVersion]

\* A turn that ends leaves a slot that satisfies every invariant.
LEMMA EndsFacts ==
  ASSUME CacheIInv, NEW t \in Turns, Ends(t), UNCHANGED version
  PROVE  /\ turn' \in [Turns -> TurnRecord]
         /\ \A u \in Turns : turn'[u].got <= version'[turn'[u].conn]
         /\ StoringInv'
<1> USE DEF CacheIInv
<1>1. NoTurn \in TurnRecord /\ NoTurn.at = "idle" /\ NoTurn.got = 0
  BY CacheAssumption DEF NoTurn, AnyConnection, TurnRecord
<1>2. turn \in [Turns -> TurnRecord]
  BY DEF CacheTypeOK, TurnRecord
<1>3. /\ turn'[t] = NoTurn
      /\ \A u \in Turns \ {t} : turn'[u] = turn[u]
      /\ turn' \in [Turns -> TurnRecord]
  BY <1>1, <1>2 DEF Ends
<1>4. \A u \in Turns : turn'[u].got <= version'[turn'[u].conn]
  <2> SUFFICES ASSUME NEW u \in Turns PROVE turn'[u].got <= version[turn'[u].conn]
    OBVIOUS
  <2>1. CASE u = t
    <3>1. version[NoTurn.conn] \in Versions
      BY <1>1 DEF CacheTypeOK, TurnRecord
    <3>2. QED BY <2>1, <3>1, <1>1, <1>3 DEF Versions
  <2>2. CASE u # t
    BY <2>2, <1>3 DEF CacheTypeOK
  <2>3. QED BY <2>1, <2>2
<1>5. StoringInv'
  <2> SUFFICES ASSUME NEW u \in Turns, turn'[u].at = "storing"
               PROVE  turn'[u].got \in Versions
    BY DEF StoringInv, Versions
  <2>1. u # t
    BY <1>1, <1>3
  <2>2. QED BY <2>1, <1>3 DEF StoringInv
<1>6. QED BY <1>3, <1>4, <1>5

\* A turn that reads, begins or ends leaves the entries and the requests alone.
LEMMA TurnSteps ==
  ASSUME CacheIInv, NEW t \in Turns,
         Hit(t) \/ Miss(t) \/ LoadConnection(t) \/ Query(t)
           \/ \E c \in Connections, k \in Keys : BeginTurn(t, c, k)
  PROVE  CacheIInv'
<1> USE DEF CacheIInv
<1>1. UNCHANGED <<cache, scan>>
  BY DEF Hit, Miss, LoadConnection, Query, BeginTurn
<1>2. outages' \in 0 .. Outages /\ (outages' = 0 => outages = 0)
  BY CacheAssumption
  DEF Hit, Miss, LoadConnection, Query, BeginTurn, RedisFails, CacheTypeOK
<1>4. CacheTypeOK' /\ StoringInv'
  <2>1. CASE Hit(t)
    BY <2>1, <1>1, <1>2, EndsFacts DEF Hit, CacheTypeOK, TurnRecord
  <2>2. CASE Miss(t)
    BY <2>2, <1>1, <1>2, CacheAssumption, SMTT(30) DEF Miss, Moves, CacheTypeOK, StoringInv, Versions
  <2>3. CASE LoadConnection(t)
    <3>1. CASE Ends(t)
      BY <2>3, <3>1, <1>1, <1>2, EndsFacts DEF LoadConnection, CacheTypeOK, TurnRecord
    <3>2. CASE Moves(t, "querying")
      BY <2>3, <3>2, <1>1, <1>2, CacheAssumption
      DEF LoadConnection, Moves, CacheTypeOK, StoringInv, Versions
    <3>3. QED BY <2>3, <3>1, <3>2 DEF LoadConnection
  <2>4. CASE Query(t)
    <3>1. CASE Ends(t)
      BY <2>4, <3>1, <1>1, <1>2, EndsFacts DEF Query, CacheTypeOK, TurnRecord
    <3>2. CASE turn' = [turn EXCEPT ![t].at = "storing", ![t].got = version[turn[t].conn]]
      <4>1. turn[t] \in TurnRecord /\ version[turn[t].conn] \in Versions
        BY DEF CacheTypeOK, TurnRecord
      <4>2. /\ turn'[t] \in TurnRecord
            /\ turn'[t].conn = turn[t].conn /\ turn'[t].got = version[turn[t].conn]
            /\ \A u \in Turns \ {t} : turn'[u] = turn[u]
        <5>1. turn'[t] = [turn[t] EXCEPT !.at = "storing", !.got = version[turn[t].conn]]
          BY <3>2 DEF CacheTypeOK
        <5>2. version[turn[t].conn] \in 0 .. MaxVersion
          BY <4>1, CacheAssumption DEF Versions
        <5>3. \A u \in Turns \ {t} : turn'[u] = turn[u]
          BY <3>2 DEF CacheTypeOK
        <5>4. QED BY <4>1, <5>1, <5>2, <5>3 DEF TurnRecord
      <4>3. turn' \in [Turns -> TurnRecord]
        BY <3>2, <4>2 DEF CacheTypeOK, TurnRecord
      <4>4. version' = version /\ live' = live
        BY <2>4 DEF Query
      <4>5. \A u \in Turns : turn'[u].got <= version'[turn'[u].conn]
        <5>1. turn'[t].got <= version[turn'[t].conn]
          BY <4>1, <4>2, CacheAssumption DEF Versions
        <5>2. \A u \in Turns \ {t} : turn'[u].got <= version[turn'[u].conn]
          BY <4>2 DEF CacheTypeOK
        <5>3. QED BY <5>1, <5>2, <4>4
      <4>6. StoringInv'
        BY <4>1, <4>2, <4>4 DEF StoringInv, Versions
      <4>7. QED BY <4>3, <4>4, <4>5, <4>6, <1>1, <1>2 DEF CacheTypeOK, TurnRecord
    <3>3. QED BY <2>4, <3>1, <3>2 DEF Query
  <2>5. ASSUME NEW c \in Connections, NEW k \in Keys, BeginTurn(t, c, k)
        PROVE  CacheTypeOK' /\ StoringInv'
    BY <2>5, <1>1, <1>2, CacheAssumption DEF BeginTurn, CacheTypeOK, StoringInv, Versions
  <2>6. QED BY <2>1, <2>2, <2>3, <2>4, <2>5
<1>5. MarkInv'
  BY <1>1, <1>2 DEF MarkInv, Marked
<1>6. DoneInv'
  BY <1>1 DEF DoneInv
<1>7. QED BY <1>4, <1>5, <1>6

\* A result that is stored has no marks: no scan has to delete it.
LEMMA StoreStep ==
  ASSUME CacheIInv, NEW t \in Turns, Store(t)
  PROVE  CacheIInv'
<1> USE DEF CacheIInv
<1>1. /\ UNCHANGED <<live, version, scan>>
      /\ outages' \in 0 .. Outages /\ (outages' = 0 => outages = 0)
  BY CacheAssumption DEF Store, RedisFails, CacheTypeOK
<1>2. Stored(t) \in CacheEntry /\ Stored(t).seen = {}
  BY CacheAssumption DEF Store, Stored, CacheEntry, StoringInv
<1>3. /\ cache' \in [Connections -> [Keys -> Slot]]
      /\ \A c \in Connections, k \in Keys : cache'[c][k].seen \subseteq cache[c][k].seen
  <2>1. /\ cache \in [Connections -> [Keys -> Slot]]
        /\ turn[t].conn \in Connections /\ turn[t].key \in Keys
    BY DEF CacheTypeOK, Slot
  <2>2. CASE cache' = [cache EXCEPT ![turn[t].conn][turn[t].key] = Stored(t)]
    BY <2>1, <2>2, <1>2, WriteFacts DEF Slot
  <2>3. CASE UNCHANGED cache
    BY <2>1, <2>3
  <2>4. QED BY <2>2, <2>3 DEF Store
<1>4. CacheTypeOK' /\ StoringInv'
  BY <1>1, <1>3, EndsFacts DEF Store, CacheTypeOK, TurnRecord, Slot
<1>5. MarkInv'
  BY <1>1, <1>3 DEF MarkInv, Marked
<1>6. DoneInv'
  BY <1>1 DEF DoneInv
<1>7. QED BY <1>4, <1>5, <1>6

-----------------------------------------------------------------------------
(* Invalidations *)

\* A scan marks what it finds and lists it; no mark of its number is left before.
LEMMA BeginScanStep ==
  ASSUME CacheIInv, NEW q \in Requests, NEW c \in Connections, BeginScan(q, c),
         live' \subseteq Connections, UNCHANGED <<version, turn, outages>>
  PROVE  CacheIInv'
<1> USE DEF CacheIInv
<1> DEFINE Marks == [k \in Keys |-> IF Cached(c, k)
                      THEN [cache[c][k] EXCEPT !.seen = @ \cup {q}] ELSE NoEntry]
<1>0. /\ cache' = [cache EXCEPT ![c] = Marks]
      /\ scan[q].at = "idle"
      /\ cache \in [Connections -> [Keys -> Slot]]
  <2>1. cache' = [cache EXCEPT ![c] = Marks]
    BY DEF BeginScan
  <2>2. scan[q].at = "idle" /\ cache \in [Connections -> [Keys -> Slot]]
    BY DEF BeginScan, CacheTypeOK, Slot
  <2>3. QED BY <2>1, <2>2
<1>1. ASSUME NEW k \in Keys
      PROVE  /\ cache'[c][k] \in Slot
             /\ cache'[c][k].seen \subseteq cache[c][k].seen \cup {q}
             /\ q \in cache'[c][k].seen => Cached(c, k)
  <2>1. cache[c][k] \in Slot
    BY DEF CacheTypeOK, Slot
  <2>2. q \notin cache[c][k].seen
    BY <1>0 DEF MarkInv, Marked
  <2>3. cache'[c][k] = IF Cached(c, k)
                       THEN [cache[c][k] EXCEPT !.seen = @ \cup {q}] ELSE NoEntry
    BY <1>0
  <2>4. CASE Cached(c, k)
    <3>1. cache[c][k] \in CacheEntry /\ cache[c][k].seen \cup {q} \in SUBSET Requests
      BY <2>1, <2>4, SlotFacts DEF Slot, Cached
    <3>2. QED BY <3>1, <2>3, <2>4, SeenFacts DEF Slot
  <2>5. CASE ~Cached(c, k)
    BY <2>3, <2>5 DEF Slot, NoEntry
  <2>6. QED BY <2>4, <2>5
<1>2. ASSUME NEW d \in Connections, d # c
      PROVE  cache'[d] = cache[d]
  BY <1>0, <1>2
<1>3. cache' \in [Connections -> [Keys -> Slot]]
  <2>1. Marks \in [Keys -> Slot]
    BY <1>0, <1>1
  <2>2. QED BY <2>1, <1>0
<1>4. /\ scan' \in [Requests -> [at : {"idle", "scanning", "finished"},
                                    conn : Connections, todo : SUBSET Keys,
                                    floor : 0 .. MaxVersion]]
      /\ scan'[q].at = "scanning" /\ scan'[q].conn = c
      /\ scan'[q].todo = {k \in Keys : Cached(c, k)}
      /\ \A r \in Requests \ {q} : scan'[r] = scan[r]
  BY CacheAssumption DEF BeginScan, CacheTypeOK, Versions
<1>5. CacheTypeOK'
  BY <1>3, <1>4 DEF CacheTypeOK, Slot
<1>6. StoringInv'
  BY DEF StoringInv
<1>7. MarkInv'
  <2> SUFFICES ASSUME NEW d \in Connections, NEW k \in Keys, NEW r \in cache'[d][k].seen
               PROVE  Marked(r, d, k)'
    BY DEF MarkInv
  <2>1. r \in Requests
    BY <1>3, SlotFacts
  <2>2. CASE r = q /\ d = c
    BY <2>2, <1>1, <1>4 DEF Marked
  <2>3. CASE r # q
    <3>1. r \in cache[d][k].seen
      BY <2>3, <1>1, <1>2
    <3>2. QED BY <3>1, <2>1, <2>3, <1>4 DEF MarkInv, Marked
  <2>4. CASE r = q /\ d # c
    <3>1. q \in cache[d][k].seen
      BY <2>4, <1>2
    <3>2. QED BY <3>1, <1>0 DEF MarkInv, Marked
  <2>5. QED BY <2>2, <2>3, <2>4
<1>8. DoneInv'
  BY <1>4 DEF DoneInv
<1>9. QED BY <1>5, <1>6, <1>7, <1>8

\* A key that leaves the list has left the cache, unless Redis has failed.
LEMMA KeySteps ==
  ASSUME CacheIInv, NEW q \in Requests, NEW k \in Keys, DeleteKey(q, k) \/ SkipKey(q, k)
  PROVE  CacheIInv'
<1> USE DEF CacheIInv
<1>1. /\ UNCHANGED <<live, version, turn>>
      /\ outages' \in 0 .. Outages /\ (outages' = 0 => outages = 0 /\ DeleteKey(q, k))
  BY CacheAssumption DEF DeleteKey, SkipKey, RedisFails, CacheTypeOK
<1>2. /\ scan' \in [Requests -> [at : {"idle", "scanning", "finished"},
                                    conn : Connections, todo : SUBSET Keys,
                                    floor : 0 .. MaxVersion]]
      /\ scan'[q] = [scan[q] EXCEPT !.todo = @ \ {k}]
      /\ scan[q].at = "scanning"
      /\ \A r \in Requests \ {q} : scan'[r] = scan[r]
  <2>1. /\ scan' = [scan EXCEPT ![q].todo = @ \ {k}]
        /\ scan[q].at = "scanning"
    BY DEF DeleteKey, SkipKey
  <2>2. QED BY <2>1, SMTT(30) DEF CacheTypeOK
<1>3. /\ cache' \in [Connections -> [Keys -> Slot]]
      /\ \A d \in Connections, j \in Keys : cache'[d][j].seen \subseteq cache[d][j].seen
      /\ DeleteKey(q, k) => cache'[scan[q].conn][k].seen = {}
  <2>1. /\ cache \in [Connections -> [Keys -> Slot]] /\ scan[q].conn \in Connections
        /\ NoEntry \in Slot /\ NoEntry.seen = {}
    BY DEF CacheTypeOK, Slot, NoEntry
  <2>2. CASE DeleteKey(q, k)
    <3>1. cache' = [cache EXCEPT ![scan[q].conn][k] = NoEntry]
      BY <2>2 DEF DeleteKey
    <3>2. QED BY <3>1, <2>1, WriteFacts
  <2>3. CASE SkipKey(q, k) /\ ~DeleteKey(q, k)
    BY <2>1, <2>3 DEF SkipKey
  <2>4. QED BY <2>2, <2>3
<1>4. CacheTypeOK'
  BY <1>1, <1>2, <1>3 DEF CacheTypeOK, Slot
<1>5. StoringInv'
  BY <1>1 DEF StoringInv
<1>6. MarkInv'
  <2> SUFFICES ASSUME NEW d \in Connections, NEW j \in Keys, NEW r \in cache'[d][j].seen
               PROVE  Marked(r, d, j)'
    BY DEF MarkInv
  <2>1. Marked(r, d, j)
    BY <1>3 DEF MarkInv
  <2>2. r \in Requests
    BY <1>3, SlotFacts DEF Slot
  <2>3. CASE r # q
    BY <2>1, <2>2, <2>3, <1>1, <1>2 DEF Marked
  <2>4. CASE r = q
    <3>1. scan'[q].at = scan[q].at /\ scan'[q].conn = scan[q].conn
          /\ scan'[q].todo = scan[q].todo \ {k}
      BY <1>2 DEF CacheTypeOK
    <3>2. outages' = 0 => j # k
      BY <2>1, <2>4, <1>1, <1>3 DEF Marked
    <3>3. QED BY <3>1, <3>2, <2>1, <2>4, <1>1 DEF Marked
  <2>5. QED BY <2>3, <2>4
<1>7. DoneInv'
  <2>1. scan'[q].at = "scanning"
    BY <1>2 DEF CacheTypeOK
  <2>2. QED BY <2>1, <1>2 DEF DoneInv
<1>8. QED BY <1>4, <1>5, <1>6, <1>7

LEMMA EndScanStep ==
  ASSUME CacheIInv, NEW q \in Requests, EndScan(q)
  PROVE  CacheIInv'
<1> USE DEF CacheIInv
<1>1. CacheTypeOK' /\ StoringInv' /\ DoneInv'
  BY DEF EndScan, CacheTypeOK, StoringInv, DoneInv
<1>2. \A r \in Requests : /\ scan'[r].conn = scan[r].conn
                          /\ scan'[r].todo = scan[r].todo
                          /\ scan[r].at # "idle" => scan'[r].at # "idle"
  BY DEF EndScan, CacheTypeOK
<1>3. \A c \in Connections, k \in Keys : cache[c][k].seen \subseteq Requests
  BY SlotFacts DEF CacheTypeOK, Slot
<1>4. MarkInv'
  BY <1>2, <1>3 DEF EndScan, MarkInv, Marked
<1>5. QED BY <1>1, <1>4

\* A request that ends, or fails, takes its marks with it.
LEMMA UnmarkSteps ==
  ASSUME CacheIInv, NEW q \in Requests, Respond(q) \/ ScanFails(q)
  PROVE  CacheIInv'
<1> USE DEF CacheIInv
<1>1. /\ UNCHANGED <<live, version, turn>>
      /\ outages' \in 0 .. Outages /\ (outages' = 0 => outages = 0)
      /\ scan' = [scan EXCEPT ![q] = NoRequest]
      /\ cache' = Unmark(q)
  BY CacheAssumption DEF Respond, ScanFails, RedisFails, CacheTypeOK
<1>2. \A c \in Connections, k \in Keys :
        /\ cache'[c][k] \in Slot
        /\ cache'[c][k].seen = cache[c][k].seen \ {q}
  <2>1. cache \in [Connections -> [Keys -> Slot]]
    BY DEF CacheTypeOK, Slot
  <2>2. \A c \in Connections, k \in Keys :
          cache'[c][k] = [cache[c][k] EXCEPT !.seen = @ \ {q}]
    BY <1>1 DEF Unmark
  <2>3. SUFFICES ASSUME NEW c \in Connections, NEW k \in Keys
                 PROVE  /\ cache'[c][k] \in Slot
                        /\ cache'[c][k].seen = cache[c][k].seen \ {q}
    OBVIOUS
  <2>4. cache[c][k] \in Slot
    BY <2>1
  <2>5. QED BY <2>2, <2>4, UnmarkFacts
<1>3. cache' \in [Connections -> [Keys -> Slot]]
  BY <1>1, <1>2 DEF Unmark
<1>4. NoRequest \in [at : {"idle"}, conn : Connections, todo : {{}}, floor : {0}]
  BY CacheAssumption DEF NoRequest, AnyConnection
<1>5. /\ scan' \in [Requests -> [at : {"idle", "scanning", "finished"},
                                    conn : Connections, todo : SUBSET Keys,
                                    floor : 0 .. MaxVersion]]
      /\ DoneInv'
  BY <1>1, <1>4, CacheAssumption DEF CacheTypeOK, DoneInv
<1>6. CacheTypeOK'
  BY <1>1, <1>3, <1>5 DEF CacheTypeOK, Slot
<1>7. StoringInv'
  BY <1>1 DEF StoringInv
<1>8. MarkInv'
  <2> SUFFICES ASSUME NEW c \in Connections, NEW k \in Keys, NEW r \in cache'[c][k].seen
               PROVE  Marked(r, c, k)'
    BY DEF MarkInv
  <2>1. r \in cache[c][k].seen /\ r # q
    BY <1>2
  <2>2. r \in Requests
    BY <2>1, SlotFacts DEF CacheTypeOK, Slot
  <2>3. scan'[r] = scan[r]
    BY <2>1, <2>2, <1>1 DEF CacheTypeOK
  <2>4. QED BY <2>1, <2>3, <1>1 DEF MarkInv, Marked
<1>9. QED BY <1>5, <1>6, <1>7, <1>8

-----------------------------------------------------------------------------
(* The environment *)

LEMMA EnvironmentSteps ==
  ASSUME CacheIInv, Time \/ \E c \in Connections : DatabaseChanges(c)
  PROVE  CacheIInv'
<1> USE DEF CacheIInv
<1>1. CASE Time
  <2>1. \A c \in Connections, k \in Keys :
          cache'[c][k] \in Slot /\ cache'[c][k].seen \subseteq cache[c][k].seen
    BY <1>1, AgeFacts DEF Time, CacheTypeOK, Slot
  <2>2. cache' \in [Connections -> [Keys -> Slot]]
    BY <1>1, <2>1 DEF Time
  <2>3. CacheTypeOK' /\ StoringInv' /\ DoneInv'
    BY <1>1, <2>2 DEF Time, CacheTypeOK, StoringInv, DoneInv, Slot
  <2>4. MarkInv'
    BY <1>1, <2>1 DEF Time, MarkInv, Marked
  <2>5. QED BY <2>3, <2>4
<1>2. ASSUME NEW c \in Connections, DatabaseChanges(c)
      PROVE  CacheIInv'
  <2>1. /\ version' \in [Connections -> Versions]
        /\ \A d \in Connections : version[d] <= version'[d]
    BY <1>2, CacheAssumption DEF DatabaseChanges, CacheTypeOK, Versions
  <2>2. \A t \in Turns : turn'[t].got <= version'[turn'[t].conn]
    BY <1>2, <2>1, CacheAssumption DEF DatabaseChanges, CacheTypeOK, Versions
  <2>3. CacheTypeOK'
    BY <1>2, <2>1, <2>2 DEF DatabaseChanges, CacheTypeOK
  <2>4. StoringInv' /\ MarkInv' /\ DoneInv'
    BY <1>2 DEF DatabaseChanges, StoringInv, MarkInv, Marked, DoneInv
  <2>5. QED BY <2>3, <2>4
<1>3. QED BY <1>1, <1>2

-----------------------------------------------------------------------------
(* The invariant and what follows from it *)

LEMMA StepIInv ==
  ASSUME CacheIInv, CacheNext
  PROVE  CacheIInv'
<1>1. CASE \E t \in Turns : TurnStep(t) \/ \E c \in Connections, k \in Keys : BeginTurn(t, c, k)
  BY <1>1, TurnSteps, StoreStep DEF TurnStep
<1>2. ASSUME NEW q \in Requests, NEW c \in Connections, Refresh(q, c) \/ Delete(q, c)
      PROVE  CacheIInv'
  <2>1. /\ BeginScan(q, c) /\ UNCHANGED <<version, turn, outages>>
        /\ live' \subseteq Connections
    BY <1>2 DEF Refresh, Delete, CacheIInv, CacheTypeOK
  <2>2. QED BY <2>1, BeginScanStep
<1>3. CASE \E q \in Requests : ScanStep(q) \/ ScanFails(q) \/ \E k \in Keys : SkipKey(q, k)
  BY <1>3, KeySteps, EndScanStep, UnmarkSteps DEF ScanStep
<1>4. CASE Time \/ \E c \in Connections : DatabaseChanges(c)
  BY <1>4, EnvironmentSteps
<1>5. QED BY <1>1, <1>2, <1>3, <1>4 DEF CacheNext

LEMMA StutterIInv ==
  ASSUME CacheIInv, UNCHANGED cacheVars
  PROVE  CacheIInv'
BY DEF CacheIInv, CacheTypeOK, StoringInv, MarkInv, Marked, DoneInv, cacheVars

THEOREM CacheInvariance == CacheSpec => []CacheIInv
<1>1. CacheInit => CacheIInv
  BY InitCacheIInv
<1>2. CacheIInv /\ [CacheNext]_cacheVars => CacheIInv'
  BY StepIInv, StutterIInv
<1>3. QED BY <1>1, <1>2, PTL DEF CacheSpec

\* query_cache.py:153-178: however many turns store and requests scan at once, an
\* invalidation that finishes has removed every entry it began with, unless a call
\* to Redis failed; and no entry outlives the time to live.
THEOREM InvalidationsAreComplete == CacheSpec => []CacheSound
<1>1. CacheIInv => CacheSound
  <2> SUFFICES ASSUME CacheIInv PROVE CacheSound
    OBVIOUS
  <2>1. InvalidationComplete
    <3> SUFFICES ASSUME NEW q \in Requests, scan[q].at = "finished", outages = 0,
                        NEW k \in Keys
                 PROVE  q \notin cache[scan[q].conn][k].seen
      BY DEF InvalidationComplete
    <3>1. scan[q].todo = {} /\ scan[q].conn \in Connections
      BY DEF CacheIInv, DoneInv, CacheTypeOK
    <3>2. QED BY <3>1 DEF CacheIInv, MarkInv, Marked
  <2>2. QED BY <2>1 DEF CacheIInv, CacheSound
<1>2. QED BY <1>1, CacheInvariance, PTL

-----------------------------------------------------------------------------
(* Bags *)

\* A bag of values and how often it has each.
LEMMA BagFacts ==
  ASSUME NEW f
  PROVE  /\ DOMAIN BagOf(f) = ToSet(f)
         /\ \A v \in ToSet(f) : BagOf(f)[v] = Cardinality({i \in DOMAIN f : f[i] = v})
         /\ BagOf(f) = [v \in ToSet(f) |-> BagOf(f)[v]]
BY DEF BagOf

\* Functions with the same values, each as often, have one bag.
LEMMA SameBag ==
  ASSUME NEW f, NEW g, IsFiniteSet(DOMAIN f), Rearranged(f, g)
  PROVE  BagOf(f) = BagOf(g)
<1>1. PICK p \in [DOMAIN f -> DOMAIN g] :
        /\ \A x \in DOMAIN f : f[x] = g[p[x]]
        /\ \A y \in DOMAIN g : \E x \in DOMAIN f : p[x] = y
        /\ \A x, y \in DOMAIN f : p[x] = p[y] => x = y
  BY DEF Rearranged
<1>2. ToSet(f) = ToSet(g)
  BY <1>1 DEF ToSet
<1>3. ASSUME NEW v  PROVE Cardinality({i \in DOMAIN f : f[i] = v}) = Cardinality({i \in DOMAIN g : g[i] = v})
  <2> DEFINE I == {i \in DOMAIN f : f[i] = v}
             J == {i \in DOMAIN g : g[i] = v}
             h == [i \in I |-> p[i]]
  <2>1. h \in [I -> J] /\ \A x, y \in I : h[x] = h[y] => x = y
    BY <1>1
  <2>2. \A y \in J : \E x \in I : h[x] = y
    BY <1>1
  <2>3. IsFiniteSet(I)
    BY FS_Subset, Zenon
  <2> HIDE DEF h, I, J
  <2>4. h \in Bijection(I, J)
    BY <2>1, <2>2 DEF Bijection, Injection, Surjection, IsInjective
  <2>5. ExistsBijection(I, J)
    BY <2>4 DEF ExistsBijection
  <2>6. Cardinality(J) = Cardinality(I)
    BY <2>3, <2>5, FS_Bijection, Zenon
  <2>q. QED  BY <2>6 DEF I, J
<1>q. QED  BY <1>2, <1>3 DEF BagOf

\* The bag of what is pairwise different is that of a set.
LEMMA BagOfSet ==
  ASSUME NEW f, \A i, j \in DOMAIN f : f[i] = f[j] => i = j
  PROVE  BagOf(f) = SetToBag(ToSet(f))
<1>1. ASSUME NEW v \in ToSet(f)  PROVE Cardinality({i \in DOMAIN f : f[i] = v}) = 1
  <2>1. PICK i \in DOMAIN f : f[i] = v
    BY DEF ToSet
  <2>2. {j \in DOMAIN f : f[j] = v} = {i}
    BY <2>1
  <2>3. Cardinality({i}) = 1
    BY FS_Singleton, Zenon
  <2>q. QED  BY <2>2, <2>3
<1>q. QED  BY <1>1 DEF BagOf, SetToBag

\* The bag of a part is a part of the bag.
LEMMA BagOfPart ==
  ASSUME NEW f, IsFiniteSet(DOMAIN f), NEW g, DOMAIN g \subseteq DOMAIN f,
         \A i \in DOMAIN g : g[i] = f[i]
  PROVE  BagOf(g) \sqsubseteq BagOf(f)
<1>1. ToSet(g) \subseteq ToSet(f)
  BY DEF ToSet
<1>2. ASSUME NEW v \in ToSet(g)
      PROVE  Cardinality({i \in DOMAIN g : g[i] = v}) <= Cardinality({i \in DOMAIN f : f[i] = v})
  <2> DEFINE I == {i \in DOMAIN f : f[i] = v}
             J == {i \in DOMAIN g : g[i] = v}
  <2>1. J \in SUBSET I /\ I \in SUBSET DOMAIN f
    OBVIOUS
  <2> HIDE DEF I, J
  <2>2. Cardinality(J) <= Cardinality(I)
    BY <2>1, FS_Subset, Zenon
  <2>q. QED  BY <2>2 DEF I, J
<1> DEFINE b == BagOf(f)
           a == BagOf(g)
<1>3. /\ DOMAIN b = ToSet(f) /\ DOMAIN a = ToSet(g)
      /\ \A v \in ToSet(f) : b[v] = Cardinality({i \in DOMAIN f : f[i] = v})
      /\ \A v \in ToSet(g) : a[v] = Cardinality({i \in DOMAIN g : g[i] = v})
  BY BagFacts, Zenon
<1> HIDE DEF a, b
<1>4. DOMAIN a \subseteq DOMAIN b /\ \A e \in DOMAIN a : a[e] <= b[e]
  BY <1>1, <1>2, <1>3
<1>5. a \sqsubseteq b
  BY <1>4 DEF \sqsubseteq
<1>q. QED  BY <1>5 DEF a, b

\* A bag has as many elements as there were.
LEMMA SumOfBag ==
  ASSUME NEW f, IsFiniteSet(DOMAIN f)
  PROVE  SumFunction(BagOf(f)) = Cardinality(DOMAIN f)
<1> DEFINE D == DOMAIN f
           b == BagOf(f)
           In(s) == {i \in D : f[i] \in s}
<1>1. /\ DOMAIN b = ToSet(f)
      /\ \A v \in ToSet(f) : b[v] = Cardinality({i \in D : f[i] = v})
  BY BagFacts, Zenon
<1>2. IsFiniteSet(D) /\ \A s \in SUBSET D : IsFiniteSet(s) /\ Cardinality(s) \in Nat
  BY FS_Subset, FS_CardinalityType, Zenon
<1>3. IsFiniteSet(ToSet(f))
  <2> DEFINE h == [i \in D |-> f[i]]
  <2>1. h \in [D -> ToSet(f)] /\ \A v \in ToSet(f) : \E i \in D : h[i] = v
    BY DEF ToSet
  <2> HIDE DEF h, D
  <2>2. h \in Surjection(D, ToSet(f))
    BY <2>1 DEF Surjection
  <2>q. QED  BY <1>2, <2>2, FS_Surjection, Zenon
<1>4. \A v \in DOMAIN b : b[v] \in Nat
  <2>1. \A v : {i \in D : f[i] = v} \in SUBSET D
    OBVIOUS
  <2> HIDE DEF b, D
  <2>q. QED  BY <1>1, <1>2, <2>1
<1> HIDE DEF b
<1>5. PICK sum : Adds(sum, b) /\ SumFunction(b) = sum[DOMAIN b]
  BY <1>1, <1>3, <1>4, SumFacts, Zenon
<1> DEFINE W == {s \in SUBSET ToSet(f) : sum[s] # Cardinality(In(s))}
<1>6. W = {}
  <2>1. SUFFICES ASSUME W # {}  PROVE FALSE
    OBVIOUS
  <2>2. PICK s \in W : \A x \in s : s \ {x} \notin W
    <3>1. W \in SUBSET SUBSET ToSet(f)
      OBVIOUS
    <3> HIDE DEF W
    <3>q. QED  BY <1>3, <2>1, <3>1, LeastSet, Zenon
  <2>3. s \in SUBSET ToSet(f) /\ sum[s] # Cardinality(In(s))
    OBVIOUS
  <2>4. s # {}
    <3>1. ASSUME s = {}  PROVE FALSE
      <4>1. In(s) = {} /\ sum[s] = 0
        BY <1>5, <3>1 DEF Adds
      <4>2. Cardinality({}) = 0
        BY FS_EmptySet, Zenon
      <4> HIDE DEF In
      <4>q. QED  BY <2>3, <4>1, <4>2
    <3>q. QED  BY <3>1
  <2>5. PICK x \in s : TRUE
    BY <2>4
  <2>6. s \ {x} \in SUBSET ToSet(f) /\ sum[s \ {x}] = Cardinality(In(s \ {x}))
    BY <2>2, <2>3
  <2>7. sum[s] = b[x] + sum[s \ {x}]
    BY <1>1, <1>5, <2>3 DEF Adds
  <2> DEFINE A == {i \in D : f[i] = x}
             B == In(s \ {x})
  <2>8. In(s) = A \cup B /\ A \cap B = {} /\ A \in SUBSET D /\ B \in SUBSET D
    OBVIOUS
  <2>9. b[x] = Cardinality(A)
    BY <1>1, <2>3
  <2> HIDE DEF A, B, In, D, W
  <2>10. IsFiniteSet(A) /\ IsFiniteSet(B) /\ Cardinality(A) \in Nat /\ Cardinality(B) \in Nat
    BY <1>2, <2>8
  <2>11. Cardinality(A \cup B) = Cardinality(A) + Cardinality(B) - Cardinality(A \cap B)
    BY <2>10, FS_Union, Zenon
  <2>12. Cardinality({}) = 0
    BY FS_EmptySet, Zenon
  <2>13. sum[s \ {x}] = Cardinality(B)
    BY <2>6 DEF B
  <2>14. Cardinality(A \cap B) = 0
    BY <2>8, <2>12, Zenon
  <2>15. Cardinality(In(s)) = Cardinality(A \cup B)
    BY <2>8, Zenon
  <2>q. QED  BY <2>3, <2>7, <2>9, <2>10, <2>11, <2>13, <2>14, <2>15
<1>7. sum[ToSet(f)] = Cardinality(In(ToSet(f)))
  BY <1>6
<1>8. In(ToSet(f)) = DOMAIN f
  BY DEF ToSet
<1> HIDE DEF In, W
<1>q. QED  BY <1>1, <1>5, <1>7, <1>8 DEF b

\* The bag of two sequences.
LEMMA BagOfBoth ==
  ASSUME NEW f, NEW g, IsSeq(f), IsSeq(g)
  PROVE  BagOf(f \o g) = BagOf(f) (+) BagOf(g)
<1> DEFINE h == f \o g
           N(k, v) == {i \in DOMAIN k : k[i] = v}
<1>1. /\ Len(f) \in Nat /\ DOMAIN f = 1 .. Len(f) /\ Len(g) \in Nat /\ DOMAIN g = 1 .. Len(g)
  BY SeqFacts
<1>2. \A i \in DOMAIN f : i \in DOMAIN h /\ h[i] = f[i]
  BY JoinedFacts, Zenon
<1>3. \A i \in DOMAIN g : Len(f) + i \in DOMAIN h
  BY JoinedFacts, Zenon
<1>4. \A i \in DOMAIN g : h[Len(f) + i] = g[i]
  <2>1. TAKE i \in DOMAIN g
  <2>q. QED  BY JoinedFacts, Z3
<1>5. \A i \in DOMAIN h : i \in DOMAIN f \/ \E j \in DOMAIN g : i = Len(f) + j
  BY JoinedFacts, Zenon
<1>6. ToSet(h) = ToSet(f) \cup ToSet(g)
  BY JoinedFacts, Zenon
<1> HIDE DEF h
<1>7. IsFiniteSet(DOMAIN f) /\ IsFiniteSet(DOMAIN g)
  <2>1. 1 \in Int /\ Len(f) \in Int /\ Len(g) \in Int
    BY <1>1
  <2>2. IsFiniteSet(1 .. Len(f)) /\ IsFiniteSet(1 .. Len(g))
    BY <2>1, FS_Interval, Zenon
  <2>q. QED  BY <1>1, <2>2
<1>8. ASSUME NEW v
      PROVE  /\ Cardinality(N(h, v)) = Cardinality(N(f, v)) + Cardinality(N(g, v))
             /\ v \notin ToSet(f) => Cardinality(N(f, v)) = 0
             /\ v \notin ToSet(g) => Cardinality(N(g, v)) = 0
             /\ Cardinality(N(f, v)) \in Nat /\ Cardinality(N(g, v)) \in Nat
  <2> DEFINE A == N(f, v)
             B == N(g, v)
             C == {Len(f) + i : i \in B}
             p == [i \in B |-> Len(f) + i]
  <2>1. N(h, v) = A \cup C
    <3>1. A \cup C \subseteq N(h, v)
      BY <1>2, <1>3, <1>4
    <3>2. ASSUME NEW i \in N(h, v)  PROVE i \in A \cup C
      <4>1. CASE i \in DOMAIN f
        BY <1>2, <4>1
      <4>2. CASE \E j \in DOMAIN g : i = Len(f) + j
        BY <1>4, <4>2
      <4>q. QED  BY <1>5, <4>1, <4>2
    <3>q. QED  BY <3>1, <3>2
  <2>2. A \cap C = {}
    BY <1>1
  <2>3. IsFiniteSet(A) /\ IsFiniteSet(B)
    <3>1. A \in SUBSET DOMAIN f /\ B \in SUBSET DOMAIN g
      OBVIOUS
    <3>q. QED  BY <1>7, <3>1, FS_Subset, Zenon
  <2>4. p \in [B -> C] /\ (\A x, y \in B : p[x] = p[y] => x = y) /\ \A y \in C : \E x \in B : p[x] = y
    BY <1>1
  <2>5. (v \notin ToSet(f) => A = {}) /\ (v \notin ToSet(g) => B = {})
    BY DEF ToSet
  <2> HIDE DEF A, B, C, p, N
  <2>6. p \in Bijection(B, C)
    BY <2>4 DEF Bijection, Injection, Surjection, IsInjective
  <2>7. ExistsBijection(B, C)
    BY <2>6 DEF ExistsBijection
  <2>8. IsFiniteSet(C) /\ Cardinality(C) = Cardinality(B)
    BY <2>3, <2>7, FS_Bijection, Zenon
  <2>9. Cardinality(A \cup C) = Cardinality(A) + Cardinality(C) - Cardinality(A \cap C)
    BY <2>3, <2>8, FS_Union, Zenon
  <2>10. Cardinality({}) = 0
    BY FS_EmptySet, Zenon
  <2>11. Cardinality(A) \in Nat /\ Cardinality(B) \in Nat
    BY <2>3, FS_CardinalityType, Zenon
  <2>13. Cardinality(A \cap C) = 0
    BY <2>2, <2>10, Zenon
  <2>12. Cardinality(A \cup C) = Cardinality(A) + Cardinality(B)
    BY <2>8, <2>9, <2>11, <2>13
  <2>q. QED  BY <2>1, <2>5, <2>10, <2>11, <2>12 DEF A, B
<1> DEFINE a == BagOf(f)
           b == BagOf(g)
<1>9. /\ DOMAIN a = ToSet(f) /\ \A v \in ToSet(f) : a[v] = Cardinality(N(f, v))
      /\ DOMAIN b = ToSet(g) /\ \A v \in ToSet(g) : b[v] = Cardinality(N(g, v))
  BY BagFacts, Zenon
<1>10. BagOf(h) = [v \in ToSet(h) |-> Cardinality(N(h, v))]
  BY Zenon DEF BagOf
<1> HIDE DEF N, a, b
<1>11. a (+) b = [v \in ToSet(f) \cup ToSet(g) |->
                    (IF v \in ToSet(f) THEN a[v] ELSE 0) + (IF v \in ToSet(g) THEN b[v] ELSE 0)]
  BY <1>9 DEF (+)
<1>12. ASSUME NEW v \in ToSet(f) \cup ToSet(g)
       PROVE  Cardinality(N(h, v)) =
                (IF v \in ToSet(f) THEN a[v] ELSE 0) + (IF v \in ToSet(g) THEN b[v] ELSE 0)
  BY <1>8, <1>9
<1>13. BagOf(h) = a (+) b
  BY <1>6, <1>10, <1>11, <1>12
<1>q. QED  BY <1>13 DEF a, b, h

-----------------------------------------------------------------------------
(* What the relations are made of *)

\* A row over columns.
IsRow(r, C) == r = [c \in C |-> r[c]]

\* A row beside another, cell by cell.
LEMMA BesideLeft ==
  ASSUME NEW C, NEW u, IsRow(u, C), NEW v, NEW c \in C
  PROVE  Beside(u, v)[c] = u[c]
<1>1. DOMAIN u = C
  BY DEF IsRow
<1>q. QED  BY <1>1 DEF Beside

\* Where the first has no cell, the second's is taken.
LEMMA BesideRight ==
  ASSUME NEW C, NEW u, IsRow(u, C), NEW D, NEW v, IsRow(v, D), NEW c \in D, c \notin C
  PROVE  Beside(u, v)[c] = v[c]
<1>1. DOMAIN u = C /\ DOMAIN v = D
  BY DEF IsRow
<1>q. QED  BY <1>1 DEF Beside

\* Two rows side by side are a row over the columns of both.
LEMMA BesideRow ==
  ASSUME NEW C, NEW u, IsRow(u, C), NEW D, NEW v, IsRow(v, D)
  PROVE  IsRow(Beside(u, v), C \cup D)
<1>1. DOMAIN u = C /\ DOMAIN v = D
  BY DEF IsRow
<1> DEFINE w == Beside(u, v)
<1>2. w = [c \in C \cup D |-> IF c \in C THEN u[c] ELSE v[c]]
  BY <1>1 DEF Beside
<1> HIDE DEF w
<1>3. w = [c \in C \cup D |-> w[c]]
  BY <1>2
<1>q. QED  BY <1>3 DEF IsRow, w

\* Rows with the same cells are the same.
LEMMA SameRow ==
  ASSUME NEW C, NEW u, IsRow(u, C), NEW v, IsRow(v, C), \A c \in C : u[c] = v[c]
  PROVE  u = v
<1>1. [c \in C |-> u[c]] = [c \in C |-> v[c]]
  OBVIOUS
<1>q. QED  BY <1>1, Zenon DEF IsRow

\* Rows that agree where both have a column are the parts of their join.
LEMMA JoinParts ==
  ASSUME NEW C, NEW D,
         NEW u, IsRow(u, C), NEW v, IsRow(v, D), \A c \in C : c \in D => u[c] = v[c],
         NEW x, IsRow(x, C), NEW y, IsRow(y, D), \A c \in C : c \in D => x[c] = y[c],
         Beside(u, v) = Beside(x, y)
  PROVE  u = x /\ v = y
<1>1. ASSUME NEW c \in C  PROVE Beside(u, v)[c] = u[c] /\ Beside(x, y)[c] = x[c]
  BY BesideLeft, Z3
<1>2. ASSUME NEW c \in D \ C  PROVE Beside(u, v)[c] = v[c] /\ Beside(x, y)[c] = y[c]
  BY BesideRight
<1>3. \A c \in C : u[c] = x[c]
  BY <1>1
<1>4. \A c \in D : v[c] = y[c]
  BY <1>2, <1>3
<1>q. QED  BY <1>3, <1>4, SameRow

\* The places of the rows that agree, and what they make.
Agreeing(f, g, on) == {q \in (DOMAIN f) \X (DOMAIN g) : \A c \in on : f[q[1]][c] = g[q[2]][c]}
Besides(f, g, on) == [q \in Agreeing(f, g, on) |-> Beside(f[q[1]], g[q[2]])]

\* Finitely many rows over some columns.
AreRows(f, C) == IsFiniteSet(DOMAIN f) /\ \A i \in DOMAIN f : IsRow(f[i], C)

\* The bag of the joined rows is the join of the bags.
LEMMA BagOfPairs ==
  ASSUME NEW f, NEW g, NEW C, NEW D, NEW on, AreRows(f, C), AreRows(g, D), C \cap D = on
  PROVE  BagOf(Besides(f, g, on)) = JoinOf(BagOf(f), BagOf(g), on)
<1>01. /\ IsFiniteSet(DOMAIN f) /\ \A i \in DOMAIN f : IsRow(f[i], C)
       /\ IsFiniteSet(DOMAIN g) /\ \A j \in DOMAIN g : IsRow(g[j], D)
  BY DEF AreRows
<1> DEFINE P == Agreeing(f, g, on)
           F == ToSet(f)
           G == ToSet(g)
           pairs == {p \in F \X G : \A c \in on : p[1][c] = p[2][c]}
           h == Besides(f, g, on)
           Joins(w) == CHOOSE q \in pairs : Beside(q[1], q[2]) = w
           a == BagOf(f)
           b == BagOf(g)
<1>1. /\ F = {f[i] : i \in DOMAIN f} /\ G = {g[j] : j \in DOMAIN g}
      /\ \A u \in F : IsRow(u, C)
      /\ \A v \in G : IsRow(v, D)
  <2>1. F = {f[i] : i \in DOMAIN f} /\ G = {g[j] : j \in DOMAIN g}
    BY DEF ToSet
  <2> HIDE DEF F, G
  <2>q. QED  BY <1>01, <2>1
<1>2. /\ DOMAIN a = F /\ \A u \in F : a[u] = Cardinality({i \in DOMAIN f : f[i] = u})
      /\ DOMAIN b = G /\ \A v \in G : b[v] = Cardinality({j \in DOMAIN g : g[j] = v})
  BY BagFacts, Zenon
<1>3. JoinOf(a, b, on) = [w \in {Beside(p[1], p[2]) : p \in pairs} |-> a[Joins(w)[1]] * b[Joins(w)[2]]]
  BY <1>2 DEF JoinOf
<1>4. BagOf(h) = [w \in ToSet(h) |-> Cardinality({q \in DOMAIN h : h[q] = w})]
  BY Zenon DEF BagOf
<1>02. /\ P = {q \in (DOMAIN f) \X (DOMAIN g) : \A c \in on : f[q[1]][c] = g[q[2]][c]}
       /\ h = [q \in P |-> Beside(f[q[1]], g[q[2]])]
  BY DEF Agreeing, Besides
<1> HIDE DEF F, G, P, h
<1>5. ASSUME NEW u \in F, NEW x \in F, NEW v \in G, NEW y \in G,
             \A c \in on : u[c] = v[c], \A c \in on : x[c] = y[c],
             Beside(u, v) = Beside(x, y)
      PROVE  u = x /\ v = y
  <2>1. IsRow(u, C) /\ IsRow(x, C) /\ IsRow(v, D) /\ IsRow(y, D)
    BY <1>1
  <2>2. (\A c \in C : c \in D => u[c] = v[c]) /\ \A c \in C : c \in D => x[c] = y[c]
    BY <1>5
  <2>q. QED  BY <1>5, <2>1, <2>2, JoinParts
<1>6. \A i \in DOMAIN f : \A j \in DOMAIN g :
        /\ f[i] \in F /\ g[j] \in G
        /\ <<i, j>> \in P <=> \A c \in on : f[i][c] = g[j][c]
        /\ <<i, j>> \in P => h[<<i, j>>] = Beside(f[i], g[j]) /\ <<f[i], g[j]>> \in pairs
  BY <1>02, <1>1
<1>7. \A q \in P : q[1] \in DOMAIN f /\ q[2] \in DOMAIN g /\ q = <<q[1], q[2]>>
  BY <1>02
<1>8. \A p \in pairs : /\ p[1] \in F /\ p[2] \in G /\ p = <<p[1], p[2]>>
                       /\ \A c \in on : p[1][c] = p[2][c]
  OBVIOUS
<1>9. DOMAIN h = P
  BY <1>02
<1>10. \A q \in P : h[q] = Beside(f[q[1]], g[q[2]]) /\ <<f[q[1]], g[q[2]]>> \in pairs
  BY <1>02, <1>6, <1>7
<1> HIDE DEF pairs, a, b
<1>11. ToSet(h) = {Beside(p[1], p[2]) : p \in pairs}
  <2>1. ASSUME NEW q \in P  PROVE h[q] \in {Beside(p[1], p[2]) : p \in pairs}
    <3>1. <<f[q[1]], g[q[2]]>> \in pairs /\ h[q] = Beside(f[q[1]], g[q[2]])
      BY <1>10
    <3> DEFINE p == <<f[q[1]], g[q[2]]>>
    <3>2. p[1] = f[q[1]] /\ p[2] = g[q[2]]
      OBVIOUS
    <3>q. QED  BY <3>1, <3>2
  <2>2. ASSUME NEW p \in pairs  PROVE Beside(p[1], p[2]) \in ToSet(h)
    <3>1. PICK i \in DOMAIN f : f[i] = p[1]
      BY <1>1, <1>8
    <3>2. PICK j \in DOMAIN g : g[j] = p[2]
      BY <1>1, <1>8
    <3>3. <<i, j>> \in P /\ h[<<i, j>>] = Beside(p[1], p[2])
      BY <1>6, <1>8, <3>1, <3>2
    <3>q. QED  BY <1>9, <3>3 DEF ToSet
  <2>q. QED  BY <1>9, <2>1, <2>2 DEF ToSet
<1>12. ASSUME NEW w \in {Beside(p[1], p[2]) : p \in pairs}
       PROVE  Cardinality({q \in P : h[q] = w}) = a[Joins(w)[1]] * b[Joins(w)[2]]
  <2>1. \E q \in pairs : Beside(q[1], q[2]) = w
    OBVIOUS
  <2>2. Joins(w) \in pairs /\ Beside(Joins(w)[1], Joins(w)[2]) = w
    BY <2>1, Zenon
  <2> DEFINE u == Joins(w)[1]
             v == Joins(w)[2]
             I == {i \in DOMAIN f : f[i] = u}
             J == {j \in DOMAIN g : g[j] = v}
  <2>3. u \in F /\ v \in G /\ (\A c \in on : u[c] = v[c]) /\ Beside(u, v) = w
    BY <1>8, <2>2
  <2> HIDE DEF Joins, u, v
  <2>4. {q \in P : h[q] = w} = I \X J
    <3>1. ASSUME NEW q \in P, h[q] = w  PROVE q \in I \X J
      <4>1. PICK i \in DOMAIN f, j \in DOMAIN g : q = <<i, j>>
        BY <1>7
      <4>2. /\ f[i] \in F /\ g[j] \in G
            /\ \A c \in on : f[i][c] = g[j][c]
            /\ Beside(f[i], g[j]) = w
        BY <1>6, <3>1, <4>1
      <4>3. Beside(f[i], g[j]) = Beside(u, v)
        BY <2>3, <4>2
      <4>4. f[i] = u /\ g[j] = v
        BY <1>5, <2>3, <4>2, <4>3
      <4>q. QED  BY <4>1, <4>4
    <3>2. ASSUME NEW i \in I, NEW j \in J  PROVE <<i, j>> \in P /\ h[<<i, j>>] = w
      <4>1. i \in DOMAIN f /\ f[i] = u /\ j \in DOMAIN g /\ g[j] = v
        OBVIOUS
      <4>2. <<i, j>> \in P
        BY <1>6, <2>3, <4>1
      <4>q. QED  BY <1>6, <2>3, <4>1, <4>2
    <3> HIDE DEF I, J
    <3>q. QED  BY <3>1, <3>2
  <2>5. IsFiniteSet(I) /\ IsFiniteSet(J)
    <3>1. I \in SUBSET DOMAIN f /\ J \in SUBSET DOMAIN g
      OBVIOUS
    <3> HIDE DEF I, J
    <3>2. IsFiniteSet(DOMAIN f) /\ IsFiniteSet(DOMAIN g)
      BY <1>01
    <3>q. QED  BY <3>1, <3>2, FS_Subset, Zenon
  <2>6. a[u] = Cardinality(I) /\ b[v] = Cardinality(J)
    BY <1>2, <2>3
  <2> HIDE DEF I, J
  <2>7. Cardinality(I \X J) = Cardinality(I) * Cardinality(J)
    BY <2>5, FS_Product, Zenon
  <2>8. Cardinality({q \in P : h[q] = w}) = Cardinality(I) * Cardinality(J)
    BY <2>4, <2>7, Zenon
  <2>9. Cardinality({q \in P : h[q] = w}) = a[u] * b[v]
    BY <2>6, <2>8, Zenon
  <2>q. QED  BY <2>9, Zenon DEF u, v
<1> HIDE DEF Joins
<1>13. BagOf(h) = [w \in {Beside(p[1], p[2]) : p \in pairs} |-> Cardinality({q \in P : h[q] = w})]
  BY <1>4, <1>9, <1>11, Zenon
<1>14. BagOf(h) = JoinOf(a, b, on)
  BY <1>3, <1>12, <1>13
<1>q. QED  BY <1>14 DEF a, b, h

\* The bag of widened rows is the widened bag.
LEMMA BagOfWidened ==
  ASSUME NEW f, NEW C, \A i \in DOMAIN f : IsRow(f[i], C), NEW D, C \subseteq D
  PROVE  BagOf([i \in DOMAIN f |-> Beside(f[i], [c \in D |-> Null])]) = Widened(BagOf(f), D)
<1> DEFINE F == ToSet(f)
           n == [c \in D |-> Null]
           h == [i \in DOMAIN f |-> Beside(f[i], n)]
           a == BagOf(f)
           Of(w) == CHOOSE u \in F : Beside(u, n) = w
<1>1. F = {f[i] : i \in DOMAIN f} /\ \A u \in F : IsRow(u, C)
  BY DEF ToSet
<1>2. DOMAIN a = F /\ \A u \in F : a[u] = Cardinality({i \in DOMAIN f : f[i] = u})
  BY BagFacts, Zenon
<1>3. Widened(a, D) = [w \in {Beside(u, n) : u \in F} |-> a[Of(w)]]
  BY <1>2 DEF Widened
<1>4. BagOf(h) = [w \in ToSet(h) |-> Cardinality({i \in DOMAIN h : h[i] = w})]
  BY Zenon DEF BagOf
<1>5. \A u, v \in F : Beside(u, n) = Beside(v, n) => u = v
  <2>1. ASSUME NEW u \in F, NEW v \in F, Beside(u, n) = Beside(v, n)  PROVE u = v
    <3>1. IsRow(u, C) /\ IsRow(v, C) /\ IsRow(n, D)
      BY <1>1 DEF IsRow
    <3> HIDE DEF n
    <3>2. ASSUME NEW c \in C  PROVE Beside(u, n)[c] = u[c]
      BY <3>1, BesideLeft, Z3
    <3>3. ASSUME NEW c \in C  PROVE Beside(v, n)[c] = v[c]
      BY <3>1, BesideLeft, Z3
    <3>4. \A c \in C : u[c] = v[c]
      BY <2>1, <3>2, <3>3
    <3>q. QED  BY <3>1, <3>4, SameRow
  <2>q. QED  BY <2>1, Zenon
<1> HIDE DEF n, F, a
<1>6. DOMAIN h = DOMAIN f /\ \A i \in DOMAIN f : h[i] = Beside(f[i], n)
  OBVIOUS
<1> HIDE DEF h
<1>7. ToSet(h) = {Beside(u, n) : u \in F}
  BY <1>1, <1>6 DEF ToSet
<1>8. ASSUME NEW w \in {Beside(u, n) : u \in F}
      PROVE  Cardinality({i \in DOMAIN h : h[i] = w}) = a[Of(w)]
  <2>1. Of(w) \in F /\ Beside(Of(w), n) = w
    OBVIOUS
  <2> HIDE DEF Of
  <2>2. \A i \in DOMAIN f : h[i] = w <=> f[i] = Of(w)
    BY <1>1, <1>5, <1>6, <2>1
  <2>3. {i \in DOMAIN h : h[i] = w} = {i \in DOMAIN f : f[i] = Of(w)}
    BY <1>6, <2>2
  <2>4. a[Of(w)] = Cardinality({i \in DOMAIN f : f[i] = Of(w)})
    BY <1>2, <2>1
  <2>q. QED  BY <2>3, <2>4, Zenon
<1> HIDE DEF Of
<1>9. BagOf(h) = Widened(a, D)
  BY <1>3, <1>4, <1>7, <1>8
<1>q. QED  BY <1>9 DEF a, h, n

-----------------------------------------------------------------------------
(* Result sets and their rows *)

\* A column that is there is found, at a place that has its name.
LEMMA ColumnFacts ==
  ASSUME NEW columns, IsSeq(columns), NEW c \in ToSet(columns)
  PROVE  Column(columns, c) \in DOMAIN columns /\ columns[Column(columns, c)] = c
<1> DEFINE I == {i \in DOMAIN columns : columns[i] = c}
<1>1. I \in SUBSET Nat /\ I # {}
  BY SeqFacts DEF ToSet
<1> HIDE DEF I
<1>2. Min(I) \in I
  BY <1>1, MinFacts
<1>q. QED  BY <1>2 DEF Column, I

\* Where no name comes twice, a column is found at its own place.
LEMMA ColumnAt ==
  ASSUME NEW columns, IsSeq(columns), ~Alike(columns), NEW i \in DOMAIN columns
  PROVE  Column(columns, columns[i]) = i
<1>1. columns[i] \in ToSet(columns)
  BY SeqFacts
<1>2. Column(columns, columns[i]) \in DOMAIN columns /\ columns[Column(columns, columns[i])] = columns[i]
  BY <1>1, ColumnFacts
<1>q. QED  BY <1>2 DEF Alike

\* What a row says of its columns.
LEMMA RowOfFacts ==
  ASSUME NEW columns, NEW row
  PROVE  /\ IsRow(RowOf(columns, row), ToSet(columns))
         /\ \A c \in ToSet(columns) : RowOf(columns, row)[c] = row[Column(columns, c)]
BY DEF RowOf, IsRow

\* Where no name comes twice, the row can be read back.
LEMMA RowReadBack ==
  ASSUME NEW columns, IsSeq(columns), ~Alike(columns),
         NEW row, IsSeq(row), Len(row) = Len(columns),
         NEW other, IsSeq(other), Len(other) = Len(columns),
         RowOf(columns, row) = RowOf(columns, other)
  PROVE  row = other
<1>1. ASSUME NEW i \in DOMAIN columns  PROVE row[i] = other[i]
  <2>1. columns[i] \in ToSet(columns) /\ Column(columns, columns[i]) = i
    BY SeqFacts, ColumnAt
  <2>2. RowOf(columns, row)[columns[i]] = row[i] /\ RowOf(columns, other)[columns[i]] = other[i]
    BY <2>1, RowOfFacts
  <2>q. QED  BY <2>2
<1>2. DOMAIN columns = 1 .. Len(columns) /\ DOMAIN row = 1 .. Len(columns) /\ DOMAIN other = 1 .. Len(columns)
  BY SeqFacts
<1>3. row = [i \in 1 .. Len(columns) |-> row[i]] /\ other = [i \in 1 .. Len(columns) |-> other[i]]
  BY <1>2 DEF IsSeq
<1>q. QED  BY <1>1, <1>2, <1>3

\* What a result set has.
LEMMA TableFacts ==
  ASSUME NEW t \in Tables
  PROVE  /\ t.columns \in Seq(STRING) /\ IsSeq(t.columns)
         /\ t.rows \in Seq(Seq(Cells)) /\ IsSeq(t.rows)
         /\ t.truncated \in BOOLEAN
         /\ \A i \in DOMAIN t.rows :
              /\ t.rows[i] \in Seq(Cells) /\ IsSeq(t.rows[i])
              /\ Len(t.rows[i]) = Len(t.columns) /\ DOMAIN t.rows[i] = DOMAIN t.columns
              /\ \A j \in DOMAIN t.columns : t.rows[i][j] \in Cells
<1>1. /\ t.columns \in Seq(STRING) /\ t.rows \in Seq(Seq(Cells)) /\ t.truncated \in BOOLEAN
      /\ \A i \in DOMAIN t.rows : Len(t.rows[i]) = Len(t.columns)
  BY DEF Tables
<1>2. IsSeq(t.columns) /\ IsSeq(t.rows)
  BY <1>1, SeqIsSeq
<1>3. ASSUME NEW i \in DOMAIN t.rows
      PROVE  /\ t.rows[i] \in Seq(Cells) /\ IsSeq(t.rows[i])
             /\ Len(t.rows[i]) = Len(t.columns) /\ DOMAIN t.rows[i] = DOMAIN t.columns
             /\ \A j \in DOMAIN t.columns : t.rows[i][j] \in Cells
  <2>1. t.rows[i] \in Seq(Cells)
    BY <1>1
  <2>2. IsSeq(t.rows[i])
    BY <2>1, SeqIsSeq
  <2>3. DOMAIN t.rows[i] = DOMAIN t.columns /\ Len(t.rows[i]) = Len(t.columns)
    BY <1>1, <1>2, <2>2, SeqFacts
  <2>4. \A j \in DOMAIN t.rows[i] : t.rows[i][j] \in Cells
    BY <2>1
  <2>q. QED  BY <2>1, <2>2, <2>3, <2>4
<1>q. QED  BY <1>1, <1>2, <1>3

\* How one is made.
LEMMA MadeTable ==
  ASSUME NEW columns \in Seq(STRING), NEW rows \in Seq(Seq(Cells)),
         \A i \in DOMAIN rows : Len(rows[i]) = Len(columns),
         NEW left \in Tables, NEW right \in Tables
  PROVE  ResultSet(columns, rows, left, right) \in Tables
<1>1. left.truncated \in BOOLEAN /\ right.truncated \in BOOLEAN
  BY TableFacts
<1>q. QED  BY <1>1 DEF ResultSet, Tables

\* Where the elements of the second sequence are in two joined ones.
LEMMA JoinedRight ==
  ASSUME NEW a, NEW b, IsSeq(a), IsSeq(b), NEW i \in DOMAIN b
  PROVE  (a \o b)[Len(a) + i] = b[i]
<1> DEFINE S == ToSet(a) \cup ToSet(b)
<1>1. a \in Seq(S) /\ b \in Seq(S)
  BY DEF IsSeq
<1> HIDE DEF S
<1>q. QED  BY <1>1

\* The rows of a result set, as relations have them.
RowsOf(columns, rows) == [i \in DOMAIN rows |-> RowOf(columns, rows[i])]

\* The rows of a stack are those of its parts.
LEMMA RowsOfBoth ==
  ASSUME NEW columns, NEW p, IsSeq(p), NEW q, IsSeq(q)
  PROVE  /\ RowsOf(columns, p \o q) = RowsOf(columns, p) \o RowsOf(columns, q)
         /\ IsSeq(RowsOf(columns, p)) /\ IsSeq(RowsOf(columns, q))
<1> DEFINE a == RowsOf(columns, p)
           b == RowsOf(columns, q)
           h == p \o q
           c == RowsOf(columns, h)
<1>1. Len(p) \in Nat /\ DOMAIN p = 1 .. Len(p) /\ Len(q) \in Nat /\ DOMAIN q = 1 .. Len(q)
  BY SeqFacts
<1>2. IsSeq(h) /\ Len(h) = Len(p) + Len(q)
  BY JoinedFacts, Zenon
<1>3. \A i \in DOMAIN p : h[i] = p[i]
  BY JoinedFacts, Zenon
<1>4. \A i \in DOMAIN q : h[Len(p) + i] = q[i]
  BY JoinedRight, Zenon
<1>5. DOMAIN h = 1 .. Len(p) + Len(q)
  BY <1>2, SeqFacts
<1>6. /\ DOMAIN a = 1 .. Len(p) /\ a = [i \in 1 .. Len(p) |-> a[i]] /\ \A i \in DOMAIN p : a[i] = RowOf(columns, p[i])
      /\ DOMAIN b = 1 .. Len(q) /\ b = [i \in 1 .. Len(q) |-> b[i]] /\ \A i \in DOMAIN q : b[i] = RowOf(columns, q[i])
      /\ DOMAIN c = DOMAIN h /\ c = [i \in DOMAIN h |-> c[i]] /\ \A i \in DOMAIN h : c[i] = RowOf(columns, h[i])
  BY <1>1 DEF RowsOf
<1> HIDE DEF a, b, c, h
<1>7. IsSeq(a) /\ Len(a) = Len(p) /\ IsSeq(b) /\ Len(b) = Len(q)
  BY <1>1, <1>6, MadeSeq
<1> DEFINE d == a \o b
<1>8. IsSeq(d) /\ Len(d) = Len(p) + Len(q)
  <2>1. IsSeq(d) /\ Len(d) = Len(a) + Len(b)
    BY <1>7, JoinedFacts, Zenon
  <2>q. QED  BY <1>7, <2>1
<1>9. \A i \in DOMAIN a : d[i] = a[i]
  BY <1>7, JoinedFacts, Zenon
<1>10. \A i \in DOMAIN b : d[Len(a) + i] = b[i]
  BY <1>7, JoinedRight, Zenon
<1> HIDE DEF d
<1>11. d = [i \in 1 .. Len(p) + Len(q) |-> d[i]]
  BY <1>8 DEF IsSeq
<1>12. ASSUME NEW i \in 1 .. Len(p) + Len(q)  PROVE c[i] = d[i]
  <2>1. CASE i <= Len(p)
    BY <1>1, <1>3, <1>5, <1>6, <1>9, <2>1
  <2>2. CASE ~(i <= Len(p))
    <3>1. i - Len(p) \in DOMAIN q /\ Len(p) + (i - Len(p)) = i
      BY <1>1, <2>2
    <3>2. h[i] = q[i - Len(p)]
      BY <1>4, <3>1
    <3>3. d[i] = b[i - Len(p)]
      BY <1>1, <1>6, <1>7, <1>10, <3>1
    <3>q. QED  BY <1>5, <1>6, <3>1, <3>2, <3>3
  <2>q. QED  BY <2>1, <2>2
<1>13. c = d
  BY <1>5, <1>6, <1>11, <1>12
<1>q. QED  BY <1>7, <1>13 DEF a, b, c, d, h

\* The rows in the order of other columns.
LEMMA ProjectedFacts ==
  ASSUME NEW t \in Tables, NEW columns \in Seq(STRING), Null \in Cells
  PROVE  /\ Projected(t, columns) \in Seq(Seq(Cells)) /\ IsSeq(Projected(t, columns))
         /\ DOMAIN Projected(t, columns) = DOMAIN t.rows
         /\ \A i \in DOMAIN t.rows :
              /\ Len(Projected(t, columns)[i]) = Len(columns)
              /\ \A c \in ToSet(columns) :
                   RowOf(columns, Projected(t, columns)[i])[c] =
                     IF c \in ToSet(t.columns) THEN RowOf(t.columns, t.rows[i])[c] ELSE Null
<1> DEFINE p == Projected(t, columns)
           Cell(i, j) == IF columns[j] \in ToSet(t.columns)
                         THEN t.rows[i][Column(t.columns, columns[j])] ELSE Null
           n == Len(t.rows)
           m == Len(columns)
<1>0. /\ IsSeq(columns) /\ m \in Nat /\ DOMAIN columns = 1 .. m
      /\ IsSeq(t.columns) /\ IsSeq(t.rows) /\ n \in Nat /\ DOMAIN t.rows = 1 .. n
  BY TableFacts, SeqIsSeq, SeqFacts
<1>1. ASSUME NEW i \in DOMAIN t.rows, NEW j \in DOMAIN columns  PROVE Cell(i, j) \in Cells
  BY <1>0, TableFacts, ColumnFacts
<1>2. p = [i \in 1 .. n |-> [j \in 1 .. m |-> Cell(i, j)]]
  BY <1>0 DEF Projected
<1> HIDE DEF p, Cell
<1>3. \A i \in 1 .. n : p[i] = [j \in 1 .. m |-> Cell(i, j)]
  BY <1>2
<1>4. ASSUME NEW i \in 1 .. n  PROVE p[i] \in Seq(Cells) /\ Len(p[i]) = m
  <2>1. p[i] = [j \in 1 .. m |-> Cell(i, j)] /\ \A j \in 1 .. m : Cell(i, j) \in Cells
    BY <1>0, <1>1, <1>3
  <2>q. QED  BY <1>0, <2>1
<1>5. p \in Seq(Seq(Cells)) /\ DOMAIN p = 1 .. n
  <2>1. p = [i \in 1 .. n |-> p[i]] /\ \A i \in 1 .. n : p[i] \in Seq(Cells)
    BY <1>2, <1>4
  <2>q. QED  BY <1>0, <2>1
<1>6. IsSeq(p)
  BY <1>5, SeqIsSeq
<1>7. ASSUME NEW i \in DOMAIN t.rows, NEW c \in ToSet(columns)
      PROVE  RowOf(columns, p[i])[c] = IF c \in ToSet(t.columns) THEN RowOf(t.columns, t.rows[i])[c] ELSE Null
  <2>1. Column(columns, c) \in 1 .. m /\ columns[Column(columns, c)] = c
    BY <1>0, ColumnFacts
  <2>2. RowOf(columns, p[i])[c] = Cell(i, Column(columns, c))
    <3>1. RowOf(columns, p[i])[c] = p[i][Column(columns, c)]
      BY RowOfFacts
    <3>q. QED  BY <1>0, <1>3, <2>1, <3>1
  <2>3. c \in ToSet(t.columns) => RowOf(t.columns, t.rows[i])[c] = t.rows[i][Column(t.columns, c)]
    BY RowOfFacts
  <2>q. QED  BY <2>1, <2>2, <2>3 DEF Cell
<1>q. QED  BY <1>0, <1>4, <1>5, <1>6, <1>7 DEF p

-----------------------------------------------------------------------------
(* The merges *)

\* Every element has a first place, and only one.
LEMMA FirstsFacts ==
  ASSUME NEW s, IsSeq(s)
  PROVE  /\ Firsts(s) \subseteq DOMAIN s
         /\ \A v \in ToSet(s) : \E i \in Firsts(s) : s[i] = v
         /\ \A i, j \in Firsts(s) : s[i] = s[j] => i = j
<1>1. Len(s) \in Nat /\ DOMAIN s = 1 .. Len(s)
  BY SeqFacts
<1>2. ASSUME NEW v \in ToSet(s)  PROVE \E i \in Firsts(s) : s[i] = v
  <2> DEFINE I == {i \in DOMAIN s : s[i] = v}
  <2>1. I \in SUBSET Nat /\ I # {}
    BY <1>1 DEF ToSet
  <2> HIDE DEF I
  <2>2. PICK i \in I : \A j \in I : i <= j
    BY <2>1, LeastOne
  <2>3. i \in DOMAIN s /\ s[i] = v /\ \A j \in DOMAIN s : s[j] = v => i <= j
    BY <2>2 DEF I
  <2>4. \A j \in 1 .. i - 1 : s[j] # s[i]
    BY <1>1, <2>3
  <2>q. QED  BY <2>3, <2>4 DEF Firsts
<1>3. ASSUME NEW i \in Firsts(s), NEW j \in Firsts(s), s[i] = s[j]  PROVE i = j
  <2>1. i \in 1 .. Len(s) /\ j \in 1 .. Len(s) /\ ~(i < j) /\ ~(j < i)
    BY <1>1, <1>3 DEF Firsts
  <2>q. QED  BY <1>1, <2>1
<1>q. QED  BY <1>2, <1>3 DEF Firsts

\* The rows as a set.
LEMMA RowsSet ==
  ASSUME NEW t
  PROVE  ToSet(Rows(t)) = {RowOf(t.columns, v) : v \in ToSet(t.rows)}
<1>1. ToSet(Rows(t)) = {RowOf(t.columns, t.rows[i]) : i \in DOMAIN t.rows}
  BY DEF Rows, ToSet
<1>2. ToSet(t.rows) = {t.rows[i] : i \in DOMAIN t.rows}
  BY DEF ToSet
<1>q. QED  BY <1>1, <1>2

\* What a union is made of.
LEMMA UnionTable ==
  ASSUME NEW left \in Tables, NEW right \in Tables
  PROVE  MergeUnion(left, right) \in Tables
<1> DEFINE other == Projected(right, left.columns)
           rows == left.rows \o other
           t == InOrder(rows, Firsts(rows))
<1>0. Null \in Cells
  BY FederationAssumption
<1>1. /\ left.columns \in Seq(STRING) /\ left.rows \in Seq(Seq(Cells)) /\ IsSeq(left.rows)
      /\ \A i \in DOMAIN left.rows : Len(left.rows[i]) = Len(left.columns)
  BY TableFacts
<1>2. /\ other \in Seq(Seq(Cells)) /\ IsSeq(other)
      /\ \A i \in DOMAIN other : Len(other[i]) = Len(left.columns)
  <2>1. /\ other \in Seq(Seq(Cells)) /\ IsSeq(other) /\ DOMAIN other = DOMAIN right.rows
        /\ \A i \in DOMAIN right.rows : Len(other[i]) = Len(left.columns)
    BY <1>0, <1>1, ProjectedFacts
  <2> HIDE DEF other
  <2>q. QED  BY <2>1
<1> HIDE DEF other
<1>3. IsSeq(rows) /\ ToSet(rows) = ToSet(left.rows) \cup ToSet(other)
  BY <1>1, <1>2, JoinedFacts, Zenon
<1>4. ToSet(left.rows) \subseteq Seq(Cells) /\ ToSet(other) \subseteq Seq(Cells)
  BY <1>1, <1>2, SeqIsSeq
<1>5. \A row \in ToSet(rows) : row \in Seq(Cells) /\ Len(row) = Len(left.columns)
  BY <1>1, <1>2, <1>3, <1>4 DEF ToSet
<1> HIDE DEF rows
<1>6. IsSeq(t) /\ ToSet(t) \subseteq ToSet(rows)
  <2>1. Firsts(rows) \subseteq DOMAIN rows
    BY <1>3, FirstsFacts
  <2>2. ToSet(t) = {rows[i] : i \in Firsts(rows)}
    BY <1>3, <2>1, PickedSet, Zenon
  <2>3. IsSeq(t)
    BY <1>3, <2>1, InOrderFacts, Zenon
  <2>q. QED  BY <1>3, <2>1, <2>2, <2>3, SeqFacts
<1>7. MergeUnion(left, right) = ResultSet(left.columns, t, left, right)
  BY DEF MergeUnion, rows, other
<1> HIDE DEF t
<1>8. t \in Seq(Seq(Cells))
  BY <1>5, <1>6, SeqOver
<1>9. \A i \in DOMAIN t : Len(t[i]) = Len(left.columns)
  BY <1>5, <1>6, SeqFacts
<1>q. QED  BY <1>1, <1>7, <1>8, <1>9, MadeTable

\* Between tables without two columns of one name, it is the union of the sets of rows.
LEMMA UnionBag ==
  ASSUME NEW left \in Tables, NEW right \in Tables, ~Alike(left.columns),
         ToSet(left.columns) = ToSet(right.columns)
  PROVE  BagOf(Rows(MergeUnion(left, right))) = UnionOf(BagOf(Rows(left)), BagOf(Rows(right)))
<1> DEFINE columns == left.columns
           other == Projected(right, columns)
           rows == left.rows \o other
           I == Firsts(rows)
           t == InOrder(rows, I)
           f == RowsOf(columns, t)
<1>0. Null \in Cells
  BY FederationAssumption
<1>1. /\ columns \in Seq(STRING) /\ IsSeq(columns) /\ left.rows \in Seq(Seq(Cells)) /\ IsSeq(left.rows)
      /\ \A i \in DOMAIN left.rows : IsSeq(left.rows[i]) /\ Len(left.rows[i]) = Len(columns)
  BY TableFacts
<1>2. /\ other \in Seq(Seq(Cells)) /\ IsSeq(other) /\ DOMAIN other = DOMAIN right.rows
      /\ \A i \in DOMAIN right.rows : Len(other[i]) = Len(columns)
      /\ \A i \in DOMAIN right.rows : \A c \in ToSet(columns) :
           RowOf(columns, other[i])[c] = RowOf(right.columns, right.rows[i])[c]
  BY <1>0, <1>1, ProjectedFacts
<1>3. ASSUME NEW i \in DOMAIN right.rows
      PROVE  IsSeq(other[i]) /\ RowOf(columns, other[i]) = RowOf(right.columns, right.rows[i])
  <2>1. other[i] \in Seq(Cells)
    BY <1>2
  <2>2. IsSeq(other[i])
    BY <2>1, SeqIsSeq
  <2>3. IsRow(RowOf(columns, other[i]), ToSet(columns)) /\ IsRow(RowOf(right.columns, right.rows[i]), ToSet(columns))
    BY RowOfFacts
  <2>q. QED  BY <1>2, <2>2, <2>3, SameRow
<1>4. Rows(MergeUnion(left, right)) = f
  BY DEF MergeUnion, ResultSet, Rows, RowsOf
<1> HIDE DEF other
<1>5. IsSeq(rows) /\ ToSet(rows) = ToSet(left.rows) \cup ToSet(other)
  BY <1>1, <1>2, JoinedFacts, Zenon
<1> HIDE DEF rows
<1>6. ASSUME NEW row \in ToSet(rows)  PROVE IsSeq(row) /\ Len(row) = Len(columns)
  <2>1. CASE row \in ToSet(left.rows)
    BY <1>1, <2>1 DEF ToSet
  <2>2. CASE row \in ToSet(other)
    <3>1. PICK i \in DOMAIN right.rows : row = other[i]
      BY <1>2, <2>2 DEF ToSet
    <3>q. QED  BY <1>2, <1>3, <3>1
  <2>q. QED  BY <1>5, <2>1, <2>2
<1>7. /\ I \subseteq DOMAIN rows
      /\ \A v \in ToSet(rows) : \E i \in I : rows[i] = v
      /\ \A i, j \in I : rows[i] = rows[j] => i = j
  BY <1>5, FirstsFacts, Zenon
<1>8. Picks(t, rows, I) /\ ToSet(t) = {rows[i] : i \in I}
  BY <1>5, <1>7, InOrderFacts, PickedSet, Zenon
<1> HIDE DEF I
<1>9. \A m, n \in DOMAIN t : t[m] = t[n] => m = n
  BY <1>7, <1>8 DEF Picks
<1>10. ToSet(t) = ToSet(rows)
  BY <1>5, <1>7, <1>8, SeqFacts
<1> HIDE DEF t, columns
<1>11. DOMAIN f = DOMAIN t /\ \A n \in DOMAIN t : f[n] = RowOf(columns, t[n])
  BY DEF RowsOf
<1> HIDE DEF f
<1>12. \A m, n \in DOMAIN f : f[m] = f[n] => m = n
  <2>1. ASSUME NEW m \in DOMAIN t, NEW n \in DOMAIN t, f[m] = f[n]  PROVE m = n
    <3>1. t[m] \in ToSet(rows) /\ t[n] \in ToSet(rows)
      BY <1>10 DEF ToSet
    <3>2. RowOf(columns, t[m]) = RowOf(columns, t[n])
      BY <1>11, <2>1
    <3>3. ~Alike(columns)
      BY DEF columns
    <3>4. t[m] = t[n]
      BY <1>1, <1>6, <3>1, <3>2, <3>3, RowReadBack
    <3>q. QED  BY <1>9, <3>4
  <2>q. QED  BY <1>11, <2>1
<1>13. BagOf(f) = SetToBag(ToSet(f))
  BY <1>12, BagOfSet, Zenon
<1>14. ToSet(f) = {RowOf(columns, v) : v \in ToSet(t)}
  BY <1>11 DEF ToSet
<1>15. ToSet(Rows(left)) = {RowOf(columns, v) : v \in ToSet(left.rows)}
  BY RowsSet DEF columns
<1>16. ToSet(Rows(right)) = {RowOf(columns, v) : v \in ToSet(other)}
  <2>1. ToSet(Rows(right)) = {RowOf(right.columns, right.rows[i]) : i \in DOMAIN right.rows}
    BY DEF Rows, ToSet
  <2>2. ToSet(other) = {other[i] : i \in DOMAIN right.rows}
    BY <1>2 DEF ToSet
  <2>q. QED  BY <1>3, <2>1, <2>2
<1>17. ToSet(f) = ToSet(Rows(left)) \cup ToSet(Rows(right))
  BY <1>5, <1>10, <1>14, <1>15, <1>16
<1>18. DOMAIN BagOf(Rows(left)) = ToSet(Rows(left)) /\ DOMAIN BagOf(Rows(right)) = ToSet(Rows(right))
  BY BagFacts, Zenon
<1>q. QED  BY <1>4, <1>13, <1>17, <1>18 DEF UnionOf

\* Columns after others, each of them new.
LEMMA PlainBoth ==
  ASSUME NEW l, IsSeq(l), ~Alike(l), NEW e, IsSeq(e), \A i, j \in DOMAIN e : e[i] = e[j] => i = j,
         \A v \in ToSet(e) : v \notin ToSet(l)
  PROVE  ~Alike(l \o e)
<1> DEFINE h == l \o e
<1>1. \A i \in DOMAIN l : h[i] = l[i]
  BY JoinedFacts, Zenon
<1>2. ASSUME NEW i \in DOMAIN e  PROVE h[Len(l) + i] = e[i]
  BY JoinedRight
<1>3. \A i \in DOMAIN h : i \in DOMAIN l \/ \E j \in DOMAIN e : i = Len(l) + j
  BY JoinedFacts, Zenon
<1> HIDE DEF h
<1>4. (\A i \in DOMAIN l : l[i] \in ToSet(l)) /\ \A i \in DOMAIN e : e[i] \in ToSet(e)
  BY SeqFacts
<1>5. ASSUME NEW i \in DOMAIN h, NEW j \in DOMAIN h, h[i] = h[j]  PROVE i = j
  <2>1. CASE i \in DOMAIN l /\ j \in DOMAIN l
    BY <1>1, <1>5, <2>1 DEF Alike
  <2>2. ASSUME NEW m \in DOMAIN l, NEW n \in DOMAIN e, h[m] = h[Len(l) + n]  PROVE FALSE
    BY <1>1, <1>2, <1>4, <2>2
  <2>3. ASSUME NEW m \in DOMAIN e, NEW n \in DOMAIN e, h[Len(l) + m] = h[Len(l) + n]  PROVE m = n
    BY <1>2, <2>3
  <2>q. QED  BY <1>3, <1>5, <2>1, <2>2, <2>3
<1>q. QED  BY <1>5 DEF Alike, h

\* The columns of a stack: those of the left side, and the new ones of the right once each.
StackColumns(l, r) == l \o InOrder(r, {i \in Firsts(r) : r[i] \notin ToSet(l)})

\* A stack has the columns of both sides, and none twice that the left has once.
LEMMA ConcatColumns ==
  ASSUME NEW l \in Seq(STRING), NEW r \in Seq(STRING)
  PROVE  /\ StackColumns(l, r) \in Seq(STRING)
         /\ ToSet(StackColumns(l, r)) = ToSet(l) \cup ToSet(r)
         /\ ~Alike(l) => ~Alike(StackColumns(l, r))
<1> DEFINE columns == StackColumns(l, r)
           I == {i \in Firsts(r) : r[i] \notin ToSet(l)}
           e == InOrder(r, I)
<1>1. IsSeq(l) /\ IsSeq(r) /\ ToSet(l) \subseteq STRING /\ ToSet(r) \subseteq STRING
  BY SeqIsSeq
<1>2. /\ Firsts(r) \subseteq DOMAIN r
      /\ \A v \in ToSet(r) : \E i \in Firsts(r) : r[i] = v
      /\ \A i, j \in Firsts(r) : r[i] = r[j] => i = j
  BY <1>1, FirstsFacts, Zenon
<1>3. I \subseteq DOMAIN r
  BY <1>2
<1>4. IsSeq(e) /\ Picks(e, r, I) /\ ToSet(e) = {r[i] : i \in I}
  BY <1>1, <1>3, InOrderFacts, PickedSet, Zenon
<1>5. columns = l \o e
  BY DEF StackColumns
<1> HIDE DEF e, columns
<1>6. IsSeq(columns) /\ ToSet(columns) = ToSet(l) \cup ToSet(e)
  <2>1. IsSeq(l \o e) /\ ToSet(l \o e) = ToSet(l) \cup ToSet(e)
    BY <1>1, <1>4, JoinedFacts, Zenon
  <2>q. QED  BY <1>5, <2>1
<1>7. ToSet(columns) = ToSet(l) \cup ToSet(r)
  BY <1>1, <1>2, <1>4, <1>6, SeqFacts
<1>8. columns \in Seq(STRING)
  BY <1>1, <1>6, <1>7, SeqOver
<1>9. (\A v \in ToSet(e) : v \notin ToSet(l)) /\ \A i, j \in DOMAIN e : e[i] = e[j] => i = j
  BY <1>2, <1>4 DEF Picks
<1>10. ASSUME ~Alike(l)  PROVE ~Alike(columns)
  BY <1>1, <1>4, <1>5, <1>9, <1>10, PlainBoth
<1>q. QED  BY <1>7, <1>8, <1>10 DEF columns

\* What a stack is made of.
LEMMA ConcatTable ==
  ASSUME NEW left \in Tables, NEW right \in Tables
  PROVE  /\ MergeConcat(left, right) \in Tables
         /\ ToSet(MergeConcat(left, right).columns) = ToSet(left.columns) \cup ToSet(right.columns)
         /\ ~Alike(left.columns) => ~Alike(MergeConcat(left, right).columns)
<1> DEFINE l == left.columns
           r == right.columns
           columns == StackColumns(l, r)
           p == Projected(left, columns)
           q == Projected(right, columns)
           rows == p \o q
           t == MergeConcat(left, right)
<1>0. Null \in Cells
  BY FederationAssumption
<1>1. l \in Seq(STRING) /\ r \in Seq(STRING)
  BY TableFacts
<1>2. t = ResultSet(columns, rows, left, right)
  BY DEF MergeConcat, StackColumns
<1>3. /\ columns \in Seq(STRING)
      /\ ToSet(columns) = ToSet(l) \cup ToSet(r)
      /\ ~Alike(l) => ~Alike(columns)
  BY <1>1, ConcatColumns
<1> HIDE DEF columns
<1>4. /\ p \in Seq(Seq(Cells)) /\ IsSeq(p) /\ DOMAIN p = DOMAIN left.rows
      /\ \A i \in DOMAIN left.rows : Len(p[i]) = Len(columns)
  BY <1>0, <1>3, ProjectedFacts
<1>5. /\ q \in Seq(Seq(Cells)) /\ IsSeq(q) /\ DOMAIN q = DOMAIN right.rows
      /\ \A i \in DOMAIN right.rows : Len(q[i]) = Len(columns)
  BY <1>0, <1>3, ProjectedFacts
<1> HIDE DEF p, q
<1>6. rows \in Seq(Seq(Cells))
  BY <1>4, <1>5
<1>7. IsSeq(rows) /\ ToSet(rows) = ToSet(p) \cup ToSet(q)
  BY <1>4, <1>5, JoinedFacts, Zenon
<1> HIDE DEF rows
<1>8. \A row \in ToSet(rows) : Len(row) = Len(columns)
  <2>1. \A row \in ToSet(p) : Len(row) = Len(columns)
    BY <1>4 DEF ToSet
  <2>2. \A row \in ToSet(q) : Len(row) = Len(columns)
    BY <1>5 DEF ToSet
  <2>q. QED  BY <1>7, <2>1, <2>2
<1>9. \A i \in DOMAIN rows : Len(rows[i]) = Len(columns)
  BY <1>7, <1>8, SeqFacts
<1>10. t \in Tables
  BY <1>2, <1>3, <1>6, <1>9, MadeTable
<1>11. t.columns = columns
  BY <1>2 DEF ResultSet
<1>q. QED  BY <1>3, <1>10, <1>11 DEF t

\* It is the stack of the bags of rows.
LEMMA ConcatBag ==
  ASSUME NEW left \in Tables, NEW right \in Tables
  PROVE  BagOf(Rows(MergeConcat(left, right))) =
           StackOf(BagOf(Rows(left)), BagOf(Rows(right)), ToSet(left.columns) \cup ToSet(right.columns))
<1> DEFINE l == left.columns
           r == right.columns
           columns == StackColumns(l, r)
           p == Projected(left, columns)
           q == Projected(right, columns)
           D == ToSet(l) \cup ToSet(r)
<1>0. Null \in Cells
  BY FederationAssumption
<1>1. l \in Seq(STRING) /\ r \in Seq(STRING)
  BY TableFacts
<1>2. Rows(MergeConcat(left, right)) = RowsOf(columns, p \o q)
  BY DEF MergeConcat, StackColumns, ResultSet, Rows, RowsOf
<1>3. columns \in Seq(STRING) /\ ToSet(columns) = D
  BY <1>1, ConcatColumns
<1> HIDE DEF columns
<1>4. IsSeq(p) /\ IsSeq(q)
  BY <1>0, <1>3, ProjectedFacts
<1>5. ASSUME NEW t \in {left, right}
      PROVE  BagOf(RowsOf(columns, Projected(t, columns))) = Widened(BagOf(Rows(t)), D)
  <2> DEFINE n == [c \in D |-> Null]
             u == Projected(t, columns)
             f == Rows(t)
  <2>1. t \in Tables /\ ToSet(t.columns) \subseteq D
    OBVIOUS
  <2>2. DOMAIN u = DOMAIN t.rows
    BY <1>0, <1>3, <2>1, ProjectedFacts
  <2>3. ASSUME NEW i \in DOMAIN t.rows
        PROVE  \A c \in D : RowOf(columns, u[i])[c] =
                 IF c \in ToSet(t.columns) THEN RowOf(t.columns, t.rows[i])[c] ELSE Null
    BY <1>0, <1>3, <2>1, ProjectedFacts
  <2> HIDE DEF u
  <2>4. DOMAIN f = DOMAIN t.rows /\ \A i \in DOMAIN t.rows : f[i] = RowOf(t.columns, t.rows[i])
    BY DEF Rows
  <2>5. \A i \in DOMAIN f : IsRow(f[i], ToSet(t.columns))
    BY <2>4, RowOfFacts
  <2> HIDE DEF f, D
  <2>6. ASSUME NEW i \in DOMAIN t.rows  PROVE RowOf(columns, u[i]) = Beside(f[i], n)
    <3>1. IsRow(n, D) /\ \A c \in D : n[c] = Null
      BY DEF IsRow
    <3> HIDE DEF n
    <3>2. IsRow(f[i], ToSet(t.columns))
      BY <2>4, <2>5
    <3>3. IsRow(Beside(f[i], n), ToSet(t.columns) \cup D)
      BY <3>1, <3>2, BesideRow
    <3>4. ToSet(t.columns) \cup D = D
      BY <2>1
    <3>5. ASSUME NEW c \in D  PROVE RowOf(columns, u[i])[c] = Beside(f[i], n)[c]
      <4>1. CASE c \in ToSet(t.columns)
        <5>1. Beside(f[i], n)[c] = f[i][c]
          BY <3>2, <4>1, BesideLeft, Z3
        <5>q. QED  BY <2>3, <2>4, <4>1, <5>1
      <4>2. CASE c \notin ToSet(t.columns)
        <5>1. Beside(f[i], n)[c] = n[c]
          BY <3>1, <3>2, <4>2, BesideRight
        <5>q. QED  BY <2>3, <3>1, <4>2, <5>1
      <4>q. QED  BY <4>1, <4>2
    <3>6. IsRow(RowOf(columns, u[i]), D)
      BY <1>3, RowOfFacts
    <3>q. QED  BY <3>3, <3>4, <3>5, <3>6, SameRow
  <2>7. RowsOf(columns, u) = [i \in DOMAIN f |-> Beside(f[i], n)]
    BY <2>2, <2>4, <2>6 DEF RowsOf
  <2>8. BagOf([i \in DOMAIN f |-> Beside(f[i], n)]) = Widened(BagOf(f), D)
    BY <2>1, <2>5, BagOfWidened, Zenon
  <2>q. QED  BY <2>7, <2>8 DEF u, f
<1> HIDE DEF p, q, D
<1>6. RowsOf(columns, p \o q) = RowsOf(columns, p) \o RowsOf(columns, q)
  BY <1>4, RowsOfBoth, Zenon
<1>7. IsSeq(RowsOf(columns, p)) /\ IsSeq(RowsOf(columns, q))
  BY <1>4, RowsOfBoth, Zenon
<1>8. BagOf(RowsOf(columns, p) \o RowsOf(columns, q)) = BagOf(RowsOf(columns, p)) (+) BagOf(RowsOf(columns, q))
  BY <1>7, BagOfBoth, Zenon
<1>9. BagOf(RowsOf(columns, p)) = Widened(BagOf(Rows(left)), D) /\ BagOf(RowsOf(columns, q)) = Widened(BagOf(Rows(right)), D)
  BY <1>5 DEF p, q
<1>10. BagOf(Rows(MergeConcat(left, right))) = Widened(BagOf(Rows(left)), D) (+) Widened(BagOf(Rows(right)), D)
  BY <1>2, <1>6, <1>8, <1>9
<1>q. QED  BY <1>10 DEF StackOf, D

-----------------------------------------------------------------------------
(* The join *)

\* The columns of the right side that are no keys.
LEMMA ExtraFacts ==
  ASSUME NEW right \in Tables, NEW on
  PROVE  /\ Extra(right, on) \in Seq(STRING) /\ IsSeq(Extra(right, on))
         /\ ToSet(Extra(right, on)) = ToSet(right.columns) \ ToSet(on)
         /\ ~Alike(right.columns) =>
              \A m, n \in DOMAIN Extra(right, on) : Extra(right, on)[m] = Extra(right, on)[n] => m = n
<1> DEFINE r == right.columns
           I == {i \in DOMAIN r : r[i] \notin ToSet(on)}
           e == Extra(right, on)
<1>1. IsSeq(r) /\ ToSet(r) \subseteq STRING
  <2>1. r \in Seq(STRING)
    BY TableFacts
  <2>q. QED  BY <2>1, SeqIsSeq
<1>2. e = InOrder(r, I)
  BY DEF Extra
<1>3. I \subseteq DOMAIN r
  OBVIOUS
<1> HIDE DEF e
<1>4. IsSeq(e) /\ Picks(e, r, I) /\ ToSet(e) = {r[i] : i \in I}
  <2>1. LET f == InOrder(r, I) IN IsSeq(f) /\ Picks(f, r, I) /\ ToSet(f) = {r[i] : i \in I}
    BY <1>1, <1>3, InOrderFacts, PickedSet, Zenon
  <2>q. QED  BY <1>2, <2>1
<1>5. ToSet(e) = ToSet(r) \ ToSet(on)
  <2>1. ToSet(r) = {r[i] : i \in DOMAIN r}
    BY DEF ToSet
  <2>q. QED  BY <1>4, <2>1
<1>6. e \in Seq(STRING)
  BY <1>1, <1>4, <1>5, SeqOver
<1>7. ASSUME ~Alike(r)  PROVE \A m, n \in DOMAIN e : e[m] = e[n] => m = n
  BY <1>4, <1>7 DEF Alike, Picks
<1>q. QED  BY <1>4, <1>5, <1>6, <1>7 DEF e

\* What a joined row is made of.
LEMMA JoinedRow ==
  ASSUME NEW right \in Tables, NEW on, NEW lrow \in Seq(Cells), NEW rrow \in ToSet(right.rows)
  PROVE  LET extra == Extra(right, on)
             row == Joined(lrow, rrow, right, on)
         IN /\ row \in Seq(Cells) /\ Len(row) = Len(lrow) + Len(extra)
            /\ \A i \in DOMAIN lrow : row[i] = lrow[i]
            /\ \A i \in DOMAIN extra : row[Len(lrow) + i] = rrow[Column(right.columns, extra[i])]
<1> DEFINE extra == Extra(right, on)
           tail == [i \in DOMAIN extra |-> rrow[Column(right.columns, extra[i])]]
           row == Joined(lrow, rrow, right, on)
           n == Len(extra)
<1>1. IsSeq(extra) /\ ToSet(extra) \subseteq ToSet(right.columns)
  BY ExtraFacts
<1>2. PICK j \in DOMAIN right.rows : rrow = right.rows[j]
  BY DEF ToSet
<1>3. IsSeq(right.columns) /\ \A i \in DOMAIN right.columns : rrow[i] \in Cells
  BY <1>2, TableFacts
<1>4. row = lrow \o tail
  BY DEF Joined
<1> HIDE DEF extra
<1>5. n \in Nat /\ DOMAIN extra = 1 .. n /\ \A i \in DOMAIN extra : extra[i] \in ToSet(right.columns)
  BY <1>1, SeqFacts
<1>6. ASSUME NEW i \in DOMAIN extra  PROVE rrow[Column(right.columns, extra[i])] \in Cells
  BY <1>3, <1>5, ColumnFacts
<1>7. tail \in Seq(Cells) /\ DOMAIN tail = 1 .. n /\ Len(tail) = n
  BY <1>5, <1>6
<1>8. \A i \in DOMAIN extra : tail[i] = rrow[Column(right.columns, extra[i])]
  OBVIOUS
<1> HIDE DEF tail, row
<1>9. row \in Seq(Cells) /\ Len(row) = Len(lrow) + n
  <2>1. lrow \o tail \in Seq(Cells)
    BY <1>7
  <2>2. Len(lrow \o tail) = Len(lrow) + Len(tail)
    BY <1>7
  <2>q. QED  BY <1>4, <1>7, <2>1, <2>2
<1>10. \A i \in DOMAIN lrow : row[i] = lrow[i]
  <2>1. IsSeq(lrow) /\ IsSeq(tail)
    BY <1>7, SeqIsSeq
  <2>2. \A i \in DOMAIN lrow : (lrow \o tail)[i] = lrow[i]
    BY <2>1, JoinedFacts, Zenon
  <2>q. QED  BY <1>4, <2>2
<1>11. ASSUME NEW i \in 1 .. n  PROVE row[Len(lrow) + i] = tail[i]
  <2>1. IsSeq(lrow) /\ IsSeq(tail) /\ i \in DOMAIN tail
    BY <1>7, SeqIsSeq
  <2>2. (lrow \o tail)[Len(lrow) + i] = tail[i]
    BY <2>1, JoinedRight
  <2>q. QED  BY <1>4, <2>2
<1>q. QED  BY <1>5, <1>8, <1>9, <1>10, <1>11 DEF row, extra

\* The joined rows of each row of the left side.
Blocks(left, right, on) ==
  [i \in DOMAIN left.rows |->
     LET ms == Ascending(Matches(left.rows[i], left, right, on))
     IN [n \in DOMAIN ms |-> Joined(left.rows[i], right.rows[ms[n]], right, on)]]

\* Each member of a set, by one number.
Numbers(p, N, M) ==
  /\ p \in [N -> M]
  /\ \A j \in M : \E n \in N : p[n] = j
  /\ \A m, n \in N : p[m] = p[n] => m = n

\* The block of a left row has one joined row for each match, and no other.
LEMMA BlockFacts ==
  ASSUME NEW left \in Tables, NEW right \in Tables, NEW on, NEW i \in DOMAIN left.rows
  PROVE  LET M == Matches(left.rows[i], left, right, on)
             p == Ascending(M)
             b == Blocks(left, right, on)[i]
         IN /\ M \subseteq DOMAIN right.rows
            /\ Numbers(p, DOMAIN b, M)
            /\ \A n \in DOMAIN b : b[n] = Joined(left.rows[i], right.rows[p[n]], right, on)
            /\ b \in Seq(Seq(Cells))
            /\ \A n \in DOMAIN b : Len(b[n]) = Len(left.columns) + Len(Extra(right, on))
<1> DEFINE M == Matches(left.rows[i], left, right, on)
           p == Ascending(M)
           b == Blocks(left, right, on)[i]
           N == Cardinality(M)
           Row(n) == Joined(left.rows[i], right.rows[p[n]], right, on)
<1>1. /\ IsSeq(right.rows) /\ left.rows[i] \in Seq(Cells) /\ Len(left.rows[i]) = Len(left.columns)
  BY TableFacts
<1>2. M \subseteq DOMAIN right.rows
  BY DEF Matches
<1>3. b = [n \in DOMAIN p |-> Row(n)]
  BY DEF Blocks
<1> HIDE DEF M, b
<1>4. DOMAIN right.rows = 1 .. Len(right.rows) /\ Len(right.rows) \in Nat
  BY <1>1, SeqFacts
<1>5. M \in SUBSET Nat /\ IsFiniteSet(M)
  <2>1. IsFiniteSet(DOMAIN right.rows)
    <3>1. 1 \in Int /\ Len(right.rows) \in Int
      BY <1>4
    <3>2. IsFiniteSet(1 .. Len(right.rows))
      BY <3>1, FS_Interval, Zenon
    <3>q. QED  BY <1>4, <3>2
  <2>2. IsFiniteSet(M)
    BY <1>2, <2>1, FS_Subset, Zenon
  <2>q. QED  BY <1>2, <1>4, <2>2
<1>6. /\ N \in Nat /\ p \in [1 .. N -> M]
      /\ \A j \in M : \E n \in 1 .. N : p[n] = j
      /\ \A m, n \in 1 .. N : p[m] = p[n] => m = n
  BY <1>5, AscendingFacts, Zenon
<1> HIDE DEF p, N, Row
<1>7. b = [n \in 1 .. N |-> Row(n)]
  BY <1>3, <1>6
<1>8. ASSUME NEW n \in 1 .. N  PROVE Row(n) \in Seq(Cells) /\ Len(Row(n)) = Len(left.columns) + Len(Extra(right, on))
  <2>1. right.rows[p[n]] \in ToSet(right.rows)
    BY <1>2, <1>6 DEF ToSet
  <2> DEFINE l == left.rows[i]
             r == right.rows[p[n]]
  <2> HIDE DEF l, r
  <2>2. l \in Seq(Cells) /\ r \in ToSet(right.rows)
    BY <1>1, <2>1 DEF l, r
  <2>3. Joined(l, r, right, on) \in Seq(Cells) /\ Len(Joined(l, r, right, on)) = Len(l) + Len(Extra(right, on))
    BY <2>2, JoinedRow
  <2>q. QED  BY <1>1, <2>3 DEF Row, l, r
<1>9. b \in Seq(Seq(Cells)) /\ DOMAIN b = 1 .. N
  BY <1>6, <1>7, <1>8
<1>10. \A n \in DOMAIN b : b[n] = Row(n) /\ Len(b[n]) = Len(left.columns) + Len(Extra(right, on))
  BY <1>7, <1>8, <1>9
<1>11. Numbers(p, DOMAIN b, M)
  BY <1>6, <1>9 DEF Numbers
<1>q. QED  BY <1>2, <1>9, <1>10, <1>11 DEF M, p, b, Row

\* There is one block for each row of the left side.
LEMMA BlocksSeq ==
  ASSUME NEW left \in Tables, NEW right \in Tables, NEW on
  PROVE  /\ Blocks(left, right, on) \in Seq(Seq(Seq(Cells)))
         /\ DOMAIN Blocks(left, right, on) = DOMAIN left.rows
<1> DEFINE s == Blocks(left, right, on)
<1>1. IsSeq(left.rows)
  BY TableFacts
<1>2. DOMAIN left.rows = 1 .. Len(left.rows) /\ Len(left.rows) \in Nat
  BY <1>1, SeqFacts
<1>3. s = [i \in DOMAIN left.rows |-> s[i]]
  BY DEF Blocks
<1>4. \A i \in DOMAIN left.rows : s[i] \in Seq(Seq(Cells))
  BY BlockFacts
<1> HIDE DEF s
<1>5. s \in Seq(Seq(Seq(Cells))) /\ DOMAIN s = DOMAIN left.rows
  BY <1>2, <1>3, <1>4
<1>q. QED  BY <1>5 DEF s

\* What a join is made of.
LEMMA JoinTable ==
  ASSUME NEW left \in Tables, NEW right \in Tables, NEW on
  PROVE  /\ MergeJoin(left, right, on) \in Tables
         /\ ToSet(on) \subseteq ToSet(left.columns) =>
              ToSet(MergeJoin(left, right, on).columns) = ToSet(left.columns) \cup ToSet(right.columns)
<1> DEFINE e == Extra(right, on)
           columns == left.columns \o e
           s == Blocks(left, right, on)
           rows == FlattenSeq(s)
           t == MergeJoin(left, right, on)
<1>1. t = ResultSet(columns, rows, left, right)
  BY DEF MergeJoin, Blocks
<1>2. left.columns \in Seq(STRING) /\ IsSeq(left.columns)
  BY TableFacts
<1>3. e \in Seq(STRING) /\ IsSeq(e) /\ ToSet(e) = ToSet(right.columns) \ ToSet(on)
  BY ExtraFacts
<1>4. s \in Seq(Seq(Seq(Cells))) /\ DOMAIN s = DOMAIN left.rows
  BY BlocksSeq
<1>5. \A i \in DOMAIN left.rows : \A n \in DOMAIN s[i] : Len(s[i][n]) = Len(left.columns) + Len(e)
  BY BlockFacts
<1> HIDE DEF s, e, t
<1>6. columns \in Seq(STRING) /\ Len(columns) = Len(left.columns) + Len(e)
  BY <1>2, <1>3
<1>7. ToSet(columns) = ToSet(left.columns) \cup ToSet(e)
  BY <1>2, <1>3, JoinedFacts, Zenon
<1> HIDE DEF columns
<1>8. rows \in Seq(Seq(Cells)) /\ ToSet(rows) = UNION {ToSet(s[i]) : i \in DOMAIN s}
  BY <1>4, FlattenFacts, Zenon
<1> HIDE DEF rows
<1>9. \A row \in ToSet(rows) : Len(row) = Len(columns)
  <2>1. ASSUME NEW row \in ToSet(rows)  PROVE Len(row) = Len(columns)
    <3>1. PICK i \in DOMAIN s : row \in ToSet(s[i])
      BY <1>8
    <3>2. PICK n \in DOMAIN s[i] : row = s[i][n]
      BY <3>1 DEF ToSet
    <3>q. QED  BY <1>4, <1>5, <1>6, <3>2
  <2>q. QED  BY <2>1
<1>10. \A i \in DOMAIN rows : rows[i] \in ToSet(rows)
  BY DEF ToSet
<1>11. t \in Tables
  BY <1>1, <1>6, <1>8, <1>9, <1>10, MadeTable
<1>12. t.columns = columns
  BY <1>1 DEF ResultSet
<1>13. ToSet(on) \subseteq ToSet(left.columns) => ToSet(columns) = ToSet(left.columns) \cup ToSet(right.columns)
  BY <1>3, <1>7
<1>q. QED  BY <1>11, <1>12, <1>13 DEF t

\* No name comes twice when the sides share only keys.
LEMMA JoinPlain ==
  ASSUME NEW left \in Tables, NEW right \in Tables, NEW on,
         ~Alike(left.columns), ~Alike(right.columns),
         ToSet(left.columns) \cap ToSet(right.columns) \subseteq ToSet(on)
  PROVE  ~Alike(MergeJoin(left, right, on).columns)
<1> DEFINE e == Extra(right, on)
           l == left.columns
<1>1. IsSeq(l)
  BY TableFacts
<1>2. /\ IsSeq(e) /\ ToSet(e) = ToSet(right.columns) \ ToSet(on)
      /\ \A m, n \in DOMAIN e : e[m] = e[n] => m = n
  BY ExtraFacts
<1>3. MergeJoin(left, right, on).columns = l \o e
  BY DEF MergeJoin, ResultSet
<1> HIDE DEF e
<1>4. \A v \in ToSet(e) : v \notin ToSet(l)
  BY <1>2
<1>q. QED  BY <1>1, <1>2, <1>3, <1>4, PlainBoth

\* A joined row is one row beside the other.
LEMMA JoinedBeside ==
  ASSUME NEW left \in Tables, NEW right \in Tables, NEW on,
         ~Alike(left.columns), ~Alike(right.columns),
         ToSet(left.columns) \cap ToSet(right.columns) = ToSet(on),
         NEW lrow \in ToSet(left.rows), NEW rrow \in ToSet(right.rows)
  PROVE  RowOf(left.columns \o Extra(right, on), Joined(lrow, rrow, right, on)) =
           Beside(RowOf(left.columns, lrow), RowOf(right.columns, rrow))
<1> DEFINE l == left.columns
           r == right.columns
           e == Extra(right, on)
           columns == l \o e
           row == Joined(lrow, rrow, right, on)
           u == RowOf(l, lrow)
           v == RowOf(r, rrow)
           C == ToSet(l)
           D == ToSet(r)
<1>1. IsSeq(l) /\ IsSeq(r)
  BY TableFacts
<1>2. /\ IsSeq(e) /\ ToSet(e) = D \ ToSet(on)
  BY ExtraFacts
<1>3. PICK i \in DOMAIN left.rows : lrow = left.rows[i]
  BY DEF ToSet
<1>4. lrow \in Seq(Cells) /\ Len(lrow) = Len(l) /\ DOMAIN lrow = DOMAIN l
  BY <1>3, TableFacts
<1>5. ~Alike(columns)
  <2>1. ~Alike(MergeJoin(left, right, on).columns)
    BY JoinPlain
  <2>q. QED  BY <2>1 DEF MergeJoin, ResultSet
<1>6. /\ \A k \in DOMAIN lrow : row[k] = lrow[k]
      /\ \A k \in DOMAIN e : row[Len(lrow) + k] = rrow[Column(r, e[k])]
  BY <1>4, JoinedRow
<1>7. IsRow(u, C) /\ \A c \in C : u[c] = lrow[Column(l, c)]
  BY RowOfFacts
<1>8. IsRow(v, D) /\ \A c \in D : v[c] = rrow[Column(r, c)]
  BY RowOfFacts
<1> HIDE DEF e, row, u, v
<1>9. IsSeq(columns) /\ ToSet(columns) = C \cup ToSet(e)
  BY <1>1, <1>2, JoinedFacts, Zenon
<1>10. \A k \in DOMAIN l : k \in DOMAIN columns /\ columns[k] = l[k]
  BY <1>1, <1>2, JoinedFacts, Zenon
<1>11. ASSUME NEW k \in DOMAIN e  PROVE Len(l) + k \in DOMAIN columns /\ columns[Len(l) + k] = e[k]
  <2>1. Len(l) + k \in DOMAIN columns
    BY <1>1, <1>2, JoinedFacts, Zenon
  <2>q. QED  BY <1>1, <1>2, <2>1, JoinedRight
<1> HIDE DEF columns, l, r
<1>12. ToSet(columns) = C \cup D
  BY <1>2, <1>9 DEF l, r
<1> HIDE DEF C, D
<1>13. ASSUME NEW c \in C \cup D  PROVE RowOf(columns, row)[c] = Beside(u, v)[c]
  <2>1. RowOf(columns, row)[c] = row[Column(columns, c)]
    BY <1>12, RowOfFacts
  <2>2. CASE c \in C
    <3>1. Column(l, c) \in DOMAIN l /\ l[Column(l, c)] = c
      BY <1>1, <2>2, ColumnFacts DEF C
    <3>2. Column(l, c) \in DOMAIN columns /\ columns[Column(l, c)] = c
      BY <1>10, <3>1
    <3>3. Column(columns, c) = Column(l, c)
      BY <1>5, <1>9, <3>2, ColumnAt
    <3>4. Beside(u, v)[c] = u[c]
      BY <1>7, <2>2, BesideLeft, Z3
    <3>q. QED  BY <1>4, <1>6, <1>7, <2>1, <2>2, <3>1, <3>3, <3>4
  <2>3. CASE c \notin C
    <3>1. PICK k \in DOMAIN e : e[k] = c
      BY <1>9, <1>12, <2>3 DEF ToSet
    <3>2. Column(columns, c) = Len(l) + k
      BY <1>5, <1>9, <1>11, <3>1, ColumnAt
    <3>3. Beside(u, v)[c] = v[c]
      BY <1>7, <1>8, <2>3, BesideRight
    <3>4. c \in D
      BY <2>3
    <3>q. QED  BY <1>4, <1>6, <1>8, <2>1, <3>1, <3>2, <3>3, <3>4
  <2>q. QED  BY <2>2, <2>3
<1>14. IsRow(RowOf(columns, row), C \cup D)
  BY <1>12, RowOfFacts
<1>15. IsRow(Beside(u, v), C \cup D)
  BY <1>7, <1>8, BesideRow
<1>16. RowOf(columns, row) = Beside(u, v)
  BY <1>13, <1>14, <1>15, SameRow
<1>q. QED  BY <1>16 DEF columns, l, r, e, row, u, v

\* Rows have one key where they agree on its columns.
LEMMA SameKey ==
  ASSUME NEW left, NEW lrow, NEW right, NEW rrow, NEW on,
         ToSet(on) \subseteq ToSet(left.columns), ToSet(on) \subseteq ToSet(right.columns)
  PROVE  KeyOf(right, rrow, on) = KeyOf(left, lrow, on)
           <=> \A c \in ToSet(on) : RowOf(left.columns, lrow)[c] = RowOf(right.columns, rrow)[c]
<1> DEFINE Cell(rs, row, c) == row[Column(rs.columns, c)]
<1>1. KeyOf(right, rrow, on) = [i \in DOMAIN on |-> Cell(right, rrow, on[i])]
  BY DEF KeyOf
<1>2. KeyOf(left, lrow, on) = [i \in DOMAIN on |-> Cell(left, lrow, on[i])]
  BY DEF KeyOf
<1>3. \A c \in ToSet(on) : RowOf(left.columns, lrow)[c] = Cell(left, lrow, c)
  BY RowOfFacts
<1>4. \A c \in ToSet(on) : RowOf(right.columns, rrow)[c] = Cell(right, rrow, c)
  BY RowOfFacts
<1> HIDE DEF Cell
<1>5. ToSet(on) = {on[i] : i \in DOMAIN on}
  BY DEF ToSet
<1>6. KeyOf(right, rrow, on) = KeyOf(left, lrow, on)
        <=> \A i \in DOMAIN on : Cell(right, rrow, on[i]) = Cell(left, lrow, on[i])
  BY <1>1, <1>2
<1>q. QED  BY <1>3, <1>4, <1>5, <1>6

\* The joined rows in their places in the blocks.
Placed(left, right, on) ==
  [q \in Spots(Blocks(left, right, on)) |->
     RowOf(left.columns \o Extra(right, on), Blocks(left, right, on)[q[1]][q[2]])]

\* They are those of the rows that agree on the keys.
LEMMA JoinSpots ==
  ASSUME NEW left \in Tables, NEW right \in Tables, NEW on,
         ~Alike(left.columns), ~Alike(right.columns),
         ToSet(left.columns) \cap ToSet(right.columns) = ToSet(on)
  PROVE  Rearranged(Placed(left, right, on), Besides(Rows(left), Rows(right), ToSet(on)))
<1> DEFINE columns == left.columns \o Extra(right, on)
           s == Blocks(left, right, on)
           L == Rows(left)
           R == Rows(right)
           P == Agreeing(L, R, ToSet(on))
           f == Placed(left, right, on)
           g == Besides(L, R, ToSet(on))
<1>00. /\ f = [q \in Spots(s) |-> RowOf(columns, s[q[1]][q[2]])]
       /\ g = [q \in P |-> Beside(L[q[1]], R[q[2]])]
       /\ P = {q \in (DOMAIN L) \X (DOMAIN R) : \A c \in ToSet(on) : L[q[1]][c] = R[q[2]][c]}
  BY DEF Placed, Besides, Agreeing
<1>01. s = Blocks(left, right, on) /\ columns = left.columns \o Extra(right, on)
  OBVIOUS
<1> DEFINE M(i) == Matches(left.rows[i], left, right, on)
           a(i) == Ascending(M(i))
           p == [q \in Spots(s) |-> <<q[1], a(q[1])[q[2]]>>]
<1>1. /\ DOMAIN L = DOMAIN left.rows /\ \A i \in DOMAIN left.rows : L[i] = RowOf(left.columns, left.rows[i])
      /\ DOMAIN R = DOMAIN right.rows /\ \A i \in DOMAIN right.rows : R[i] = RowOf(right.columns, right.rows[i])
  BY DEF Rows
<1>2. DOMAIN s = DOMAIN left.rows
  BY BlocksSeq
<1> HIDE DEF L, R, P, f, g, s, columns
<1>3. ASSUME NEW i \in DOMAIN left.rows
      PROVE  /\ M(i) \subseteq DOMAIN right.rows
             /\ a(i) \in [DOMAIN s[i] -> M(i)]
             /\ \A j \in M(i) : \E n \in DOMAIN s[i] : a(i)[n] = j
             /\ \A m, n \in DOMAIN s[i] : a(i)[m] = a(i)[n] => m = n
             /\ \A n \in DOMAIN s[i] : s[i][n] = Joined(left.rows[i], right.rows[a(i)[n]], right, on)
  <2>1. s[i] = Blocks(left, right, on)[i]
    BY <1>01
  <2>2. M(i) \subseteq DOMAIN right.rows
    BY BlockFacts
  <2>3. Numbers(a(i), DOMAIN s[i], M(i))
    BY <2>1, BlockFacts
  <2>4. /\ a(i) \in [DOMAIN s[i] -> M(i)] /\ \A j \in M(i) : \E n \in DOMAIN s[i] : a(i)[n] = j
        /\ \A m, n \in DOMAIN s[i] : a(i)[m] = a(i)[n] => m = n
    <3> HIDE DEF M, a
    <3>q. QED  BY <2>3 DEF Numbers
  <2>5. \A n \in DOMAIN s[i] : s[i][n] = Joined(left.rows[i], right.rows[a(i)[n]], right, on)
    BY <2>1, BlockFacts
  <2>q. QED  BY <2>2, <2>4, <2>5
<1>4. ASSUME NEW i \in DOMAIN left.rows, NEW j \in DOMAIN right.rows
      PROVE  j \in M(i) <=> <<i, j>> \in P
  <2> DEFINE lrow == left.rows[i]
             rrow == right.rows[j]
  <2>1. ToSet(on) \subseteq ToSet(left.columns) /\ ToSet(on) \subseteq ToSet(right.columns)
    OBVIOUS
  <2>2. KeyOf(right, rrow, on) = KeyOf(left, lrow, on)
          <=> \A c \in ToSet(on) : RowOf(left.columns, lrow)[c] = RowOf(right.columns, rrow)[c]
    BY <2>1, SameKey
  <2>3. j \in M(i) <=> KeyOf(right, rrow, on) = KeyOf(left, lrow, on)
    BY DEF Matches
  <2>4. <<i, j>> \in P <=> \A c \in ToSet(on) : L[i][c] = R[j][c]
    BY <1>00, <1>1
  <2>q. QED  BY <1>1, <2>2, <2>3, <2>4
<1>5. ASSUME NEW i \in DOMAIN left.rows, NEW j \in DOMAIN right.rows
      PROVE  RowOf(columns, Joined(left.rows[i], right.rows[j], right, on)) = Beside(L[i], R[j])
  <2> DEFINE lrow == left.rows[i]
             rrow == right.rows[j]
  <2>1. lrow \in ToSet(left.rows) /\ rrow \in ToSet(right.rows)
    BY DEF ToSet
  <2> HIDE DEF lrow, rrow
  <2>2. RowOf(columns, Joined(lrow, rrow, right, on)) = Beside(RowOf(left.columns, lrow), RowOf(right.columns, rrow))
    BY <1>01, <2>1, JoinedBeside
  <2>q. QED  BY <1>1, <2>2 DEF lrow, rrow
<1> HIDE DEF M, a
<1>6. ASSUME NEW q \in Spots(s)
      PROVE  q[1] \in DOMAIN left.rows /\ q[2] \in DOMAIN s[q[1]] /\ q = <<q[1], q[2]>>
  BY <1>2 DEF Spots
<1>7. ASSUME NEW i \in DOMAIN left.rows, NEW n \in DOMAIN s[i]  PROVE <<i, n>> \in Spots(s)
  BY <1>2 DEF Spots
<1>8. ASSUME NEW i \in DOMAIN left.rows, NEW n \in DOMAIN s[i]
      PROVE  /\ a(i)[n] \in DOMAIN right.rows /\ <<i, a(i)[n]>> \in P
             /\ f[<<i, n>>] = g[<<i, a(i)[n]>>]
  <2>1. a(i)[n] \in M(i) /\ a(i)[n] \in DOMAIN right.rows
    BY <1>3
  <2>2. <<i, a(i)[n]>> \in P
    BY <1>4, <2>1
  <2>3. s[i][n] = Joined(left.rows[i], right.rows[a(i)[n]], right, on)
    BY <1>3
  <2>4. RowOf(columns, s[i][n]) = Beside(L[i], R[a(i)[n]])
    BY <1>5, <2>1, <2>3
  <2>5. f[<<i, n>>] = RowOf(columns, s[i][n])
    BY <1>00, <1>7
  <2>6. g[<<i, a(i)[n]>>] = Beside(L[i], R[a(i)[n]])
    BY <1>00, <2>2
  <2>q. QED  BY <2>1, <2>2, <2>4, <2>5, <2>6
<1>9. DOMAIN f = Spots(s) /\ DOMAIN g = P
  BY <1>00
<1>10. \A i \in DOMAIN left.rows : \A n \in DOMAIN s[i] : p[<<i, n>>] = <<i, a(i)[n]>>
  BY <1>7
<1>11. p = [q \in Spots(s) |-> p[q]]
  OBVIOUS
<1>12. \A q \in P : q[1] \in DOMAIN left.rows /\ q[2] \in DOMAIN right.rows /\ q = <<q[1], q[2]>>
  BY <1>00, <1>1
<1> HIDE DEF p
<1>13. ASSUME NEW q \in Spots(s)  PROVE p[q] \in P /\ f[q] = g[p[q]]
  <2>1. q[1] \in DOMAIN left.rows /\ q[2] \in DOMAIN s[q[1]] /\ q = <<q[1], q[2]>>
    BY <1>6
  <2>2. p[<<q[1], q[2]>>] = <<q[1], a(q[1])[q[2]]>>
    BY <1>10, <2>1, Zenon
  <2>3. <<q[1], a(q[1])[q[2]]>> \in P /\ f[<<q[1], q[2]>>] = g[<<q[1], a(q[1])[q[2]]>>]
    BY <1>8, <2>1, Zenon
  <2>q. QED  BY <2>1, <2>2, <2>3, Zenon
<1>14. ASSUME NEW y \in P  PROVE \E q \in Spots(s) : p[q] = y
  <2>1. PICK i \in DOMAIN left.rows, j \in DOMAIN right.rows : y = <<i, j>>
    BY <1>12
  <2>2. j \in M(i)
    BY <1>4, <2>1
  <2>3. PICK n \in DOMAIN s[i] : a(i)[n] = j
    BY <1>3, <2>2
  <2>4. <<i, n>> \in Spots(s) /\ p[<<i, n>>] = y
    BY <1>7, <1>10, <2>1, <2>3
  <2>q. QED  BY <2>4
<1>15. ASSUME NEW q \in Spots(s), NEW r \in Spots(s), p[q] = p[r]  PROVE q = r
  <2>1. q[1] \in DOMAIN left.rows /\ q[2] \in DOMAIN s[q[1]] /\ q = <<q[1], q[2]>>
    BY <1>6
  <2>2. r[1] \in DOMAIN left.rows /\ r[2] \in DOMAIN s[r[1]] /\ r = <<r[1], r[2]>>
    BY <1>6
  <2>3. p[q] = <<q[1], a(q[1])[q[2]]>>
    BY <1>10, <2>1, Zenon
  <2>4. p[r] = <<r[1], a(r[1])[r[2]]>>
    BY <1>10, <2>2, Zenon
  <2>5. q[1] = r[1] /\ a(q[1])[q[2]] = a(r[1])[r[2]]
    <3>1. <<q[1], a(q[1])[q[2]]>> = <<r[1], a(r[1])[r[2]]>>
      BY <1>15, <2>3, <2>4, Zenon
    <3>q. QED  BY <3>1
  <2>6. r[2] \in DOMAIN s[q[1]] /\ a(q[1])[q[2]] = a(q[1])[r[2]]
    BY <2>2, <2>5
  <2>7. q[2] = r[2]
    <3>1. \A m, n \in DOMAIN s[q[1]] : a(q[1])[m] = a(q[1])[n] => m = n
      BY <1>3, <2>1
    <3>q. QED  BY <2>1, <2>6, <3>1, Zenon
  <2>q. QED  BY <2>1, <2>2, <2>5, <2>7
<1>16. /\ p \in [DOMAIN f -> DOMAIN g]
       /\ \A x \in DOMAIN f : f[x] = g[p[x]]
       /\ \A y \in DOMAIN g : \E x \in DOMAIN f : p[x] = y
       /\ \A x, y \in DOMAIN f : p[x] = p[y] => x = y
  BY <1>9, <1>11, <1>13, <1>14, <1>15
<1>17. Rearranged(f, g)
  BY <1>16, Zenon DEF Rearranged
<1>q. QED  BY <1>17 DEF f, g, L, R

\* A sequence has finitely many places.
LEMMA FinitePlaces ==
  ASSUME NEW s, IsSeq(s)
  PROVE  IsFiniteSet(DOMAIN s)
<1>1. DOMAIN s = 1 .. Len(s) /\ 1 \in Int /\ Len(s) \in Int
  BY SeqFacts
<1>2. IsFiniteSet(1 .. Len(s))
  BY <1>1, FS_Interval, Zenon
<1>q. QED  BY <1>1, <1>2

\* The same rows, read as relations have them.
LEMMA RearrangedRows ==
  ASSUME NEW f, NEW g, Rearranged(f, g), NEW columns
  PROVE  Rearranged([x \in DOMAIN f |-> RowOf(columns, f[x])], [y \in DOMAIN g |-> RowOf(columns, g[y])])
<1> DEFINE a == [x \in DOMAIN f |-> RowOf(columns, f[x])]
           b == [y \in DOMAIN g |-> RowOf(columns, g[y])]
<1>1. PICK p \in [DOMAIN f -> DOMAIN g] :
        /\ \A x \in DOMAIN f : f[x] = g[p[x]]
        /\ \A y \in DOMAIN g : \E x \in DOMAIN f : p[x] = y
        /\ \A x, y \in DOMAIN f : p[x] = p[y] => x = y
  BY DEF Rearranged
<1>2. /\ DOMAIN a = DOMAIN f /\ \A x \in DOMAIN f : a[x] = RowOf(columns, f[x])
      /\ DOMAIN b = DOMAIN g /\ \A y \in DOMAIN g : b[y] = RowOf(columns, g[y])
  OBVIOUS
<1> HIDE DEF a, b
<1>3. /\ p \in [DOMAIN a -> DOMAIN b]
      /\ \A x \in DOMAIN a : a[x] = b[p[x]]
      /\ \A y \in DOMAIN b : \E x \in DOMAIN a : p[x] = y
      /\ \A x, y \in DOMAIN a : p[x] = p[y] => x = y
  BY <1>1, <1>2
<1>4. Rearranged(a, b)
  BY <1>3, Zenon DEF Rearranged
<1>q. QED  BY <1>4 DEF a, b

\* Between tables whose only common columns are the keys, it is the join of the bags of rows.
LEMMA JoinBag ==
  ASSUME NEW left \in Tables, NEW right \in Tables, NEW on,
         ~Alike(left.columns), ~Alike(right.columns),
         ToSet(left.columns) \cap ToSet(right.columns) = ToSet(on)
  PROVE  BagOf(Rows(MergeJoin(left, right, on))) = JoinOf(BagOf(Rows(left)), BagOf(Rows(right)), ToSet(on))
<1> DEFINE columns == left.columns \o Extra(right, on)
           s == Blocks(left, right, on)
           rows == FlattenSeq(s)
           L == Rows(left)
           R == Rows(right)
           P == Agreeing(L, R, ToSet(on))
           f == [q \in Spots(s) |-> s[q[1]][q[2]]]
           fr == Placed(left, right, on)
           g == Besides(L, R, ToSet(on))
           h == Rows(MergeJoin(left, right, on))
<1>1. h = [i \in DOMAIN rows |-> RowOf(columns, rows[i])]
  BY DEF MergeJoin, Blocks, ResultSet, Rows
<1>2. Rearranged(f, rows)
  <2>1. s \in Seq(Seq(Seq(Cells)))
    BY BlocksSeq
  <2> HIDE DEF s
  <2>q. QED  BY <2>1, FlattenPlaces, Zenon
<1>3. Rearranged(fr, g)
  BY JoinSpots
<1>4. fr = [x \in DOMAIN f |-> RowOf(columns, f[x])]
  BY DEF Placed
<1>5. IsFiniteSet(DOMAIN L) /\ IsFiniteSet(DOMAIN R)
  <2>1. IsSeq(left.rows) /\ IsSeq(right.rows)
    BY TableFacts
  <2>2. DOMAIN L = DOMAIN left.rows /\ DOMAIN R = DOMAIN right.rows
    BY DEF Rows
  <2>q. QED  BY <2>1, <2>2, FinitePlaces
<1>6. /\ \A i \in DOMAIN L : IsRow(L[i], ToSet(left.columns))
      /\ \A i \in DOMAIN R : IsRow(R[i], ToSet(right.columns))
  BY RowOfFacts DEF Rows
<1>7. DOMAIN fr = Spots(s) /\ DOMAIN g = P
  BY DEF Placed, Besides
<1>8. P \subseteq (DOMAIN L) \X (DOMAIN R)
  BY DEF Agreeing
<1>9. BagOf(g) = JoinOf(BagOf(L), BagOf(R), ToSet(on))
  <2> HIDE DEF L, R
  <2>1. AreRows(L, ToSet(left.columns)) /\ AreRows(R, ToSet(right.columns))
    BY <1>5, <1>6 DEF AreRows
  <2>q. QED  BY <2>1, BagOfPairs, Zenon
<1> HIDE DEF columns, s, rows, L, R, P, f, fr, g, h
<1>10. Rearranged(fr, h)
  BY <1>1, <1>2, <1>4, RearrangedRows
<1>11. IsFiniteSet(DOMAIN fr)
  <2>1. IsFiniteSet((DOMAIN L) \X (DOMAIN R))
    BY <1>5, FS_Product, Zenon
  <2>2. IsFiniteSet(P)
    BY <1>8, <2>1, FS_Subset, Zenon
  <2>3. PICK p \in [DOMAIN fr -> DOMAIN g] : \A x, y \in DOMAIN fr : p[x] = p[y] => x = y
    BY <1>3 DEF Rearranged
  <2>4. p \in Injection(DOMAIN fr, DOMAIN g)
    BY <2>3 DEF Injection, IsInjective
  <2>5. IsFiniteSet(DOMAIN g)
    BY <1>7, <2>2
  <2>q. QED  BY <2>4, <2>5, FS_Injection, Zenon
<1>12. BagOf(fr) = BagOf(h)
  BY <1>10, <1>11, SameBag
<1>13. BagOf(fr) = BagOf(g)
  BY <1>3, <1>11, SameBag
<1>14. BagOf(h) = JoinOf(BagOf(L), BagOf(R), ToSet(on))
  BY <1>9, <1>12, <1>13
<1>q. QED  BY <1>14 DEF h, L, R

-----------------------------------------------------------------------------
(* What a step means *)

\* A table without two columns of one name, and the relation it stands for.
Reads(t, m) ==
  /\ t \in Tables /\ ~Alike(t.columns)
  /\ m.columns = ToSet(t.columns) /\ m.bag = BagOf(Rows(t))

\* The cells a step compares, row by row.
Compares(b, X) == UNION {{f[c] : c \in X} : f \in DOMAIN b}
CellsOf(t, i, X) == {RowOf(t.columns, t.rows[i])[c] : c \in X}

\* A step compares a list or a document just where some row holds one.
LEMMA ComparedCells ==
  ASSUME NEW t, NEW X
  PROVE  Compares(BagOf(Rows(t)), X) \cap Nested # {}
           <=> \E i \in DOMAIN t.rows : CellsOf(t, i, X) \cap Nested # {}
<1> DEFINE K(i) == CellsOf(t, i, X)
<1>1. DOMAIN BagOf(Rows(t)) = {RowOf(t.columns, t.rows[i]) : i \in DOMAIN t.rows}
  <2>1. DOMAIN BagOf(Rows(t)) = ToSet(Rows(t))
    BY BagFacts, Zenon
  <2>q. QED  BY <2>1 DEF Rows, ToSet
<1>2. Compares(BagOf(Rows(t)), X) = UNION {K(i) : i \in DOMAIN t.rows}
  BY <1>1 DEF Compares, CellsOf
<1> DEFINE U == UNION {K(i) : i \in DOMAIN t.rows}
<1> HIDE DEF K
<1>3. U \cap Nested # {} <=> \E i \in DOMAIN t.rows : K(i) \cap Nested # {}
  <2>1. ASSUME U \cap Nested # {}  PROVE \E i \in DOMAIN t.rows : K(i) \cap Nested # {}
    <3>1. PICK v : v \in U /\ v \in Nested
      BY <2>1
    <3>2. PICK i \in DOMAIN t.rows : v \in K(i)
      BY <3>1
    <3>3. K(i) \cap Nested # {}
      BY <3>1, <3>2
    <3>q. QED  BY <3>3
  <2>2. ASSUME NEW i \in DOMAIN t.rows, K(i) \cap Nested # {}  PROVE U \cap Nested # {}
    <3>1. PICK v : v \in K(i) /\ v \in Nested
      BY <2>2
    <3>2. v \in U
      BY <3>1
    <3>q. QED  BY <3>1, <3>2
  <2>q. QED  BY <2>1, <2>2
<1>q. QED  BY <1>2, <1>3 DEF K

\* A key can be hashed when none of its cells is a list or a document.
LEMMA KeyCells ==
  ASSUME NEW t, NEW n, NEW on, ToSet(on) \subseteq ToSet(t.columns)
  PROVE  Hashable(KeyOf(t, t.rows[n], on)) <=> CellsOf(t, n, ToSet(on)) \cap Nested = {}
<1> DEFINE row == t.rows[n]
           k == KeyOf(t, row, on)
<1>1. DOMAIN k = DOMAIN on /\ \A i \in DOMAIN on : k[i] = row[Column(t.columns, on[i])]
  BY DEF KeyOf
<1>2. \A c \in ToSet(on) : RowOf(t.columns, row)[c] = row[Column(t.columns, c)]
  BY RowOfFacts
<1> HIDE DEF k
<1>3. ToSet(on) = {on[i] : i \in DOMAIN on}
  BY DEF ToSet
<1>4. ToSet(k) = {k[i] : i \in DOMAIN on}
  BY <1>1 DEF ToSet
<1>5. ToSet(k) = {RowOf(t.columns, row)[c] : c \in ToSet(on)}
  <2>1. \A i \in DOMAIN on : k[i] = RowOf(t.columns, row)[on[i]]
    BY <1>1, <1>2, <1>3
  <2>q. QED  BY <1>3, <1>4, <2>1
<1>q. QED  BY <1>5 DEF Hashable, CellsOf, k

\* So can a whole row, in a table without two columns of one name.
LEMMA RowCells ==
  ASSUME NEW t \in Tables, ~Alike(t.columns), NEW i \in DOMAIN t.rows
  PROVE  Hashable(t.rows[i]) <=> CellsOf(t, i, ToSet(t.columns)) \cap Nested = {}
<1> DEFINE row == t.rows[i]
           columns == t.columns
<1>1. IsSeq(columns) /\ DOMAIN row = DOMAIN columns
  BY TableFacts
<1>2. \A c \in ToSet(columns) : RowOf(columns, row)[c] = row[Column(columns, c)]
  BY RowOfFacts
<1> HIDE DEF row, columns
<1>3. ToSet(columns) = {columns[j] : j \in DOMAIN columns} /\ ToSet(row) = {row[j] : j \in DOMAIN columns}
  BY <1>1 DEF ToSet
<1>4. \A j \in DOMAIN columns : Column(columns, columns[j]) = j
  BY <1>1, ColumnAt DEF columns
<1>5. \A j \in DOMAIN columns : row[j] = RowOf(columns, row)[columns[j]]
  BY <1>2, <1>3, <1>4
<1>6. ToSet(row) = {RowOf(columns, row)[c] : c \in ToSet(columns)}
  BY <1>3, <1>5
<1>q. QED  BY <1>6 DEF Hashable, CellsOf, row, columns

\* A step raises just where it has no meaning.
LEMMA JoinSense ==
  ASSUME NEW step, step.kind = "join", step.on # <<>>,
         NEW left, NEW l, Reads(left, l), NEW right, NEW r, Reads(right, r)
  PROVE  Raises(step, left, right) <=> Senseless(step, l, r)
<1> DEFINE O == ToSet(step.on)
           Bad(t) == \E i \in DOMAIN t.rows : ~Hashable(KeyOf(t, t.rows[i], step.on))
           Odd(b) == Compares(b, O) \cap Nested # {}
<1>1. Raises(step, left, right)
        <=> ~(O \subseteq ToSet(left.columns) \cap ToSet(right.columns)) \/ Bad(left) \/ Bad(right)
  BY DEF Raises, JoinRaises
<1>2. Senseless(step, l, r) <=> ~(O \subseteq l.columns \cap r.columns) \/ Odd(l.bag) \/ Odd(r.bag)
  BY DEF Senseless, Compares
<1>3. ASSUME NEW t, O \subseteq ToSet(t.columns)  PROVE Bad(t) <=> Odd(BagOf(Rows(t)))
  <2>1. Odd(BagOf(Rows(t))) <=> \E i \in DOMAIN t.rows : CellsOf(t, i, O) \cap Nested # {}
    BY ComparedCells
  <2>2. ASSUME NEW i \in DOMAIN t.rows
        PROVE  ~Hashable(KeyOf(t, t.rows[i], step.on)) <=> CellsOf(t, i, O) \cap Nested # {}
    BY <1>3, KeyCells
  <2> HIDE DEF Odd, O
  <2>q. QED  BY <2>1, <2>2
<1>4. /\ l.columns = ToSet(left.columns) /\ l.bag = BagOf(Rows(left))
      /\ r.columns = ToSet(right.columns) /\ r.bag = BagOf(Rows(right))
  BY DEF Reads
<1> HIDE DEF O, Bad, Odd
<1>q. QED  BY <1>1, <1>2, <1>3, <1>4

\* The same cells as the right side of a union is read, in the order of the left.
LEMMA ProjectedCells ==
  ASSUME NEW t \in Tables, NEW columns \in Seq(STRING), ToSet(columns) = ToSet(t.columns),
         NEW i \in DOMAIN t.rows
  PROVE  Hashable(Projected(t, columns)[i]) <=> CellsOf(t, i, ToSet(t.columns)) \cap Nested = {}
<1> DEFINE p == Projected(t, columns)[i]
           C == ToSet(columns)
<1>1. p = [j \in DOMAIN columns |-> IF columns[j] \in ToSet(t.columns)
                                    THEN t.rows[i][Column(t.columns, columns[j])] ELSE Null]
  BY DEF Projected
<1>2. \A c \in ToSet(t.columns) : RowOf(t.columns, t.rows[i])[c] = t.rows[i][Column(t.columns, c)]
  BY RowOfFacts
<1>3. C = {columns[j] : j \in DOMAIN columns}
  BY DEF ToSet
<1> HIDE DEF p, C
<1>4. \A j \in DOMAIN columns : p[j] = RowOf(t.columns, t.rows[i])[columns[j]]
  BY <1>1, <1>2, <1>3 DEF C
<1>5. ToSet(p) = {p[j] : j \in DOMAIN columns}
  BY <1>1 DEF ToSet
<1>6. ToSet(p) = {RowOf(t.columns, t.rows[i])[c] : c \in C}
  BY <1>3, <1>4, <1>5
<1>q. QED  BY <1>6 DEF Hashable, CellsOf, p, C

\* The same of a union.
LEMMA UnionSense ==
  ASSUME NEW step, step.kind = "union",
         NEW left, NEW l, Reads(left, l), NEW right, NEW r, Reads(right, r)
  PROVE  Raises(step, left, right) <=> Senseless(step, l, r)
<1> DEFINE Bad(rows) == \E i \in DOMAIN rows : ~Hashable(rows[i])
           Odd(b, X) == Compares(b, X) \cap Nested # {}
           p == Projected(right, left.columns)
<1>1. Raises(step, left, right) <=> ToSet(left.columns) # ToSet(right.columns) \/ Bad(left.rows) \/ Bad(p)
  BY DEF Raises, UnionRaises
<1>2. Senseless(step, l, r) <=> l.columns # r.columns \/ Odd(l.bag, l.columns) \/ Odd(r.bag, r.columns)
  BY DEF Senseless, Compares
<1>3. /\ left \in Tables /\ ~Alike(left.columns) /\ right \in Tables /\ ~Alike(right.columns)
      /\ l.columns = ToSet(left.columns) /\ l.bag = BagOf(Rows(left))
      /\ r.columns = ToSet(right.columns) /\ r.bag = BagOf(Rows(right))
  BY DEF Reads
<1>4. Bad(left.rows) <=> Odd(BagOf(Rows(left)), ToSet(left.columns))
  <2>1. Odd(BagOf(Rows(left)), ToSet(left.columns))
          <=> \E i \in DOMAIN left.rows : CellsOf(left, i, ToSet(left.columns)) \cap Nested # {}
    BY ComparedCells
  <2>2. ASSUME NEW i \in DOMAIN left.rows
        PROVE  ~Hashable(left.rows[i]) <=> CellsOf(left, i, ToSet(left.columns)) \cap Nested # {}
    BY <1>3, RowCells
  <2> HIDE DEF Odd
  <2>q. QED  BY <2>1, <2>2
<1>5. ASSUME ToSet(left.columns) = ToSet(right.columns)
      PROVE  Bad(p) <=> Odd(BagOf(Rows(right)), ToSet(right.columns))
  <2>1. Odd(BagOf(Rows(right)), ToSet(right.columns))
          <=> \E i \in DOMAIN right.rows : CellsOf(right, i, ToSet(right.columns)) \cap Nested # {}
    BY ComparedCells
  <2>2. left.columns \in Seq(STRING)
    BY <1>3, TableFacts
  <2>3. DOMAIN p = DOMAIN right.rows
    BY DEF Projected
  <2>4. ASSUME NEW i \in DOMAIN right.rows
        PROVE  ~Hashable(p[i]) <=> CellsOf(right, i, ToSet(right.columns)) \cap Nested # {}
    BY <1>3, <1>5, <2>2, ProjectedCells
  <2> HIDE DEF Odd, p
  <2>q. QED  BY <2>1, <2>3, <2>4
<1> HIDE DEF Bad, Odd, p
<1>q. QED  BY <1>1, <1>2, <1>3, <1>4, <1>5

\* The same of every step a plan may have.
LEMMA RaisesIsSenseless ==
  ASSUME NEW step, step.kind \in {"join", "union", "concat"}, step.kind = "join" => step.on # <<>>,
         NEW left, NEW l, Reads(left, l), NEW right, NEW r, Reads(right, r)
  PROVE  Raises(step, left, right) <=> Senseless(step, l, r)
<1>1. CASE step.kind = "join"
  BY <1>1, JoinSense
<1>2. CASE step.kind = "union"
  BY <1>2, UnionSense
<1>3. CASE step.kind = "concat"
  BY <1>3 DEF Raises, Senseless
<1>q. QED  BY <1>1, <1>2, <1>3

\* Whatever the sides, what a step makes is a table.
LEMMA MergedTable ==
  ASSUME NEW step, step.kind \in {"join", "union", "concat"}, NEW left \in Tables, NEW right \in Tables
  PROVE  /\ Merged(step, left, right) \in Tables
         /\ Merged(step, left, right).truncated <=> left.truncated \/ right.truncated
<1>1. Merged(step, left, right) \in Tables
  BY JoinTable, UnionTable, ConcatTable DEF Merged
<1>2. Merged(step, left, right).truncated = (left.truncated \/ right.truncated)
  BY DEF Merged, MergeJoin, MergeUnion, MergeConcat, ResultSet
<1>q. QED  BY <1>1, <1>2

\* What a step makes is what it means, unless it is ambiguous.
LEMMA MergedReads ==
  ASSUME NEW step, step.kind \in {"join", "union", "concat"},
         NEW left, NEW l, Reads(left, l), NEW right, NEW r, Reads(right, r),
         ~Raises(step, left, right), ~Ambiguous(step, l, r)
  PROVE  Reads(Merged(step, left, right), MeaningOf(step, l, r))
<1> DEFINE t == Merged(step, left, right)
           m == MeaningOf(step, l, r)
           C == ToSet(left.columns)
           D == ToSet(right.columns)
           a == BagOf(Rows(left))
           b == BagOf(Rows(right))
<1>0. /\ left \in Tables /\ ~Alike(left.columns) /\ l.columns = C /\ l.bag = a
      /\ right \in Tables /\ ~Alike(right.columns) /\ r.columns = D /\ r.bag = b
  BY DEF Reads
<1>1. t \in Tables
  BY <1>0, MergedTable
<1>2. m.columns = C \cup D
  BY <1>0 DEF MeaningOf
<1> SUFFICES ~Alike(t.columns) /\ C \cup D = ToSet(t.columns) /\ m.bag = BagOf(Rows(t))
  BY <1>1, <1>2 DEF Reads
<1>3. CASE step.kind = "join"
  <2>1. t = MergeJoin(left, right, step.on) /\ m.bag = JoinOf(a, b, ToSet(step.on))
    BY <1>0, <1>3 DEF Merged, MeaningOf
  <2>2. ToSet(step.on) \subseteq C \cap D
    BY <1>3 DEF Raises, JoinRaises
  <2>3. C \cap D \subseteq ToSet(step.on)
    BY <1>0, <1>3 DEF Ambiguous
  <2>4. C \cap D = ToSet(step.on)
    BY <2>2, <2>3
  <2> HIDE DEF t, m
  <2>5. ~Alike(t.columns)
    BY <1>0, <2>1, <2>4, JoinPlain
  <2>6. ToSet(t.columns) = C \cup D
    <3>1. ToSet(step.on) \subseteq ToSet(left.columns)
      BY <2>2
    <3>q. QED  BY <1>0, <2>1, <3>1, JoinTable
  <2>7. BagOf(Rows(t)) = JoinOf(a, b, ToSet(step.on))
    BY <1>0, <2>1, <2>4, JoinBag
  <2>q. QED  BY <2>1, <2>5, <2>6, <2>7
<1>4. CASE step.kind = "union"
  <2>1. t = MergeUnion(left, right) /\ m.bag = UnionOf(a, b)
    BY <1>0, <1>4 DEF Merged, MeaningOf
  <2>2. C = D
    BY <1>4 DEF Raises, UnionRaises
  <2>3. t.columns = left.columns
    BY <2>1 DEF MergeUnion, ResultSet
  <2> HIDE DEF t, m
  <2>4. BagOf(Rows(t)) = UnionOf(a, b)
    BY <1>0, <2>1, <2>2, UnionBag
  <2>q. QED  BY <1>0, <2>1, <2>2, <2>3, <2>4
<1>5. CASE step.kind = "concat"
  <2>1. t = MergeConcat(left, right) /\ m.bag = StackOf(a, b, C \cup D)
    BY <1>0, <1>5 DEF Merged, MeaningOf
  <2> HIDE DEF t, m
  <2>2. ~Alike(t.columns) /\ ToSet(t.columns) = C \cup D
    BY <1>0, <2>1, ConcatTable
  <2>3. BagOf(Rows(t)) = StackOf(a, b, C \cup D)
    BY <1>0, <2>1, ConcatBag
  <2>q. QED  BY <2>1, <2>2, <2>3
<1>q. QED  BY <1>3, <1>4, <1>5

-----------------------------------------------------------------------------
(* The steps of a plan *)

\* What is bound, step by step.
BoundSoFar(b, results, steps) ==
  /\ b[0] = [bound |-> results, failed |-> FALSE]
  /\ \A i \in 1 .. Len(steps) : b[i] = Bind(b[i - 1], steps[i])

\* The recursive function of the bindings exists, and is what its definition says.
LEMMA BindingsFacts ==
  ASSUME NEW results, NEW steps, Len(steps) \in Nat
  PROVE  BoundSoFar(Bindings(results, steps), results, steps)
<1> DEFINE Start == [bound |-> results, failed |-> FALSE]
           Step(f, i) == IF i = 0 THEN Start ELSE Bind(f[i - 1], steps[i])
           Made(f, m) == f = [i \in 0 .. m |-> Step(f, i)]
           n == Len(steps)
           fl == CHOOSE f : Made(f, n)
<1>1. Bindings(results, steps) = fl
  BY DEF Bindings
<1>2. n \in Nat
  OBVIOUS
<1> HIDE DEF n, Start
<1>3. \E f : Made(f, n)
  <2> DEFINE Bad == {m \in Nat : ~\E f : Made(f, m)}
  <2>1. SUFFICES ASSUME Bad # {}  PROVE FALSE
    BY <1>2, Zenon
  <2>2. PICK m \in Bad : \A k \in Bad : m <= k
    <3>1. Bad \in SUBSET Nat
      OBVIOUS
    <3> HIDE DEF Bad
    <3>q. QED  BY <2>1, <3>1, LeastOne, Zenon
  <2>3. m \in Nat /\ ~\E f : Made(f, m)
    OBVIOUS
  <2>4. CASE m = 0
    <3> DEFINE g == [i \in 0 .. 0 |-> Start]
    <3>1. g = [i \in 0 .. 0 |-> Step(g, i)]
      OBVIOUS
    <3>q. QED  BY <2>3, <2>4, <3>1
  <2>5. CASE m # 0
    <3>1. m - 1 \in Nat /\ m - 1 \notin Bad
      <4>1. m - 1 \in Nat /\ ~(m <= m - 1)
        BY <2>3, <2>5
      <4> HIDE DEF Bad
      <4>q. QED  BY <2>2, <4>1
    <3>2. PICK f : Made(f, m - 1)
      BY <3>1
    <3> DEFINE g == [i \in 0 .. m |-> IF i < m THEN f[i] ELSE Bind(f[m - 1], steps[m])]
    <3>3. ASSUME NEW i \in 0 .. m  PROVE g[i] = Step(g, i)
      <4>1. CASE i = m
        <5>1. i # 0 /\ m - 1 \in 0 .. m /\ m - 1 < m /\ m \in 0 .. m /\ ~(m < m)
          BY <2>3, <2>5, <4>1
        <5>2. g[i] = Bind(f[m - 1], steps[m])
          BY <4>1, <5>1
        <5>3. g[i - 1] = f[m - 1]
          BY <4>1, <5>1
        <5>q. QED  BY <4>1, <5>1, <5>2, <5>3
      <4>2. CASE i # m
        <5>1. i \in 0 .. m - 1 /\ i < m
          BY <2>3, <4>2
        <5>2. g[i] = f[i] /\ f[i] = Step(f, i)
          BY <3>2, <5>1
        <5>3. i # 0 => g[i - 1] = f[i - 1]
          BY <2>3, <5>1
        <5>q. QED  BY <5>2, <5>3
      <4>q. QED  BY <4>1, <4>2
    <3>4. DOMAIN g = 0 .. m /\ g = [i \in DOMAIN g |-> g[i]]
      OBVIOUS
    <3> HIDE DEF g
    <3>5. g = [i \in 0 .. m |-> Step(g, i)]
      BY <3>3, <3>4
    <3>q. QED  BY <2>3, <3>5
  <2>q. QED  BY <2>4, <2>5
<1>4. Made(fl, n)
  BY <1>3
<1> HIDE DEF fl
<1>5. \A i \in 0 .. n : fl[i] = Step(fl, i)
  BY <1>4
<1>6. 0 \in 0 .. n /\ \A i \in 1 .. n : i \in 0 .. n /\ i # 0
  BY <1>2
<1>7. fl[0] = Start /\ \A i \in 1 .. n : fl[i] = Bind(fl[i - 1], steps[i])
  BY <1>5, <1>6
<1>q. QED  BY <1>1, <1>7 DEF n, Start, BoundSoFar

\* What is meant before the first step.
MeantFirst(p, os) ==
  [bound |-> [a \in AliasesOf(p) |-> Relation(a, SubResultsOf(p, os)[a])],
   senseless |-> FALSE,
   ambiguous |-> \E a \in AliasesOf(p) : Alike(SubResultsOf(p, os)[a].columns)]

\* What is meant, step by step.
MeansSoFar(m, p, os) ==
  m[0] = MeantFirst(p, os) /\ \A i \in 1 .. Len(p.merge_steps) : m[i] = Mean(m[i - 1], p.merge_steps[i])

\* So is that of the meanings.
LEMMA MeaningsFacts ==
  ASSUME NEW p, NEW os, Len(p.merge_steps) \in Nat
  PROVE  \E m : MeansSoFar(m, p, os) /\ Meanings(p, os) = m[Len(p.merge_steps)]
<1> DEFINE steps == p.merge_steps
           Start == MeantFirst(p, os)
           Step(f, i) == IF i = 0 THEN Start ELSE Mean(f[i - 1], steps[i])
           Made(f, m) == f = [i \in 0 .. m |-> Step(f, i)]
           n == Len(steps)
           fl == CHOOSE f : Made(f, n)
<1>1. Meanings(p, os) = fl[n]
  BY DEF Meanings, MeantFirst
<1>2. n \in Nat
  OBVIOUS
<1> HIDE DEF n, Start, steps
<1>3. \E f : Made(f, n)
  <2> DEFINE Bad == {m \in Nat : ~\E f : Made(f, m)}
  <2>1. SUFFICES ASSUME Bad # {}  PROVE FALSE
    BY <1>2, Zenon
  <2>2. PICK m \in Bad : \A k \in Bad : m <= k
    <3>1. Bad \in SUBSET Nat
      OBVIOUS
    <3> HIDE DEF Bad
    <3>q. QED  BY <2>1, <3>1, LeastOne, Zenon
  <2>3. m \in Nat /\ ~\E f : Made(f, m)
    OBVIOUS
  <2>4. CASE m = 0
    <3> DEFINE g == [i \in 0 .. 0 |-> Start]
    <3>1. g = [i \in 0 .. 0 |-> Step(g, i)]
      OBVIOUS
    <3>q. QED  BY <2>3, <2>4, <3>1
  <2>5. CASE m # 0
    <3>1. m - 1 \in Nat /\ m - 1 \notin Bad
      <4>1. m - 1 \in Nat /\ ~(m <= m - 1)
        BY <2>3, <2>5
      <4> HIDE DEF Bad
      <4>q. QED  BY <2>2, <4>1
    <3>2. PICK f : Made(f, m - 1)
      BY <3>1
    <3> DEFINE g == [i \in 0 .. m |-> IF i < m THEN f[i] ELSE Mean(f[m - 1], steps[m])]
    <3>3. ASSUME NEW i \in 0 .. m  PROVE g[i] = Step(g, i)
      <4>1. CASE i = m
        <5>1. i # 0 /\ m - 1 \in 0 .. m /\ m - 1 < m /\ m \in 0 .. m /\ ~(m < m)
          BY <2>3, <2>5, <4>1
        <5>2. g[i] = Mean(f[m - 1], steps[m])
          BY <4>1, <5>1
        <5>3. g[i - 1] = f[m - 1]
          BY <4>1, <5>1
        <5>q. QED  BY <4>1, <5>1, <5>2, <5>3
      <4>2. CASE i # m
        <5>1. i \in 0 .. m - 1 /\ i < m
          BY <2>3, <4>2
        <5>2. g[i] = f[i] /\ f[i] = Step(f, i)
          BY <3>2, <5>1
        <5>3. i # 0 => g[i - 1] = f[i - 1]
          BY <2>3, <5>1
        <5>q. QED  BY <5>2, <5>3
      <4>q. QED  BY <4>1, <4>2
    <3>4. DOMAIN g = 0 .. m /\ g = [i \in DOMAIN g |-> g[i]]
      OBVIOUS
    <3> HIDE DEF g
    <3>5. g = [i \in 0 .. m |-> Step(g, i)]
      BY <3>3, <3>4
    <3>q. QED  BY <2>3, <3>5
  <2>q. QED  BY <2>4, <2>5
<1>4. Made(fl, n)
  BY <1>3
<1> HIDE DEF fl
<1>5. \A i \in 0 .. n : fl[i] = Step(fl, i)
  BY <1>4
<1>6. 0 \in 0 .. n /\ \A i \in 1 .. n : i \in 0 .. n /\ i # 0
  BY <1>2
<1>7. fl[0] = Start /\ \A i \in 1 .. n : fl[i] = Mean(fl[i - 1], steps[i])
  BY <1>5, <1>6
<1>q. QED  BY <1>1, <1>7 DEF n, Start, steps, MeansSoFar

\* What drafts are made of.
LEMMA DraftFacts ==
  ASSUME NEW p \in Drafts
  PROVE  /\ IsSeq(p.sub_queries) /\ p.sub_queries # <<>> /\ p.merge_steps \in MergeSteps
         /\ IsSeq(p.merge_steps) /\ Len(p.merge_steps) \in Nat
         /\ DOMAIN p.merge_steps = 1 .. Len(p.merge_steps)
         /\ \A i \in 1 .. Len(p.merge_steps) : p.merge_steps[i].kind \in {"join", "union", "concat"}
<1>1. p \in [sub_queries : SubQueries \ {<<>>}, merge_steps : MergeSteps]
  BY FederationAssumption
<1>2. p.sub_queries \in SubQueries /\ p.sub_queries # <<>> /\ p.merge_steps \in MergeSteps
  BY <1>1
<1>3. IsSeq(p.sub_queries)
  BY <1>2, SeqIsSeq DEF SubQueries
<1>4. IsSeq(p.merge_steps)
  BY <1>2, SeqIsSeq DEF MergeSteps
<1>5. Len(p.merge_steps) \in Nat /\ DOMAIN p.merge_steps = 1 .. Len(p.merge_steps)
  BY <1>4, SeqFacts
<1>6. ASSUME NEW i \in 1 .. Len(p.merge_steps)  PROVE p.merge_steps[i].kind \in {"join", "union", "concat"}
  <2> DEFINE s == p.merge_steps
             S == [kind : {"join", "union", "concat"}, on : Seq(STRING),
                   left : STRING, right : STRING, output : STRING]
  <2>1. s \in Seq(S)
    BY <1>2 DEF MergeSteps
  <2>2. s[i] \in S
    <3> HIDE DEF S
    <3>q. QED  BY <2>1
  <2>q. QED  BY <2>2
<1>q. QED  BY <1>2, <1>3, <1>4, <1>5, <1>6

\* All sub-queries have answered.
Answered(p, os) ==
  DOMAIN os = DOMAIN p.sub_queries /\ \A i \in DOMAIN p.sub_queries : os[i] \in SubResults

\* Each alias has a result, and it is a table.
LEMMA ResultsAreTables ==
  ASSUME NEW p \in Drafts, NEW os, Answered(p, os)
  PROVE  /\ DOMAIN SubResultsOf(p, os) = AliasesOf(p)
         /\ \A a \in AliasesOf(p) : SubResultsOf(p, os)[a] \in Tables
<1> DEFINE qs == p.sub_queries
<1>1. Len(qs) \in Nat /\ DOMAIN qs = 1 .. Len(qs)
  BY DraftFacts, SeqFacts
<1>2. SubResults \subseteq Tables
  BY FederationAssumption
<1>3. ASSUME NEW a \in AliasesOf(p)  PROVE SubResultsOf(p, os)[a] \in Tables
  <2> DEFINE I == {i \in DOMAIN qs : qs[i].alias = a}
  <2>1. I \in SUBSET (1 .. Len(qs)) /\ I # {}
    BY <1>1, <1>3 DEF AliasesOf
  <2>2. SubResultsOf(p, os)[a] = os[Max(I)]
    BY DEF SubResultsOf
  <2> HIDE DEF I
  <2>3. Max(I) \in I
    BY <1>1, <2>1, MaxFacts
  <2>4. Max(I) \in DOMAIN qs
    BY <1>1, <2>1, <2>3
  <2>q. QED  BY <1>2, <2>2, <2>4 DEF Answered
<1>4. DOMAIN SubResultsOf(p, os) = AliasesOf(p)
  BY DEF SubResultsOf
<1>q. QED  BY <1>3, <1>4

\* Whatever is bound is a table.
AllTables(b) == \A x \in DOMAIN b.bound : b.bound[x] \in Tables

\* A step that does not fail finds its sides, and binds what it makes of them.
LEMMA BindFacts ==
  ASSUME NEW b, NEW step
  PROVE  LET left == b.bound[step.left]
             right == b.bound[step.right]
             fails == \/ b.failed \/ ~({step.left, step.right} \subseteq DOMAIN b.bound)
                      \/ Raises(step, left, right)
         IN /\ fails => Bind(b, step).failed = TRUE /\ Bind(b, step).bound = b.bound
            /\ ~fails => /\ Bind(b, step).failed = FALSE
                         /\ Bind(b, step).bound = Assigned(b.bound, step.output, Merged(step, left, right))
BY DEF Bind

\* A step binds a table.
LEMMA BindTables ==
  ASSUME NEW b, AllTables(b), NEW step, step.kind \in {"join", "union", "concat"}
  PROVE  AllTables(Bind(b, step))
<1> DEFINE left == b.bound[step.left]
           right == b.bound[step.right]
           fails == \/ b.failed \/ ~({step.left, step.right} \subseteq DOMAIN b.bound)
                    \/ Raises(step, left, right)
           t == Merged(step, left, right)
           c == Bind(b, step)
<1>1. CASE fails
  <2>1. c.bound = b.bound
    BY <1>1, BindFacts
  <2>q. QED  BY <2>1 DEF AllTables
<1>2. CASE ~fails
  <2>1. c.bound = Assigned(b.bound, step.output, t)
    BY <1>2, BindFacts
  <2>2. left \in Tables /\ right \in Tables
    BY <1>2 DEF AllTables
  <2> HIDE DEF left, right, fails
  <2>3. t \in Tables
    BY <2>2, MergedTable
  <2> HIDE DEF t, c
  <2>4. ASSUME NEW x \in DOMAIN c.bound  PROVE c.bound[x] \in Tables
    BY <2>1, <2>3 DEF AllTables, Assigned
  <2>q. QED  BY <2>4 DEF AllTables, c
<1>q. QED  BY <1>1, <1>2

\* Whatever is bound after any number of steps is a table.
LEMMA BindingsTables ==
  ASSUME NEW p \in Drafts, NEW os, Answered(p, os), NEW i \in 0 .. Len(p.merge_steps)
  PROVE  AllTables(Bindings(SubResultsOf(p, os), p.merge_steps)[i])
<1> DEFINE results == SubResultsOf(p, os)
           steps == p.merge_steps
           b == Bindings(results, steps)
           n == Len(steps)
           Bad == {k \in 0 .. n : ~AllTables(b[k])}
<1>1. n \in Nat /\ \A k \in 1 .. n : steps[k].kind \in {"join", "union", "concat"}
  BY DraftFacts
<1>2. b[0].bound = results /\ \A k \in 1 .. n : b[k] = Bind(b[k - 1], steps[k])
  <2>1. BoundSoFar(b, results, steps)
    BY <1>1, BindingsFacts
  <2> HIDE DEF b
  <2>q. QED  BY <2>1 DEF BoundSoFar
<1>3. AllTables(b[0])
  BY <1>2, ResultsAreTables DEF AllTables
<1>4. SUFFICES ASSUME Bad # {}  PROVE FALSE
  BY Zenon
<1> HIDE DEF b, results, steps, n
<1>5. PICK k \in Bad : \A j \in Bad : k <= j
  <2>1. Bad \in SUBSET Nat
    BY <1>1
  <2> HIDE DEF Bad
  <2>q. QED  BY <1>4, <2>1, LeastOne, Zenon
<1>6. k \in 1 .. n /\ k - 1 \in 0 .. n /\ ~(k <= k - 1)
  BY <1>1, <1>3, <1>5
<1>7. AllTables(b[k - 1])
  BY <1>5, <1>6
<1>8. AllTables(b[k])
  BY <1>1, <1>2, <1>6, <1>7, BindTables
<1>q. QED  BY <1>5, <1>8

-----------------------------------------------------------------------------
(* The code and the meaning, side by side *)

\* The table of a name and the relation it stands for.
Stands(t, m, results) ==
  /\ Reads(t, m) /\ m.from \subseteq DOMAIN results
  /\ t.truncated <=> \E a \in m.from : results[a].truncated

\* After each step both have failed, or what is bound stands for what is meant.
Agree(b, m, results, known) ==
  /\ b.failed \in BOOLEAN /\ m.senseless \in BOOLEAN /\ b.failed = m.senseless
  /\ ~b.failed => /\ DOMAIN b.bound = known /\ DOMAIN m.bound = known
                  /\ \A x \in known : Stands(b.bound[x], m.bound[x], results)

\* The first bindings.
LEMMA AgreeFirst ==
  ASSUME NEW p \in Drafts, NEW os, Answered(p, os), NEW b, NEW m,
         b = [bound |-> SubResultsOf(p, os), failed |-> FALSE], m = MeantFirst(p, os), ~m.ambiguous
  PROVE  Agree(b, m, SubResultsOf(p, os), AliasesOf(p))
<1> DEFINE results == SubResultsOf(p, os)
<1>1. DOMAIN results = AliasesOf(p) /\ \A a \in AliasesOf(p) : results[a] \in Tables
  BY ResultsAreTables
<1> HIDE DEF results
<1>2. /\ m.bound = [a \in AliasesOf(p) |-> Relation(a, results[a])] /\ m.senseless = FALSE
      /\ \A a \in AliasesOf(p) : ~Alike(results[a].columns)
  BY DEF MeantFirst, results
<1>3. b.bound = results /\ b.failed = FALSE
  BY DEF results
<1>4. ASSUME NEW a \in AliasesOf(p)  PROVE Stands(results[a], Relation(a, results[a]), results)
  <2> DEFINE t == results[a]
             r == Relation(a, t)
  <2>1. r.columns = ToSet(t.columns) /\ r.bag = BagOf(Rows(t)) /\ r.from = {a}
    BY DEF Relation
  <2>2. t \in Tables /\ ~Alike(t.columns)
    BY <1>1, <1>2
  <2> HIDE DEF r
  <2>3. Reads(t, r)
    BY <2>1, <2>2 DEF Reads
  <2>4. r.from \subseteq DOMAIN results
    BY <1>1, <2>1
  <2>5. t.truncated <=> \E x \in r.from : results[x].truncated
    BY <2>1
  <2>q. QED  BY <2>3, <2>4, <2>5 DEF Stands, r
<1>5. \A a \in AliasesOf(p) : Stands(b.bound[a], m.bound[a], results)
  BY <1>2, <1>3, <1>4
<1>q. QED  BY <1>1, <1>2, <1>3, <1>5 DEF Agree, results

\* A merge stands for what the step means.
LEMMA StandsMerged ==
  ASSUME NEW step, step.kind \in {"join", "union", "concat"}, NEW results,
         NEW left, NEW l, Stands(left, l, results), NEW right, NEW r, Stands(right, r, results),
         ~Raises(step, left, right), ~Ambiguous(step, l, r)
  PROVE  Stands(Merged(step, left, right), MeaningOf(step, l, r), results)
<1>1. Reads(left, l) /\ Reads(right, r) /\ left \in Tables /\ right \in Tables
  BY DEF Stands, Reads
<1>2. Reads(Merged(step, left, right), MeaningOf(step, l, r))
  BY <1>1, MergedReads
<1>3. Merged(step, left, right).truncated <=> left.truncated \/ right.truncated
  BY <1>1, MergedTable
<1>4. MeaningOf(step, l, r).from = l.from \cup r.from
  BY DEF MeaningOf
<1>5. /\ l.from \subseteq DOMAIN results /\ r.from \subseteq DOMAIN results
      /\ left.truncated <=> \E a \in l.from : results[a].truncated
      /\ right.truncated <=> \E a \in r.from : results[a].truncated
  BY DEF Stands
<1>6. MeaningOf(step, l, r).from \subseteq DOMAIN results
  BY <1>4, <1>5
<1>7. Merged(step, left, right).truncated <=> \E a \in MeaningOf(step, l, r).from : results[a].truncated
  BY <1>3, <1>4, <1>5
<1>q. QED  BY <1>2, <1>6, <1>7 DEF Stands

\* One step keeps the agreement, when it is not ambiguous.
LEMMA AgreeStep ==
  ASSUME NEW b, NEW m, NEW results, NEW known, Agree(b, m, results, known),
         NEW step, step.kind \in {"join", "union", "concat"}, step.kind = "join" => step.on # <<>>,
         step.left \in known, step.right \in known, ~Mean(m, step).ambiguous
  PROVE  Agree(Bind(b, step), Mean(m, step), results, known \cup {step.output})
<1> DEFINE left == b.bound[step.left]
           right == b.bound[step.right]
           l == m.bound[step.left]
           r == m.bound[step.right]
           c == Bind(b, step)
           n == Mean(m, step)
           t == Merged(step, left, right)
           u == MeaningOf(step, l, r)
<1>0. b.failed \in BOOLEAN /\ m.senseless \in BOOLEAN /\ b.failed = m.senseless
  BY DEF Agree
<1>1. CASE b.failed
  <2>1. c.failed = TRUE
    BY <1>1 DEF Bind
  <2>2. n.senseless = TRUE
    BY <1>0, <1>1 DEF Mean
  <2>q. QED  BY <2>1, <2>2 DEF Agree
<1>2. CASE ~b.failed
  <2>1. /\ DOMAIN b.bound = known /\ DOMAIN m.bound = known
        /\ \A x \in known : Stands(b.bound[x], m.bound[x], results)
    BY <1>2 DEF Agree
  <2>2. Stands(left, l, results) /\ Stands(right, r, results)
    BY <2>1
  <2>3. Raises(step, left, right) <=> Senseless(step, l, r)
    <3> HIDE DEF left, right, l, r
    <3>1. Reads(left, l) /\ Reads(right, r)
      BY <2>2 DEF Stands
    <3>q. QED  BY <3>1, RaisesIsSenseless
  <2>4. CASE Raises(step, left, right)
    <3>1. c.failed = TRUE
      BY <2>4 DEF Bind
    <3>2. n.senseless = TRUE
      BY <2>3, <2>4 DEF Mean
    <3>q. QED  BY <3>1, <3>2 DEF Agree
  <2>5. CASE ~Raises(step, left, right)
    <3>1. c.failed = FALSE /\ c.bound = Assigned(b.bound, step.output, t)
      BY <1>2, <2>1, <2>5 DEF Bind
    <3>2. ~m.senseless /\ ~Senseless(step, l, r)
      BY <1>0, <1>2, <2>3, <2>5
    <3>3. /\ n.senseless = FALSE /\ n.bound = Assigned(m.bound, step.output, u)
          /\ ~Ambiguous(step, l, r)
      BY <3>2 DEF Mean
    <3> HIDE DEF left, right, l, r, c, n
    <3>4. Stands(t, u, results)
      BY <2>2, <2>5, <3>3, StandsMerged
    <3> HIDE DEF t, u
    <3>5. DOMAIN c.bound = known \cup {step.output} /\ DOMAIN n.bound = known \cup {step.output}
      BY <2>1, <3>1, <3>3 DEF Assigned
    <3>6. ASSUME NEW x \in known \cup {step.output}  PROVE Stands(c.bound[x], n.bound[x], results)
      <4>1. CASE x = step.output
        BY <3>1, <3>3, <3>4, <4>1 DEF Assigned
      <4>2. CASE x # step.output
        <5>1. c.bound[x] = b.bound[x] /\ n.bound[x] = m.bound[x]
          BY <2>1, <3>1, <3>3, <4>2 DEF Assigned
        <5>q. QED  BY <2>1, <4>2, <5>1
      <4>q. QED  BY <4>1, <4>2
    <3>q. QED  BY <3>1, <3>3, <3>5, <3>6 DEF Agree, c, n
  <2>q. QED  BY <2>4, <2>5
<1>q. QED  BY <1>1, <1>2

\* Whatever became ambiguous stays so.
LEMMA StaysAmbiguous ==
  ASSUME NEW s, NEW step, s.ambiguous
  PROVE  Mean(s, step).ambiguous
BY DEF Mean

\* What an accepted plan knows.
LEMMA KnownFacts ==
  ASSUME NEW p, NEW n \in Nat, n = Len(p.merge_steps)
  PROVE  /\ KnownBefore(p, 1) = AliasesOf(p)
         /\ \A i \in 1 .. n : KnownBefore(p, i + 1) = KnownBefore(p, i) \cup {p.merge_steps[i].output}
<1>1. 1 .. 1 - 1 = {}
  OBVIOUS
<1>2. KnownBefore(p, 1) = AliasesOf(p)
  BY <1>1 DEF KnownBefore
<1>3. ASSUME NEW i \in 1 .. n
      PROVE  KnownBefore(p, i + 1) = KnownBefore(p, i) \cup {p.merge_steps[i].output}
  <2>1. 1 .. (i + 1) - 1 = (1 .. i - 1) \cup {i}
    OBVIOUS
  <2>q. QED  BY <2>1 DEF KnownBefore
<1>q. QED  BY <1>2, <1>3

\* After every step of an accepted plan the code and the meaning agree, or one name
\* stands for two columns.
LEMMA AgreeAlways ==
  ASSUME NEW p \in Drafts, PlanAccepted(p), NEW os, Answered(p, os), NEW m, MeansSoFar(m, p, os),
         NEW i \in 0 .. Len(p.merge_steps)
  PROVE  m[i].ambiguous \/ Agree(Bindings(SubResultsOf(p, os), p.merge_steps)[i], m[i],
                                 SubResultsOf(p, os), KnownBefore(p, i + 1))
<1> DEFINE results == SubResultsOf(p, os)
           steps == p.merge_steps
           b == Bindings(results, steps)
           n == Len(steps)
           Good(k) == m[k].ambiguous \/ Agree(b[k], m[k], results, KnownBefore(p, k + 1))
           Bad == {k \in 0 .. n : ~Good(k)}
<1>1. n \in Nat /\ DOMAIN steps = 1 .. n /\ \A k \in 1 .. n : steps[k].kind \in {"join", "union", "concat"}
  BY DraftFacts
<1>2. b[0] = [bound |-> results, failed |-> FALSE] /\ \A k \in 1 .. n : b[k] = Bind(b[k - 1], steps[k])
  <2>1. BoundSoFar(b, results, steps)
    BY <1>1, BindingsFacts
  <2> HIDE DEF b
  <2>q. QED  BY <2>1 DEF BoundSoFar
<1>3. m[0] = MeantFirst(p, os) /\ \A k \in 1 .. n : m[k] = Mean(m[k - 1], steps[k])
  BY DEF MeansSoFar
<1>4. /\ KnownBefore(p, 1) = AliasesOf(p)
      /\ \A k \in 1 .. n : KnownBefore(p, k + 1) = KnownBefore(p, k) \cup {steps[k].output}
  BY <1>1, KnownFacts
<1>5. \A k \in 1 .. n : /\ steps[k].left \in KnownBefore(p, k) /\ steps[k].right \in KnownBefore(p, k)
                        /\ steps[k].kind = "join" => steps[k].on # <<>>
  BY <1>1 DEF PlanAccepted
<1>6. Good(0)
  <2>1. CASE m[0].ambiguous
    BY <2>1
  <2>2. CASE ~m[0].ambiguous
    <3>1. Agree(b[0], m[0], results, AliasesOf(p))
      BY <1>2, <1>3, <2>2, AgreeFirst
    <3>2. KnownBefore(p, 0 + 1) = AliasesOf(p)
      BY <1>4
    <3>q. QED  BY <3>1, <3>2
  <2>q. QED  BY <2>1, <2>2
<1> HIDE DEF b, results, steps, n
<1>7. ASSUME NEW k \in 1 .. n, Good(k - 1)  PROVE Good(k)
  <2>1. m[k] = Mean(m[k - 1], steps[k]) /\ b[k] = Bind(b[k - 1], steps[k])
    BY <1>2, <1>3
  <2>2. CASE m[k].ambiguous
    BY <2>2
  <2>3. CASE ~m[k].ambiguous
    <3>1. ~m[k - 1].ambiguous
      BY <2>1, <2>3, StaysAmbiguous
    <3>2. (k - 1) + 1 = k
      BY <1>1
    <3>3. Agree(b[k - 1], m[k - 1], results, KnownBefore(p, k))
      BY <1>7, <3>1, <3>2
    <3>4. ~Mean(m[k - 1], steps[k]).ambiguous
      BY <2>1, <2>3
    <3>5. Agree(Bind(b[k - 1], steps[k]), Mean(m[k - 1], steps[k]), results,
                KnownBefore(p, k) \cup {steps[k].output})
      BY <1>1, <1>5, <3>3, <3>4, AgreeStep
    <3>q. QED  BY <1>4, <2>1, <3>5
  <2>q. QED  BY <2>2, <2>3
<1> HIDE DEF Good
<1>8. SUFFICES ASSUME Bad # {}  PROVE FALSE
  <2>1. i \in 0 .. n
    BY DEF n, steps
  <2>2. Bad = {} => Good(i)
    BY <2>1
  <2> HIDE DEF Bad
  <2>q. QED  BY <2>2 DEF Good, b, results, steps
<1>9. PICK k \in Bad : \A j \in Bad : k <= j
  <2>1. Bad \in SUBSET Nat
    BY <1>1
  <2> HIDE DEF Bad
  <2>q. QED  BY <1>8, <2>1, LeastOne, Zenon
<1>10. k \in 1 .. n /\ k - 1 \in 0 .. n /\ ~(k <= k - 1)
  BY <1>1, <1>6, <1>9
<1>11. Good(k - 1)
  BY <1>9, <1>10
<1>12. Good(k)
  BY <1>7, <1>10, <1>11
<1>q. QED  BY <1>9, <1>12

-----------------------------------------------------------------------------
(* The end of a merge *)

\* A table is neither an error nor nothing.
LEMMA TableIsNone ==
  ASSUME NEW t \in Tables
  PROVE  t # MergeError /\ t # NoResult /\ t # Failed /\ t # Pending
<1>1. DOMAIN t = {"columns", "rows", "truncated"}
  BY DEF Tables
<1>2. DOMAIN MergeError = {"error"} /\ DOMAIN NoResult = {"none"} /\ DOMAIN Failed = {"error"} /\ DOMAIN Pending = {"pending"}
  BY DEF MergeError, NoResult, Failed, Pending
<1>q. QED  BY <1>1, <1>2

\* The answer of a plan without steps is the only result there is.
LEMMA OnlyAlias ==
  ASSUME NEW p \in Drafts, Cardinality(AliasesOf(p)) = 1
  PROVE  AliasesOf(p) = {p.sub_queries[1].alias}
<1> DEFINE qs == p.sub_queries
           A == AliasesOf(p)
<1>1. IsSeq(qs) /\ qs # <<>>
  BY DraftFacts
<1>2. Len(qs) \in Nat \ {0} /\ DOMAIN qs = 1 .. Len(qs)
  BY <1>1, SeqFacts
<1>3. qs[1].alias \in A
  BY <1>2 DEF AliasesOf
<1>4. IsFiniteSet(A)
  <2> DEFINE f == [i \in DOMAIN qs |-> qs[i].alias]
  <2>1. f \in [DOMAIN qs -> A] /\ \A a \in A : \E i \in DOMAIN qs : f[i] = a
    BY DEF AliasesOf
  <2>2. IsFiniteSet(DOMAIN qs)
    BY <1>1, FinitePlaces
  <2> HIDE DEF f, A, qs
  <2>3. f \in Surjection(DOMAIN qs, A)
    BY <2>1 DEF Surjection
  <2>q. QED  BY <2>2, <2>3, FS_Surjection, Zenon
<1> HIDE DEF A, qs
<1>5. \E x : A = {x}
  <2>1. Cardinality(A) = 1
    BY DEF A
  <2>q. QED  BY <1>4, <2>1, FS_Singleton, Zenon
<1>q. QED  BY <1>3, <1>5 DEF A, qs

\* How a merge ends: with an error, or with the table of the answer's name.
LEMMA MergeEnds ==
  ASSUME NEW p \in Drafts, PlanAccepted(p), NEW os, Answered(p, os)
  PROVE  LET b == Bindings(SubResultsOf(p, os), p.merge_steps)[Len(p.merge_steps)]
             merged == ExecuteMergePipeline(SubResultsOf(p, os), p.merge_steps)
         IN /\ merged = MergeError => b.failed \/ Answerless(p)
            /\ merged # MergeError => /\ merged \in Tables /\ ~b.failed
                                      /\ AnswerOf(p) \in DOMAIN b.bound /\ merged = b.bound[AnswerOf(p)]
<1> DEFINE results == SubResultsOf(p, os)
           steps == p.merge_steps
           n == Len(steps)
           B == Bindings(results, steps)
           b == B[n]
           merged == ExecuteMergePipeline(results, steps)
<1>1. /\ IsSeq(steps) /\ n \in Nat /\ DOMAIN steps = 1 .. n
  BY DraftFacts
<1>2. B[0] = [bound |-> results, failed |-> FALSE] /\ \A k \in 1 .. n : B[k] = Bind(B[k - 1], steps[k])
  <2>1. BoundSoFar(B, results, steps)
    BY <1>1, BindingsFacts
  <2> HIDE DEF B
  <2>q. QED  BY <2>1 DEF BoundSoFar
<1>3. AllTables(b)
  <2>1. n \in 0 .. n
    BY <1>1
  <2>q. QED  BY <2>1, BindingsTables
<1>4. DOMAIN results = AliasesOf(p) /\ \A a \in AliasesOf(p) : results[a] \in Tables
  BY ResultsAreTables
<1>5. merged = IF b.failed \/ (steps = <<>> /\ Cardinality(DOMAIN results) # 1) THEN MergeError
               ELSE IF steps = <<>> THEN results[CHOOSE a \in DOMAIN results : TRUE]
               ELSE b.bound[Last(steps).output]
  BY DEF ExecuteMergePipeline
<1> HIDE DEF merged, B, results
<1>6. CASE steps = <<>>
  <2>1. n = 0
    BY <1>1, <1>6, SeqFacts
  <2>2. b = [bound |-> results, failed |-> FALSE]
    BY <1>2, <2>1
  <2>3. b.bound = results /\ b.failed = FALSE
    BY <2>2
  <2>4. CASE Cardinality(AliasesOf(p)) = 1
    <3>1. AliasesOf(p) = {p.sub_queries[1].alias}
      BY <2>4, OnlyAlias
    <3>2. (CHOOSE a \in DOMAIN results : TRUE) = p.sub_queries[1].alias
      BY <1>4, <3>1
    <3>3. merged = results[p.sub_queries[1].alias]
      BY <1>4, <1>5, <1>6, <2>3, <2>4, <3>2
    <3>4. AnswerOf(p) = p.sub_queries[1].alias
      BY <1>6 DEF AnswerOf
    <3>5. merged \in Tables /\ merged # MergeError
      BY <1>4, <3>1, <3>3, TableIsNone
    <3>q. QED  BY <1>4, <2>3, <3>1, <3>3, <3>4, <3>5 DEF merged, results, B
  <2>5. CASE Cardinality(AliasesOf(p)) # 1
    <3>1. merged = MergeError
      BY <1>4, <1>5, <1>6, <2>5
    <3>2. Len(p.sub_queries) # 1
      BY <2>5 DEF PlanAccepted
    <3>3. Len(p.sub_queries) \in Nat /\ Len(p.sub_queries) # 0
      <4>1. IsSeq(p.sub_queries) /\ p.sub_queries # <<>>
        BY DraftFacts
      <4>q. QED  BY <4>1, SeqFacts
    <3>4. Answerless(p)
      <4> DEFINE k == Len(p.sub_queries)
      <4>1. k \in Nat /\ k # 0 /\ k # 1
        BY <3>2, <3>3
      <4> HIDE DEF k
      <4>2. k > 1
        BY <4>1
      <4>q. QED  BY <1>6, <4>2 DEF Answerless, k
    <3>q. QED  BY <3>1, <3>4 DEF merged, results
  <2>q. QED  BY <2>4, <2>5
<1>7. CASE steps # <<>>
  <2>1. n \in 1 .. n /\ Last(steps) = steps[n]
    <3>1. Last(steps) = steps[n] /\ n \in DOMAIN steps
      BY <1>1, <1>7, FrontFacts, Zenon
    <3>q. QED  BY <1>1, <3>1
  <2>2. AnswerOf(p) = steps[n].output
    BY <1>7, <2>1 DEF AnswerOf
  <2>3. CASE b.failed
    <3>1. merged = MergeError
      BY <1>5, <2>3
    <3>q. QED  BY <2>3, <3>1 DEF merged, results, B
  <2>4. CASE ~b.failed
    <3>1. merged = b.bound[steps[n].output]
      BY <1>5, <1>7, <2>1, <2>4
    <3>2. b = Bind(B[n - 1], steps[n])
      BY <1>2, <2>1
    <3>3. steps[n].output \in DOMAIN b.bound
      <4> DEFINE c == B[n - 1]
                 s == steps[n]
      <4> HIDE DEF c, s
      <4>1. b = Bind(c, s) /\ ~Bind(c, s).failed
        BY <2>4, <3>2 DEF c, s
      <4>2. Bind(c, s).bound = Assigned(c.bound, s.output, Merged(s, c.bound[s.left], c.bound[s.right]))
        BY <4>1 DEF Bind
      <4>3. s.output \in DOMAIN Bind(c, s).bound
        BY <4>2 DEF Assigned
      <4>q. QED  BY <4>1, <4>3 DEF s
    <3>4. merged \in Tables
      BY <1>3, <3>1, <3>3 DEF AllTables
    <3>5. merged # MergeError
      BY <3>4, TableIsNone
    <3>q. QED  BY <2>2, <2>4, <3>1, <3>3, <3>4, <3>5 DEF merged, results, B
  <2>q. QED  BY <2>3, <2>4
<1>q. QED  BY <1>6, <1>7

\* As many rows as the bag counts.
LEMMA BagOfRows ==
  ASSUME NEW t, IsSeq(t.rows)
  PROVE  SumFunction(BagOf(Rows(t))) = Len(t.rows)
<1> DEFINE f == Rows(t)
           n == Len(t.rows)
<1>1. n \in Nat /\ DOMAIN f = 1 .. n
  BY SeqFacts DEF Rows
<1> HIDE DEF f, n
<1>2. 1 \in Int /\ n \in Int
  BY <1>1
<1>3. IsFiniteSet(1 .. n) /\ Cardinality(1 .. n) = IF 1 > n THEN 0 ELSE n - 1 + 1
  BY <1>2, FS_Interval, Zenon
<1>4. Cardinality(1 .. n) = n
  BY <1>1, <1>3
<1>5. IsFiniteSet(DOMAIN f) /\ Cardinality(DOMAIN f) = n
  BY <1>1, <1>3, <1>4
<1>6. SumFunction(BagOf(f)) = Cardinality(DOMAIN f)
  BY <1>5, SumOfBag, Zenon
<1>q. QED  BY <1>5, <1>6 DEF f, n

\* What the cap leaves of a table.
LEMMA CapFacts ==
  ASSUME NEW t \in Tables, NEW all \in Nat, all = Len(t.rows)
  PROVE  LET r == ApplyRowCap(t)
             cut == MaxRows > 0 /\ all > MaxRows
         IN /\ r \in Tables /\ r.columns = t.columns
            /\ r.truncated <=> cut \/ t.truncated
            /\ BagOf(Rows(r)) \sqsubseteq BagOf(Rows(t))
            /\ SumFunction(BagOf(Rows(r))) = IF cut THEN MaxRows ELSE all
<1> DEFINE r == ApplyRowCap(t)
           cut == MaxRows > 0 /\ all > MaxRows
           part == SubSeq(t.rows, 1, MaxRows)
<1>1. MaxRows \in Nat
  BY FederationAssumption
<1>2. /\ IsSeq(t.rows) /\ t.columns \in Seq(STRING) /\ t.rows \in Seq(Seq(Cells)) /\ t.truncated \in BOOLEAN
      /\ \A i \in DOMAIN t.rows : Len(t.rows[i]) = Len(t.columns)
  BY TableFacts
<1>3. IsFiniteSet(DOMAIN Rows(t))
  <2>1. DOMAIN Rows(t) = DOMAIN t.rows
    BY DEF Rows
  <2>q. QED  BY <1>2, <2>1, FinitePlaces
<1>4. CASE ~cut
  <2>1. r = t
    BY <1>1, <1>4 DEF ApplyRowCap
  <2>2. SumFunction(BagOf(Rows(t))) = all
    BY <1>2, BagOfRows
  <2>3. BagOf(Rows(t)) \sqsubseteq BagOf(Rows(t))
    <3>1. DOMAIN Rows(t) \subseteq DOMAIN Rows(t) /\ \A i \in DOMAIN Rows(t) : Rows(t)[i] = Rows(t)[i]
      OBVIOUS
    <3>q. QED  BY <1>3, <3>1, BagOfPart, Zenon
  <2>q. QED  BY <1>4, <2>1, <2>2, <2>3
<1>5. CASE cut
  <2>1. r = [columns |-> t.columns, rows |-> part, truncated |-> TRUE]
    BY <1>1, <1>5 DEF ApplyRowCap
  <2>2. MaxRows \in 0 .. Len(t.rows)
    BY <1>1, <1>5
  <2>3. /\ IsSeq(part) /\ Len(part) = MaxRows
        /\ \A i \in DOMAIN part : i \in DOMAIN t.rows /\ part[i] = t.rows[i]
    BY <1>2, <2>2, PrefixFacts, Zenon
  <2> HIDE DEF part
  <2>4. ToSet(part) \subseteq Seq(Cells)
    <3>1. ToSet(t.rows) \subseteq Seq(Cells)
      BY <1>2, SeqIsSeq
    <3>q. QED  BY <2>3, <3>1 DEF ToSet
  <2>5. part \in Seq(Seq(Cells)) /\ \A i \in DOMAIN part : Len(part[i]) = Len(t.columns)
    BY <1>2, <2>3, <2>4, SeqOver
  <2>6. r \in Tables
    BY <1>2, <2>1, <2>5 DEF Tables
  <2>7. r.rows = part /\ r.columns = t.columns /\ r.truncated = TRUE
    BY <2>1
  <2> HIDE DEF r
  <2>8. DOMAIN Rows(r) = DOMAIN part /\ \A i \in DOMAIN part : Rows(r)[i] = RowOf(t.columns, part[i])
    BY <2>7 DEF Rows
  <2>9. DOMAIN Rows(t) = DOMAIN t.rows /\ \A i \in DOMAIN t.rows : Rows(t)[i] = RowOf(t.columns, t.rows[i])
    BY DEF Rows
  <2>10. DOMAIN Rows(r) \subseteq DOMAIN Rows(t) /\ \A i \in DOMAIN Rows(r) : Rows(r)[i] = Rows(t)[i]
    BY <2>3, <2>8, <2>9
  <2>11. BagOf(Rows(r)) \sqsubseteq BagOf(Rows(t))
    BY <1>3, <2>10, BagOfPart, Zenon
  <2>12. SumFunction(BagOf(Rows(r))) = MaxRows
    BY <2>3, <2>7, BagOfRows
  <2>q. QED  BY <1>5, <2>6, <2>7, <2>11, <2>12 DEF r
<1>q. QED  BY <1>4, <1>5

-----------------------------------------------------------------------------
(* The invariant *)

\* What the pipeline makes of the answers.
MergedOf(p, os) == ExecuteMergePipeline(SubResultsOf(p, os), p.merge_steps)

\* Only an accepted plan is run, and only when all of it has answered does it end: with the
\* merge of the answers, or with none.
MergeIInv ==
  /\ plan \in Drafts
  /\ DOMAIN outcomes = DOMAIN plan.sub_queries
  /\ \A i \in DOMAIN outcomes : outcomes[i] \in SubResults \cup {Failed, Pending}
  /\ stage \in {"drafted", "rejected", "running", "failed", "done"}
  /\ stage \in {"running", "failed", "done"} => PlanAccepted(plan)
  /\ stage = "done" => /\ Answered(plan, outcomes)
                       /\ MergedOf(plan, outcomes) # MergeError
                       /\ result = ApplyRowCap(MergedOf(plan, outcomes))
  /\ stage # "done" => result = NoResult
  /\ stage = "failed" => \/ \E i \in DOMAIN outcomes : outcomes[i] = Failed
                         \/ /\ Answered(plan, outcomes)
                            /\ MergedOf(plan, outcomes) = MergeError

\* The invariant holds at first, and every step keeps it.
LEMMA MergeInitInv ==
  ASSUME MergeInit  PROVE MergeIInv
<1>1. /\ plan \in Drafts /\ outcomes = [i \in DOMAIN plan.sub_queries |-> Pending]
      /\ stage = "drafted" /\ result = NoResult
  BY DEF MergeInit
<1>2. DOMAIN outcomes = DOMAIN plan.sub_queries /\ \A i \in DOMAIN outcomes : outcomes[i] = Pending
  BY <1>1
<1>q. QED  BY <1>1, <1>2 DEF MergeIInv

LEMMA MergeStepInv ==
  ASSUME MergeIInv, [MergeNext]_mergeVars  PROVE MergeIInv'
<1>1. CASE CrossValidate
  <2>1. /\ stage = "drafted" /\ UNCHANGED <<plan, outcomes, result>>
        /\ stage' = IF PlanAccepted(plan) THEN "running" ELSE "rejected"
    BY <1>1 DEF CrossValidate
  <2>q. QED  BY <2>1 DEF MergeIInv
<1>2. ASSUME NEW i \in DOMAIN outcomes, RunOne(i)  PROVE MergeIInv'
  <2>1. /\ stage = "running" /\ UNCHANGED <<plan, stage, result>>
        /\ \E o \in SubResults \cup {Failed} : outcomes' = [outcomes EXCEPT ![i] = o]
    BY <1>2 DEF RunOne
  <2>2. PICK o \in SubResults \cup {Failed} : outcomes' = [outcomes EXCEPT ![i] = o]
    BY <2>1
  <2>3. DOMAIN outcomes' = DOMAIN outcomes
    BY <2>2
  <2>4. \A j \in DOMAIN outcomes : outcomes'[j] = IF j = i THEN o ELSE outcomes[j]
    BY <2>2
  <2>5. \A j \in DOMAIN outcomes' : outcomes'[j] \in SubResults \cup {Failed, Pending}
    BY <2>3, <2>4 DEF MergeIInv
  <2>q. QED  BY <2>1, <2>3, <2>5 DEF MergeIInv
<1>3. CASE Gather
  <2>1. /\ stage = "running" /\ (\A i \in DOMAIN outcomes : outcomes[i] # Pending)
        /\ UNCHANGED <<plan, outcomes>>
    BY <1>3 DEF Gather
  <2>2. result = NoResult /\ PlanAccepted(plan)
    BY <2>1 DEF MergeIInv
  <2>3. CASE \E i \in DOMAIN outcomes : outcomes[i] = Failed
    <3>1. stage' = "failed" /\ UNCHANGED result
      BY <1>3, <2>3 DEF Gather
    <3>q. QED  BY <2>1, <2>2, <2>3, <3>1 DEF MergeIInv
  <2>4. CASE ~\E i \in DOMAIN outcomes : outcomes[i] = Failed
    <3>1. Answered(plan, outcomes)
      BY <2>1, <2>4 DEF MergeIInv, Answered
    <3>2. CASE MergedOf(plan, outcomes) = MergeError
      <4>1. stage' = "failed" /\ UNCHANGED result
        BY <1>3, <2>4, <3>2 DEF Gather, MergedOf
      <4>q. QED  BY <2>1, <2>2, <3>1, <3>2, <4>1 DEF MergeIInv
    <3>3. CASE MergedOf(plan, outcomes) # MergeError
      <4>1. stage' = "done" /\ result' = ApplyRowCap(MergedOf(plan, outcomes))
        BY <1>3, <2>4, <3>3 DEF Gather, MergedOf
      <4>q. QED  BY <2>1, <2>2, <3>1, <3>3, <4>1 DEF MergeIInv
    <3>q. QED  BY <3>2, <3>3
  <2>q. QED  BY <2>3, <2>4
<1>4. CASE UNCHANGED mergeVars
  BY <1>4 DEF mergeVars, MergeIInv, MergedOf, Answered
<1>q. QED  BY <1>1, <1>2, <1>3, <1>4 DEF MergeNext

\* A finished merge is the capped answer, and where no name stands for two columns the
\* answer is what the steps mean.
LEMMA DoneIsMeant ==
  ASSUME MergeIInv, stage = "done"
  PROVE  LET t == MergedOf(plan, outcomes)
             meant == Meanings(plan, outcomes)
         IN /\ t \in Tables /\ result = ApplyRowCap(t)
            /\ meant.ambiguous \/ Stands(t, meant.bound[AnswerOf(plan)], SubResultsOf(plan, outcomes))
<1> DEFINE t == MergedOf(plan, outcomes)
           meant == Meanings(plan, outcomes)
           results == SubResultsOf(plan, outcomes)
           n == Len(plan.merge_steps)
           b == Bindings(results, plan.merge_steps)[n]
<1>1. /\ plan \in Drafts /\ PlanAccepted(plan) /\ Answered(plan, outcomes)
      /\ t # MergeError /\ result = ApplyRowCap(t)
  BY DEF MergeIInv
<1>2. t \in Tables /\ ~b.failed /\ AnswerOf(plan) \in DOMAIN b.bound /\ t = b.bound[AnswerOf(plan)]
  BY <1>1, MergeEnds DEF MergedOf
<1>3. n \in Nat /\ n \in 0 .. n
  BY <1>1, DraftFacts
<1>4. PICK m : MeansSoFar(m, plan, outcomes) /\ meant = m[n]
  BY <1>1, <1>3, MeaningsFacts
<1>5. m[n].ambiguous \/ Agree(b, m[n], results, KnownBefore(plan, n + 1))
  BY <1>1, <1>3, <1>4, AgreeAlways
<1>6. ASSUME ~meant.ambiguous  PROVE Stands(t, meant.bound[AnswerOf(plan)], results)
  <2>1. Agree(b, meant, results, KnownBefore(plan, n + 1))
    BY <1>4, <1>5, <1>6
  <2> HIDE DEF b, t, meant, results, n
  <2>2. /\ DOMAIN b.bound = KnownBefore(plan, n + 1)
        /\ \A x \in KnownBefore(plan, n + 1) : Stands(b.bound[x], meant.bound[x], results)
    BY <1>2, <2>1 DEF Agree
  <2>q. QED  BY <1>2, <2>2
<1>q. QED  BY <1>1, <1>2, <1>6

\* A merge that is done is what its steps mean; the cap takes rows and says so.
LEMMA DoneIsSound ==
  ASSUME MergeIInv  PROVE MergeSound
<1>1. MergeTypeOK
  <2>1. CASE stage = "done"
    <3>1. MergedOf(plan, outcomes) \in Tables /\ result = ApplyRowCap(MergedOf(plan, outcomes))
      BY <2>1, DoneIsMeant
    <3> DEFINE t == MergedOf(plan, outcomes)
    <3> HIDE DEF t
    <3>2. t \in Tables /\ result = ApplyRowCap(t)
      BY <3>1 DEF t
    <3>3. Len(t.rows) \in Nat
      BY <3>2, TableFacts, SeqFacts
    <3>4. result \in Tables
      BY <3>2, <3>3, CapFacts
    <3>5. result # NoResult /\ \A i \in DOMAIN result.rows : Len(result.rows[i]) = Len(result.columns)
      BY <3>4, TableIsNone, TableFacts
    <3>q. QED  BY <2>1, <3>5 DEF MergeTypeOK, MergeIInv
  <2>2. CASE stage # "done"
    BY <2>2 DEF MergeTypeOK, MergeIInv
  <2>q. QED  BY <2>1, <2>2
<1>2. MergedAsDescribed
  <2> DEFINE meant == Meanings(plan, outcomes)
             m == meant.bound[AnswerOf(plan)]
             results == SubResultsOf(plan, outcomes)
             kept == Relation("result", result).bag
             all == SumFunction(m.bag)
             cut == MaxRows > 0 /\ all > MaxRows
             t == MergedOf(plan, outcomes)
  <2>1. SUFFICES ASSUME stage = "done", ~meant.ambiguous
                 PROVE  /\ ToSet(result.columns) = m.columns
                        /\ kept \sqsubseteq m.bag
                        /\ SumFunction(kept) = IF cut THEN MaxRows ELSE all
                        /\ result.truncated <=> cut \/ \E a \in m.from : results[a].truncated
    BY DEF MergedAsDescribed
  <2>2. t \in Tables /\ result = ApplyRowCap(t) /\ Stands(t, m, results)
    BY <2>1, DoneIsMeant
  <2>3. kept = BagOf(Rows(result))
    BY DEF Relation
  <2> HIDE DEF meant, m, results, kept, t
  <2>4. /\ m.columns = ToSet(t.columns) /\ m.bag = BagOf(Rows(t))
        /\ t.truncated <=> \E a \in m.from : results[a].truncated
    BY <2>2 DEF Stands, Reads
  <2>5. IsSeq(t.rows) /\ Len(t.rows) \in Nat
    BY <2>2, TableFacts, SeqFacts
  <2>6. all = Len(t.rows) /\ all \in Nat
    <3>1. SumFunction(BagOf(Rows(t))) = Len(t.rows)
      BY <2>5, BagOfRows
    <3>q. QED  BY <2>4, <2>5, <3>1
  <2> HIDE DEF all
  <2>7. /\ result.columns = t.columns
        /\ result.truncated <=> cut \/ t.truncated
        /\ BagOf(Rows(result)) \sqsubseteq BagOf(Rows(t))
        /\ SumFunction(BagOf(Rows(result))) = IF cut THEN MaxRows ELSE all
    BY <2>2, <2>6, CapFacts
  <2>q. QED  BY <2>3, <2>4, <2>7
<1>q. QED  BY <1>1, <1>2 DEF MergeSound

\* A merge that failed has a step without a meaning, or a name that stands for two columns.
LEMMA FailedIsExplained ==
  ASSUME MergeIInv  PROVE AcceptedPlansMerge
<1> DEFINE meant == Meanings(plan, outcomes)
           results == SubResultsOf(plan, outcomes)
           n == Len(plan.merge_steps)
           b == Bindings(results, plan.merge_steps)[n]
<1>1. SUFFICES ASSUME stage = "failed", ~\E i \in DOMAIN outcomes : outcomes[i] = Failed, ~Answerless(plan)
               PROVE  NamesBound(plan) /\ (meant.senseless \/ meant.ambiguous)
  BY DEF AcceptedPlansMerge
<1>2. /\ plan \in Drafts /\ PlanAccepted(plan) /\ Answered(plan, outcomes)
      /\ MergedOf(plan, outcomes) = MergeError
  BY <1>1 DEF MergeIInv
<1>3. b.failed
  BY <1>1, <1>2, MergeEnds DEF MergedOf
<1>4. n \in Nat /\ n \in 0 .. n /\ DOMAIN plan.merge_steps = 1 .. n
  BY <1>2, DraftFacts
<1>5. PICK m : MeansSoFar(m, plan, outcomes) /\ meant = m[n]
  BY <1>2, <1>4, MeaningsFacts
<1>6. m[n].ambiguous \/ Agree(b, m[n], results, KnownBefore(plan, n + 1))
  BY <1>2, <1>4, <1>5, AgreeAlways
<1>7. meant.senseless \/ meant.ambiguous
  <2> HIDE DEF b, meant, results, n
  <2>q. QED  BY <1>3, <1>5, <1>6 DEF Agree
<1>8. NamesBound(plan)
  <2> DEFINE s(i) == plan.merge_steps[i]
  <2>1. ASSUME NEW i \in 1 .. n
        PROVE  {s(i).left, s(i).right} \subseteq KnownBefore(plan, i) /\ s(i).output \notin KnownBefore(plan, i)
    BY <1>2, <1>4 DEF PlanAccepted
  <2>2. ASSUME NEW i \in 1 .. n, NEW j \in 1 .. i - 1
        PROVE  j \in 1 .. n /\ s(j).output # s(i).output
    <3>1. s(j).output \in KnownBefore(plan, i)
      BY DEF KnownBefore
    <3>2. j \in 1 .. n
      BY <1>4
    <3>q. QED  BY <2>1, <3>1, <3>2
  <2>3. ASSUME NEW i \in 1 .. n, NEW a \in {s(i).left, s(i).right} \ AliasesOf(plan)
        PROVE  \E j \in 1 .. i - 1 : s(j).output = a
    <3>1. a \in KnownBefore(plan, i)
      BY <2>1
    <3>q. QED  BY <3>1 DEF KnownBefore
  <2>4. ASSUME NEW i \in 1 .. n, NEW j \in 1 .. n, j # i  PROVE s(j).output # s(i).output
    <3>1. j \in 1 .. i - 1 \/ i \in 1 .. j - 1
      BY <1>4, <2>4
    <3>q. QED  BY <2>2, <3>1
  <2> HIDE DEF n
  <2>q. QED  BY <1>4, <2>3, <2>4 DEF NamesBound
<1>q. QED  BY <1>7, <1>8

\* The plan that runs is the one the planner's checks let pass, and what is returned is the
\* capped merge of all its answers, or nothing (federated_executor.py:181-245).
THEOREM MergeInvariant == MergeSpec => []MergeIInv
<1>1. MergeInit => MergeIInv
  BY MergeInitInv
<1>2. MergeIInv /\ [MergeNext]_mergeVars => MergeIInv'
  BY MergeStepInv
<1>q. QED  BY <1>1, <1>2, PTL DEF MergeSpec

\* A finished merge is the table its steps mean of the results of its sub-queries, each row as
\* often as it should be, cut at FEDERATION_MAX_ROWS and truncated just when rows are missing
\* (execute_merge_pipeline in federation_merge.py, _apply_row_cap in federated_executor.py).
THEOREM MergeIsSound == MergeSpec => []MergeSound
<1>1. MergeIInv => MergeSound
  BY DoneIsSound
<1>q. QED  BY <1>1, MergeInvariant, PTL

\* A plan the planner's checks let pass never fails for a name that is not bound, only for what
\* its sub-queries returned (federated_planner.py:240-282 against federation_merge.py:170-187).
THEOREM AcceptedPlansAreMerged == MergeSpec => []AcceptedPlansMerge
<1>1. MergeIInv => AcceptedPlansMerge
  BY FailedIsExplained
<1>q. QED  BY <1>1, MergeInvariant, PTL
=============================================================================
