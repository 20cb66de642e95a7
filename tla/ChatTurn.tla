------------------------------ MODULE ChatTurn ------------------------------
(***************************************************************************)
(* POST /chat (api/chat.py) around the agent graph: the workspace and the  *)
(* session of a turn, the rolling summary of a long session, the streamed  *)
(* answer with its fallbacks, what is stored of it, the question-and-      *)
(* answer index, the usage counters, and the session endpoints.            *)
(*                                                                         *)
(* The graph is one step with an outcome (AgentGraph says how it comes     *)
(* about).  A message is the turn that wrote it, its role, and the time of *)
(* the transaction that inserted it: created_at is PostgreSQL's now(), the *)
(* start of the transaction and not its commit.                            *)
(***************************************************************************)
EXTENDS Integers, FiniteSets

CONSTANTS Sessions,   \* ids of chat sessions
          Workspaces, \* workspaces of the user
          NoSession, NoWorkspace,
          Threshold,  \* SUMMARY_THRESHOLD
          KeepRecent, \* KEEP_RECENT
          MaxTurns,   \* bound: requests
          MaxCuts     \* bound: requests that are cut off

ASSUME ChatAssumption ==
  /\ Sessions # {} /\ NoSession \notin Sessions /\ NoWorkspace \notin Workspaces
  /\ Threshold \in Nat /\ KeepRecent \in 1 .. Threshold
  /\ MaxTurns \in Nat \ {0} /\ MaxCuts \in Nat

VARIABLES sess,    \* chat_sessions
          msgs,    \* messages, which name their turn and its session
          queries, \* query_history: turns with a row, and whether it keeps rows
          recall,  \* turns in the question-and-answer index
          usage,   \* how often the counters of a turn were added to usage_daily
          turn,    \* requests
          clock    \* the time transactions take as now()

vars == <<sess, msgs, queries, recall, usage, turn, clock>>

Turns == 0 .. MaxTurns
Roles == {"user", "answer", "fallback"}
Stages == {"none", "arrived", "summarised", "streaming", "recalled", "answered",
           "failed", "stored", "closing", "done"}
\* What the client got: `told' is a final event that names no message.
Heard == {"nothing", "told", "final", "error"}

\* Of the history, before and context are kept while it is put together, and then
\* how many messages it misses, and how many were stored in the meantime.
NoTurn == [at |-> "none", session |-> NoSession, began |-> 0, before |-> {},
           context |-> {}, long |-> FALSE, missing |-> 0, late |-> 0,
           kind |-> "none", active |-> FALSE,
           heard |-> "nothing", cut |-> FALSE]
Ended(t, heard) == [turn[t] EXCEPT !.at = "done", !.began = 0, !.before = {},
                                   !.context = {}, !.heard = heard]

\* Turn 0 is over: it left a session with a question and its answer.
Init ==
  LET s == CHOOSE x \in Sessions : TRUE IN
    /\ sess = [n \in Sessions |->
                [state |-> IF n = s THEN "open" ELSE "none", through |-> 0]]
    /\ msgs = {[turn |-> 0, role |-> "user", at |-> 1],
               [turn |-> 0, role |-> "answer", at |-> 2]}
    /\ queries = {}
    /\ recall = {}
    /\ usage = [t \in Turns |-> IF t = 0 THEN 1 ELSE 0]
    /\ turn = [t \in Turns |->
                IF t = 0
                THEN [NoTurn EXCEPT !.at = "done", !.session = s, !.kind = "chitchat",
                                    !.active = TRUE, !.heard = "final"]
                ELSE NoTurn]
    /\ clock = 2

MessagesOf(s) == {m \in msgs : turn[m.turn].session = s}
Open(s) == s \in Sessions /\ sess[s].state = "open"
Step(t, stage) == turn' = [turn EXCEPT ![t].at = stage]
Over(t, heard) ==
  turn' = [turn EXCEPT ![t].at = "closing", ![t].began = 0, ![t].heard = heard]

\* The n messages of M that were created last.
Newest(M, n) == {m \in M : Cardinality({o \in M : o.at > m.at}) < n}

-----------------------------------------------------------------------------
(* The workspace and the session of a turn *)

\* workspace_resolver.resolve: the workspaces the message names with @ or [ ], the
\* ones whose bare name occurs in it, and the dropdown; then the fallback of
\* _resolve_or_workspace_id when the answer is Ambiguous, Conflict or Missing.
WorkspaceOf(explicit, bare, dropdown) ==
  IF explicit # {}
  THEN IF Cardinality(explicit) = 1 THEN CHOOSE w \in explicit : TRUE ELSE dropdown
  ELSE IF Cardinality(bare) = 1 /\ dropdown \in bare \cup {NoWorkspace}
       THEN CHOOSE w \in bare : TRUE ELSE dropdown

\* _ensure_session: a session that is gone is replaced by a new one; a session
\* that is there is used whatever its workspace is.
Ensured(s) ==
  IF Open(s) THEN {s} ELSE {n \in Sessions : sess[n].state = "none"}

Arrive(t, s, explicit, bare, dropdown) ==
  LET w == WorkspaceOf(explicit, bare, dropdown) IN
  /\ turn[t].at = "none"
  /\ \A u \in 0 .. (t - 1) : turn[u].at # "none"
  /\ clock' = clock + 1
  /\ IF w = NoWorkspace
     THEN /\ turn' = [turn EXCEPT ![t].at = "done", ![t].heard = "told"]
          /\ UNCHANGED sess
     ELSE \E n \in Ensured(s) :
          /\ turn' = [turn EXCEPT ![t] = [@ EXCEPT !.at = "arrived", !.session = n,
                                            !.began = clock']]
          /\ sess' = IF Open(s) THEN sess
                     ELSE [sess EXCEPT ![n].state = "new"]
  /\ UNCHANGED <<msgs, queries, recall, usage>>

-----------------------------------------------------------------------------
(* The history the agent is given *)

\* Mutant: the message at the cutoff is neither summarised nor kept.
SummarisedOneLess(M) ==
  IF Cardinality(M) <= Threshold THEN {} ELSE M \ Newest(M, KeepRecent + 1)
\* ensure_summary folds all but the newest messages, each time anew.
Summarised(M) ==
  IF Cardinality(M) <= Threshold THEN {} ELSE M \ Newest(M, KeepRecent)

\* The messages are read, and the model is asked for their summary.
Summarise(t) ==
  /\ turn[t].at = "arrived"
  /\ LET M == MessagesOf(turn[t].session) IN
     turn' = [turn EXCEPT ![t] = [@ EXCEPT !.at = "summarised", !.before = M,
                                           !.context = Summarised(M)]]
  /\ UNCHANGED <<sess, msgs, queries, recall, usage, clock>>

\* The recent messages are read again, the question is stored, and the next
\* transaction begins.  Without its session the request fails.
StoreQuestion(t) ==
  LET s == turn[t].session
      M == MessagesOf(s) IN
  /\ turn[t].at = "summarised"
  /\ IF sess[s].state = "deleted"
     THEN /\ turn' = [turn EXCEPT ![t] = Ended(t, "error")]
          /\ UNCHANGED <<sess, msgs, clock>>
     ELSE /\ sess' = [sess EXCEPT ![s].state = "open",
                        ![s].through = IF turn[t].context = {} THEN @
                                       ELSE Cardinality(turn[t].context)]
          /\ msgs' = msgs \cup {[turn |-> t, role |-> "user", at |-> turn[t].began]}
          /\ clock' = clock + 1
          /\ turn' = [turn EXCEPT ![t] = [@ EXCEPT !.at = "streaming",
                        !.began = clock', !.before = {}, !.context = {},
                        !.long = turn[t].context # {},
                        !.missing = Cardinality(M \ (turn[t].context \cup Newest(M, KeepRecent))),
                        !.late = Cardinality(M \ turn[t].before)]]
  /\ UNCHANGED <<queries, recall, usage>>

-----------------------------------------------------------------------------
(* The stream *)

\* A slash command stores its answer and ends; it counts no usage.  A session that
\* is gone makes the insert raise.
Slash(t) ==
  /\ turn[t].at = "streaming"
  /\ IF Open(turn[t].session)
     THEN /\ msgs' = msgs \cup {[turn |-> t, role |-> "answer", at |-> turn[t].began]}
          /\ turn' = [turn EXCEPT ![t] = Ended(t, "final")]
     ELSE /\ turn' = [turn EXCEPT ![t] = Ended(t, "nothing")]
          /\ UNCHANGED msgs
  /\ UNCHANGED <<sess, queries, recall, usage, clock>>

\* A scope that names no connections ends the turn; nothing is stored of it.
ScopeFails(t) ==
  /\ turn[t].at = "streaming"
  /\ Over(t, "told")
  /\ UNCHANGED <<sess, msgs, queries, recall, usage, clock>>

\* find_similar: if its SQL fails the transaction is rolled back and a later
\* statement begins another.
Recall(t) ==
  /\ turn[t].at = "streaming"
  /\ \E began \in {turn[t].began, 0} :
       turn' = [turn EXCEPT ![t].at = "recalled", ![t].began = began]
  /\ UNCHANGED <<sess, msgs, queries, recall, usage, clock>>

\* The answer is about data (`query' ran SQL, `text' did not) or small talk.
GraphAnswers(t) ==
  /\ turn[t].at = "recalled"
  /\ \E kind \in {"query", "text", "chitchat"} :
       turn' = [turn EXCEPT ![t].at = "answered", ![t].kind = kind, ![t].active = TRUE]
  /\ UNCHANGED <<sess, msgs, queries, recall, usage, clock>>

GraphRaises(t) ==
  /\ turn[t].at = "recalled"
  /\ \E active \in BOOLEAN :
       turn' = [turn EXCEPT ![t].at = "failed", ![t].active = active]
  /\ UNCHANGED <<sess, msgs, queries, recall, usage, clock>>

\* A message is created when its transaction began; one that begins now takes now.
Created(t) == IF turn[t].began = 0 THEN clock + 1 ELSE turn[t].began
Tick(t) == clock' = IF turn[t].began = 0 THEN clock + 1 ELSE clock

\* Mutant: the error is sent and nothing is stored.
FallbackNotStored(t) ==
  /\ turn[t].at = "failed"
  /\ Over(t, "error")
  /\ UNCHANGED <<sess, msgs, queries, recall, usage, clock>>

\* The transaction is rolled back first, so the fallback begins a new one.
Fallback(t) ==
  /\ turn[t].at = "failed"
  /\ IF Open(turn[t].session)
     THEN /\ msgs' = msgs \cup {[turn |-> t, role |-> "fallback", at |-> clock + 1]}
          /\ clock' = clock + 1
          /\ Over(t, "final")
     ELSE Over(t, "error") /\ UNCHANGED <<msgs, clock>>
  /\ UNCHANGED <<sess, queries, recall, usage>>

\* Mutant: the answer is streamed before it is committed.
PersistSendsFirst(t) ==
  /\ turn[t].at = "answered"
  /\ turn' = [turn EXCEPT ![t].at = "stored", ![t].heard = "final"]
  /\ UNCHANGED <<sess, msgs, queries, recall, usage, clock>>

\* The answer and its query go in one commit.  If the session is gone the insert
\* raises, and nothing catches it.
Persist(t) ==
  /\ turn[t].at = "answered"
  /\ IF Open(turn[t].session)
     THEN /\ msgs' = msgs \cup {[turn |-> t, role |-> "answer", at |-> Created(t)]}
          /\ Tick(t)
          /\ IF turn[t].kind = "query"
             THEN \E rows \in BOOLEAN : queries' = queries \cup {[turn |-> t, rows |-> rows]}
             ELSE UNCHANGED queries
          /\ Step(t, "stored")
     ELSE Over(t, "nothing") /\ UNCHANGED <<msgs, queries, clock>>
  /\ UNCHANGED <<sess, recall, usage>>

\* Small talk is not indexed.
Indexed(t) == turn[t].kind \in {"query", "text"}

\* index_qa_pair, then the final event.  Triton may be down; an insert that fails is
\* rolled back, and the message's attributes expire with it, so that the event that
\* names its id raises.
Index(t) ==
  /\ turn[t].at = "stored"
  /\ \/ /\ Indexed(t)
        /\ recall' = recall \cup {t}
        /\ Over(t, "final")
     \/ Over(t, "final") /\ UNCHANGED recall
     \/ /\ Indexed(t)
        /\ Over(t, "nothing")
        /\ UNCHANGED recall
  /\ UNCHANGED <<sess, msgs, queries, usage, clock>>

\* Mutant: the counters are added again when the first try was slow.
FlushTwice(t) ==
  /\ turn[t].at = "closing"
  /\ usage' = [usage EXCEPT ![t] = @ + 1]
  /\ \E stage \in {"closing", "done"} : Step(t, stage)
  /\ usage[t] < 2
  /\ UNCHANGED <<sess, msgs, queries, recall, clock>>

\* flush_bucket: one upsert adds the counters, unless there are none.  After an
\* insert that raised the transaction is broken, and they are lost.
Counts(t) == turn[t].active /\ (turn[t].kind \in {"query", "text", "chitchat"} =>
                                  \E m \in msgs : m.turn = t /\ m.role = "answer")
Flush(t) ==
  /\ turn[t].at = "closing"
  /\ usage' = [usage EXCEPT ![t] = IF Counts(t) THEN @ + 1 ELSE @]
  /\ Step(t, "done")
  /\ UNCHANGED <<sess, msgs, queries, recall, clock>>

\* The client disconnects or the process dies: the stream stops where it awaits,
\* and its transaction with it.  The counters may be flushed or not.
Cut(t) ==
  /\ Cardinality({u \in Turns : turn[u].cut}) < MaxCuts
  /\ turn[t].at \notin {"none", "done"}
  /\ \E n \in {0, 1} :
       /\ n = 1 => turn[t].active
       /\ usage' = [usage EXCEPT ![t] = @ + n]
  /\ turn' = [turn EXCEPT ![t] = [Ended(t, turn[t].heard) EXCEPT !.cut = TRUE]]
  /\ sess' = IF turn[t].at \in {"arrived", "summarised"}
                /\ sess[turn[t].session].state = "new"
             THEN [sess EXCEPT ![turn[t].session].state = "deleted"] ELSE sess
  /\ UNCHANGED <<msgs, queries, recall, clock>>

-----------------------------------------------------------------------------
(* The session endpoints *)

\* DELETE /chat/sessions/{id}: messages and query_history go with the row; the
\* question-and-answer index refers to neither.
DeleteSession(s) ==
  /\ Open(s)
  /\ sess' = [sess EXCEPT ![s].state = "deleted"]
  /\ msgs' = msgs \ MessagesOf(s)
  /\ queries' = {q \in queries : turn[q.turn].session # s}
  /\ UNCHANGED <<recall, usage, turn, clock>>

\* GET /chat/sessions/{id}.
SessionPage(s) == IF Open(s) THEN MessagesOf(s) ELSE {}

\* GET /chat/messages/{id}/export of the answer of a turn.
Export(t) ==
  IF \A q \in queries : q.turn # t THEN 404
  ELSE IF [turn |-> t, rows |-> TRUE] \in queries THEN 200 ELSE 410

TurnStep(t) ==
  \/ Summarise(t) \/ StoreQuestion(t)
  \/ Slash(t) \/ ScopeFails(t) \/ Recall(t)
  \/ GraphAnswers(t) \/ GraphRaises(t) \/ Fallback(t)
  \/ Persist(t) \/ Index(t) \/ Flush(t)

Next ==
  \/ \E t \in Turns, s \in Sessions \cup {NoSession},
        explicit, bare \in SUBSET Workspaces,
        dropdown \in Workspaces \cup {NoWorkspace} : Arrive(t, s, explicit, bare, dropdown)
  \/ \E t \in Turns : TurnStep(t) \/ Cut(t)
  \/ \E s \in Sessions : DeleteSession(s)

Spec == Init /\ [][Next]_vars

-----------------------------------------------------------------------------
(* Properties *)

\* The type invariant; only a session that is open has messages.
TypeOK ==
  /\ sess \in [Sessions -> [state : {"none", "new", "open", "deleted"},
                            through : 0 .. 2 * (MaxTurns + 1)]]
  /\ msgs \subseteq [turn : Turns, role : Roles, at : 1 .. 3 * MaxTurns + 2]
  /\ queries \subseteq [turn : Turns, rows : BOOLEAN]
  /\ recall \subseteq Turns
  /\ usage \in [Turns -> 0 .. 2]
  /\ \A t \in Turns : /\ turn[t].at \in Stages /\ turn[t].heard \in Heard
                      /\ turn[t].session \in Sessions \cup {NoSession}
  /\ clock \in 2 .. 3 * MaxTurns + 2
  /\ \A m \in msgs : Open(turn[m.turn].session)

\* conversation_summary.py: above the threshold the summary and the recent window
\* together are the whole conversation.  They are read before and after the model is
\* asked for the summary; a message is missing for each one stored in between.
HistoryComplete ==
  \A t \in Turns : turn[t].long => turn[t].missing = turn[t].late

\* The messages of a session are those of its turns, and its history is all of them.
HistorySound == TypeOK /\ HistoryComplete

\* What a final event names is in the session when it is sent, and stays until the
\* session is deleted: the message, and the rows of its query for the export.
FinalIsStored ==
  \A t \in Turns :
    turn[t].heard = "final" /\ Open(turn[t].session) =>
      /\ \E m \in SessionPage(turn[t].session) : m.turn = t /\ m.role # "user"
      /\ turn[t].kind = "query" => Export(t) # 404

\* A question has at most one answer, a fallback if the graph raised, and its
\* answer is created after it whatever transactions were rolled back.
OneAnswer ==
  \A m, n \in msgs :
    m.turn = n.turn /\ m.role # "user" =>
      /\ n.role # "user" => m = n
      /\ n.role = "user" => n.at < m.at

\* "You asked this before" offers only answers to questions about data that were
\* committed, and are still there unless their session was deleted.
RecallsAnswers ==
  \A t \in recall :
    /\ turn[t].kind \in {"query", "text"}
    /\ Open(turn[t].session) => \E m \in msgs : m.turn = t /\ m.role = "answer"

\* What was answered once is found again: by the final event, by the history and by
\* the recall of earlier questions.
AnswersKept == FinalIsStored /\ OneAnswer /\ RecallsAnswers

\* A turn that answered is counted in usage_daily once, whether or not its final
\* event was sent; none is counted twice.
CountedOnce ==
  \A t \in Turns :
    /\ usage[t] <= 1
    /\ turn[t].at = "done" /\ ~turn[t].cut /\ turn[t].active /\ Open(turn[t].session)
         => usage[t] = 1

\* chat.py:552-561: no question is left alone in the history.  A turn that was not
\* cut off stored an answer or a fallback, unless it told the client that its scope
\* names nothing; and it is silent only when an answer could not be indexed.
QuestionAnswered ==
  \A t \in Turns :
    turn[t].at = "done" /\ ~turn[t].cut /\ Open(turn[t].session) =>
      /\ turn[t].heard # "told" => \E m \in msgs : m.turn = t /\ m.role # "user"
      /\ turn[t].heard # "error"
      /\ turn[t].heard = "nothing" => turn[t].kind \in {"query", "text"}

-----------------------------------------------------------------------------
(* What the repository says and the code does not do *)

\* chat.py:663-664 calls recall a progressive enhancement whose failures are silent:
\* a stored answer reaches a client that waits for it.
AnswerReachesClient ==
  \A t \in Turns :
    turn[t].at = "done" /\ ~turn[t].cut =>
      \A m \in msgs : m.turn = t /\ m.role = "answer" => turn[t].heard = "final"
=============================================================================
