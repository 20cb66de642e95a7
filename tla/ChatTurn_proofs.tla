--------------------------- MODULE ChatTurn_proofs ---------------------------
(***************************************************************************)
(* Proofs about ChatTurn for every number of sessions, workspaces, turns   *)
(* and cut-off requests.  What a final event, the history and the recall   *)
(* promise is true of a turn that is over; TurnInv says what makes it so   *)
(* at each stage before, and speaks of the messages of a turn only while   *)
(* its session is open.  The history of a long session needs more: HInv,   *)
(* at the end, orders the messages by their times and counts them.         *)
(***************************************************************************)
EXTENDS ChatTurn, FiniteSetTheorems, TLAPS

Message == [turn : Turns, role : Roles, at : Nat]
QueryRow == [turn : Turns, rows : BOOLEAN]
Kinds == {"none", "query", "text", "chitchat"}
SessionRecord == [state : {"none", "new", "open", "deleted"}, through : Nat]
TurnRecord ==
  [at : Stages, session : Sessions \cup {NoSession}, began : Nat,
   before : SUBSET Message, context : SUBSET Message, long : BOOLEAN,
   missing : Nat, late : Nat, kind : Kinds, active : BOOLEAN,
   heard : Heard, cut : BOOLEAN]

TypeInv ==
  /\ sess \in [Sessions -> SessionRecord]
  /\ msgs \in SUBSET Message /\ IsFiniteSet(msgs)
  /\ queries \in SUBSET QueryRow
  /\ recall \in SUBSET Turns
  /\ usage \in [Turns -> Nat]
  /\ turn \in [Turns -> TurnRecord]
  /\ \A t \in Turns : IsFiniteSet(turn[t].context)
  /\ clock \in Nat

SessionOpen(t) == Open(turn[t].session)
HasReply(t) == \E m \in msgs : m.turn = t /\ m.role # "user"
HasAnswer(t) == \E m \in msgs : m.turn = t /\ m.role = "answer"
HasRow(t) == \E q \in queries : q.turn = t

\* A request has a session, and is alone in a session that is not stored yet.
SeatInv(t) ==
  /\ turn[t].at \notin {"none", "done"} => turn[t].session \in Sessions
  /\ turn[t].session \in Sessions =>
       /\ sess[turn[t].session].state # "none"
       /\ sess[turn[t].session].state = "new" => turn[t].at \in {"arrived", "summarised"}

\* What a stage has not decided has its first value.
StageInv(t) ==
  /\ turn[t].began <= clock
  /\ turn[t].at = "streaming" => turn[t].began # 0
  /\ turn[t].at # "done" => ~turn[t].cut
  /\ turn[t].at \notin {"closing", "done"} => turn[t].heard = "nothing"
  /\ turn[t].at \in {"none", "arrived", "summarised", "streaming", "recalled"} =>
       turn[t].kind = "none" /\ ~turn[t].active
  /\ turn[t].at = "failed" => turn[t].kind = "none"
  /\ turn[t].at \in {"answered", "stored"} => turn[t].kind # "none"

\* A turn stores its question when it begins to stream, and one reply after that.
MessageInv(t) ==
  \A m \in msgs : m.turn = t =>
    /\ SessionOpen(t)
    /\ m.at <= clock
    /\ turn[t].at \notin {"none", "arrived", "summarised"}
    /\ m.role = "user" /\ turn[t].at \notin {"stored", "closing", "done"} =>
         turn[t].began = 0 \/ m.at < turn[t].began
    /\ m.role # "user" =>
         /\ turn[t].at \in {"stored", "closing", "done"}
         /\ \A n \in msgs : n.turn = t =>
              /\ n.role # "user" => m = n
              /\ n.role = "user" => n.at < m.at

\* What a turn that stored its answer, or is over, has left behind.
KeptInv(t) ==
  /\ turn[t].at = "stored" /\ SessionOpen(t) =>
       HasAnswer(t) /\ (turn[t].kind = "query" => HasRow(t))
  /\ turn[t].at \in {"closing", "done"} /\ SessionOpen(t) =>
       /\ turn[t].heard = "final" =>
            HasReply(t) /\ (turn[t].kind = "query" => HasRow(t))
       /\ ~turn[t].cut =>
            /\ turn[t].heard # "told" => HasReply(t)
            /\ turn[t].heard # "error"
            /\ turn[t].heard = "nothing" => turn[t].kind \in {"query", "text"}
  /\ turn[t].at = "closing" /\ SessionOpen(t) /\ turn[t].kind # "none" => HasAnswer(t)

RecallInv(t) ==
  t \in recall =>
    /\ turn[t].at \in {"closing", "done"}
    /\ turn[t].kind \in {"query", "text"}
    /\ SessionOpen(t) => HasAnswer(t)

CountInv(t) ==
  /\ usage[t] <= 1
  /\ turn[t].at # "done" => usage[t] = 0
  /\ turn[t].at = "done" /\ ~turn[t].cut /\ turn[t].active /\ SessionOpen(t) =>
       usage[t] = 1

TurnInv(t) ==
  StageInv(t) /\ MessageInv(t) /\ KeptInv(t) /\ RecallInv(t) /\ CountInv(t)

IInv == TypeInv /\ \A t \in Turns : SeatInv(t) /\ TurnInv(t)

-----------------------------------------------------------------------------
(* The initial state *)

LEMMA StartOfTurns == NoTurn \in TurnRecord
BY DEF NoTurn, TurnRecord, Stages, Kinds, Heard

\* A session with one question and its answer satisfies IInv.
LEMMA InitIInv == Init => IInv
<1> SUFFICES ASSUME Init PROVE IInv
  OBVIOUS
<1> DEFINE s == CHOOSE x \in Sessions : TRUE
           question == [turn |-> 0, role |-> "user", at |-> 1]
           answer == [turn |-> 0, role |-> "answer", at |-> 2]
           first == [NoTurn EXCEPT !.at = "done", !.session = s, !.kind = "chitchat",
                                   !.active = TRUE, !.heard = "final"]
<1>1. s \in Sessions /\ 0 \in Turns
  BY ChatAssumption DEF Turns
<1>2. /\ first \in TurnRecord
      /\ first.at = "done" /\ first.session = s /\ first.began = 0
      /\ first.context = {} /\ first.kind = "chitchat" /\ first.active = TRUE
      /\ first.heard = "final" /\ first.cut = FALSE
  BY <1>1 DEF NoTurn, TurnRecord, Stages, Kinds, Heard
<1>3. /\ NoTurn.at = "none" /\ NoTurn.session = NoSession /\ NoTurn.began = 0
      /\ NoTurn.context = {} /\ NoTurn.kind = "none" /\ NoTurn.active = FALSE
      /\ NoTurn.heard = "nothing" /\ NoTurn.cut = FALSE
  BY DEF NoTurn
<1>4. /\ msgs = {question, answer} /\ queries = {} /\ recall = {} /\ clock = 2
      /\ turn = [t \in Turns |-> IF t = 0 THEN first ELSE NoTurn]
      /\ usage = [t \in Turns |-> IF t = 0 THEN 1 ELSE 0]
      /\ sess = [n \in Sessions |->
                   [state |-> IF n = s THEN "open" ELSE "none", through |-> 0]]
  BY DEF Init
<1>5. TypeInv
  <2>1. IsFiniteSet(msgs)
    <3>1. IsFiniteSet({} \cup {question})
      BY FS_EmptySet, FS_AddElement, Zenon
    <3>2. IsFiniteSet(({} \cup {question}) \cup {answer})
      BY <3>1, FS_AddElement, Zenon
    <3>3. msgs = ({} \cup {question}) \cup {answer}
      BY <1>4
    <3>4. QED BY <3>2, <3>3
  <2>2. question \in Message /\ answer \in Message
    BY <1>1 DEF Message, Roles
  <2>3. \A t \in Turns : IsFiniteSet(turn[t].context)
    BY <1>2, <1>3, <1>4, FS_EmptySet
  <2>4. sess \in [Sessions -> SessionRecord]
    BY <1>4 DEF SessionRecord
  <2>5. QED
    BY <1>2, <1>4, <2>1, <2>2, <2>3, <2>4, StartOfTurns DEF TypeInv, Turns
<1>6. SessionOpen(0)
  BY <1>1, <1>2, <1>4 DEF SessionOpen, Open
<1> HIDE DEF first
<1>7. ASSUME NEW t \in Turns
      PROVE  SeatInv(t) /\ TurnInv(t)
  <2>1. CASE t = 0
    <3>1. turn[t] = first
      BY <1>4, <2>1, <1>1
    <3>2. SeatInv(t)
      BY <1>1, <1>2, <1>4, <3>1 DEF SeatInv
    <3>3. StageInv(t)
      BY <1>2, <1>4, <3>1 DEF StageInv
    <3>4. MessageInv(t)
      BY <1>2, <1>4, <1>6, <2>1, <3>1 DEF MessageInv
    <3>5. KeptInv(t)
      BY <1>2, <1>4, <2>1, <3>1 DEF KeptInv, HasReply
    <3>6. RecallInv(t) /\ CountInv(t)
      BY <1>2, <1>4, <2>1, <3>1 DEF RecallInv, CountInv
    <3>7. QED BY <3>2, <3>3, <3>4, <3>5, <3>6 DEF TurnInv
  <2>2. CASE t # 0
    <3>1. turn[t] = NoTurn
      BY <1>4, <2>2
    <3>2. SeatInv(t) /\ StageInv(t)
      BY <1>3, <1>4, <3>1, ChatAssumption DEF SeatInv, StageInv
    <3>3. MessageInv(t) /\ KeptInv(t)
      BY <1>3, <1>4, <2>2, <3>1 DEF MessageInv, KeptInv
    <3>4. RecallInv(t) /\ CountInv(t)
      BY <1>3, <1>4, <2>2, <3>1 DEF RecallInv, CountInv
    <3>5. QED BY <3>2, <3>3, <3>4 DEF TurnInv
  <2>3. QED BY <2>1, <2>2
<1>8. QED BY <1>5, <1>7 DEF IInv

-----------------------------------------------------------------------------
(* A step of one turn *)

\* What a step of turn t leaves to the others: their records and rows, and their
\* sessions, of which only one that nobody has stored yet may change.
Apart(t) ==
  /\ \A u \in Turns \ {t} : /\ turn'[u] = turn[u] /\ usage'[u] = usage[u]
                            /\ u \in recall' <=> u \in recall
  /\ \A m \in Message : m.turn # t => (m \in msgs' <=> m \in msgs)
  /\ \A q \in QueryRow : q.turn # t => (q \in queries' <=> q \in queries)
  /\ clock <= clock'
  /\ \A s \in Sessions : \/ sess'[s].state = sess[s].state
                         \/ sess[s].state = "none"
                         \/ sess[s].state = "new" /\ sess'[s].state \in {"open", "deleted"}

\* A turn that is not touched keeps its invariant.
LEMMA UntouchedTurn ==
  ASSUME TypeInv, TypeInv', NEW u \in Turns, SeatInv(u), TurnInv(u),
         turn'[u] = turn[u], usage'[u] = usage[u], u \in recall' <=> u \in recall,
         \A m \in Message : m.turn = u => (m \in msgs' <=> m \in msgs),
         \A q \in QueryRow : q.turn = u => (q \in queries' <=> q \in queries),
         clock <= clock',
         SessionOpen(u)' => SessionOpen(u) \/ turn[u].at \in {"arrived", "summarised"},
         SessionOpen(u) => SessionOpen(u)'
  PROVE  TurnInv(u)'
<1>1. /\ \A m : m \in msgs /\ m.turn = u <=> m \in msgs' /\ m.turn = u
      /\ \A q : q \in queries /\ q.turn = u <=> q \in queries' /\ q.turn = u
  BY DEF TypeInv
<1>2. (HasReply(u)' <=> HasReply(u)) /\ (HasAnswer(u)' <=> HasAnswer(u)) /\ (HasRow(u)' <=> HasRow(u))
  BY <1>1 DEF HasReply, HasAnswer, HasRow
<1>3. StageInv(u)'
  BY DEF TypeInv, TurnInv, StageInv, TurnRecord
<1>4. MessageInv(u)'
  <2> SUFFICES ASSUME NEW m \in msgs', m.turn = u
               PROVE  /\ SessionOpen(u)'
                      /\ m.at <= clock'
                      /\ turn[u].at \notin {"none", "arrived", "summarised"}
                      /\ m.role = "user" /\ turn[u].at \notin {"stored", "closing", "done"} =>
                           turn[u].began = 0 \/ m.at < turn[u].began
                      /\ m.role # "user" =>
                           /\ turn[u].at \in {"stored", "closing", "done"}
                           /\ \A n \in msgs' : n.turn = u =>
                                /\ n.role # "user" => m = n
                                /\ n.role = "user" => n.at < m.at
    BY DEF MessageInv
  <2>1. m \in msgs /\ m.at \in Nat
    BY <1>1 DEF TypeInv, Message
  <2>2. \A n \in msgs' : n.turn = u => n \in msgs
    BY <1>1
  <2>3. m.at <= clock'
    BY <2>1 DEF TurnInv, MessageInv, TypeInv
  <2>4. QED
    BY <2>1, <2>2, <2>3 DEF TurnInv, MessageInv
<1>5. KeptInv(u)'
  BY <1>2 DEF TurnInv, KeptInv
<1>6. RecallInv(u)' /\ CountInv(u)'
  BY <1>2 DEF TurnInv, RecallInv, CountInv
<1>7. QED BY <1>3, <1>4, <1>5, <1>6 DEF TurnInv

\* So a step of turn t has to keep the invariant of t only.
LEMMA OneTurn ==
  ASSUME IInv, TypeInv', NEW t \in Turns, Apart(t), SeatInv(t)', TurnInv(t)'
  PROVE  IInv'
<1> SUFFICES ASSUME NEW u \in Turns, u # t
             PROVE  SeatInv(u)' /\ TurnInv(u)'
  BY DEF IInv
<1>1. turn'[u] = turn[u]
  BY DEF Apart
<1>2. SeatInv(u)'
  BY <1>1 DEF IInv, SeatInv, Apart
<1>3. SessionOpen(u) => SessionOpen(u)'
  BY <1>1 DEF SessionOpen, Open, Apart
<1>4. SessionOpen(u)' => SessionOpen(u) \/ turn[u].at \in {"arrived", "summarised"}
  BY <1>1 DEF SessionOpen, Open, Apart, IInv, SeatInv
<1>5. TurnInv(u)'
  BY <1>1, <1>3, <1>4, UntouchedTurn DEF IInv, Apart
<1>6. QED BY <1>2, <1>5

\* Replacing the record of a turn leaves the other records.
LEMMA TurnSet ==
  ASSUME TypeInv, NEW t \in Turns, NEW r \in TurnRecord, IsFiniteSet(r.context),
         turn' = [turn EXCEPT ![t] = r]
  PROVE  /\ turn' \in [Turns -> TurnRecord]
         /\ turn'[t] = r
         /\ \A u \in Turns \ {t} : turn'[u] = turn[u]
         /\ \A u \in Turns : IsFiniteSet(turn'[u].context)
BY DEF TypeInv

\* What the two ways out of the stream make of a turn's record.
LEMMA EndFacts ==
  ASSUME TypeInv, NEW t \in Turns, NEW h \in Heard
  PROVE  LET e == Ended(t, h)
         IN  /\ e \in TurnRecord /\ IsFiniteSet(e.context)
             /\ e.at = "done" /\ e.began = 0 /\ e.heard = h
             /\ e.session = turn[t].session /\ e.kind = turn[t].kind
             /\ e.active = turn[t].active /\ e.cut = turn[t].cut
<1>1. turn[t] \in TurnRecord /\ IsFiniteSet({})
  BY FS_EmptySet DEF TypeInv
<1>2. QED
  BY <1>1 DEF TurnRecord, Stages, Ended

LEMMA OverFacts ==
  ASSUME TypeInv, NEW t \in Turns, NEW h \in Heard
  PROVE  LET e == [turn[t] EXCEPT !.at = "closing", !.began = 0, !.heard = h]
         IN  /\ e \in TurnRecord /\ IsFiniteSet(e.context)
             /\ e.at = "closing" /\ e.began = 0 /\ e.heard = h
             /\ e.session = turn[t].session /\ e.kind = turn[t].kind
             /\ e.active = turn[t].active /\ e.cut = turn[t].cut
<1>1. turn[t] \in TurnRecord /\ IsFiniteSet(turn[t].context)
  BY DEF TypeInv
<1>2. QED
  BY <1>1 DEF TurnRecord, Stages

\* A set of stored messages is finite, and so is its part that is not recent.
LEMMA MessageSets ==
  ASSUME TypeInv, NEW S \in Sessions \cup {NoSession}
  PROVE  /\ MessagesOf(S) \in SUBSET Message
         /\ IsFiniteSet(MessagesOf(S))
         /\ Summarised(MessagesOf(S)) \in SUBSET Message
         /\ IsFiniteSet(Summarised(MessagesOf(S)))
<1>1. MessagesOf(S) \subseteq msgs /\ Summarised(MessagesOf(S)) \subseteq MessagesOf(S)
  BY DEF MessagesOf, Summarised
<1>2. QED
  BY <1>1, FS_Subset DEF TypeInv

-----------------------------------------------------------------------------
(* One lemma per step *)

LEMMA ArriveKeepsIInv ==
  ASSUME IInv, NEW t \in Turns, NEW s \in Sessions \cup {NoSession},
         NEW explicit, NEW bare, NEW dropdown, Arrive(t, s, explicit, bare, dropdown)
  PROVE  IInv'
<1> USE DEF IInv
<1>1. /\ turn[t].at = "none" /\ clock' = clock + 1 /\ clock \in Nat
      /\ msgs' = msgs /\ queries' = queries /\ recall' = recall /\ usage' = usage
      /\ turn[t] \in TurnRecord /\ IsFiniteSet(turn[t].context)
  BY DEF Arrive, TypeInv
<1>2. CASE WorkspaceOf(explicit, bare, dropdown) = NoWorkspace
  <2> DEFINE r == [turn[t] EXCEPT !.at = "done", !.heard = "told"]
  <2>1. turn' = [turn EXCEPT ![t] = r] /\ sess' = sess
    BY <1>2 DEF Arrive, TypeInv, TurnRecord
  <2>2. /\ r \in TurnRecord /\ IsFiniteSet(r.context)
        /\ r.at = "done" /\ r.heard = "told" /\ r.began = turn[t].began
        /\ r.session = turn[t].session /\ r.kind = turn[t].kind
        /\ r.active = turn[t].active /\ r.cut = turn[t].cut
    BY <1>1 DEF TurnRecord, Stages, Heard
  <2> HIDE DEF r
  <2>3. TypeInv' /\ turn'[t] = r /\ \A u \in Turns \ {t} : turn'[u] = turn[u]
    BY <1>1, <2>1, <2>2, TurnSet DEF TypeInv
  <2>4. Apart(t)
    BY <1>1, <2>1, <2>3 DEF Apart
  <2>5. SeatInv(t)' /\ StageInv(t)'
    BY <1>1, <2>1, <2>2, <2>3 DEF SeatInv, TurnInv, StageInv, TurnRecord
  <2>6. MessageInv(t)'
    BY <1>1, <2>3 DEF TurnInv, MessageInv
  <2>7. KeptInv(t)' /\ RecallInv(t)' /\ CountInv(t)'
    BY <1>1, <2>2, <2>3 DEF TurnInv, StageInv, KeptInv, RecallInv, CountInv
  <2>8. QED BY <2>3, <2>4, <2>5, <2>6, <2>7, OneTurn DEF TurnInv
<1>3. CASE WorkspaceOf(explicit, bare, dropdown) # NoWorkspace
  <2>1. PICK n \in Ensured(s) :
          /\ turn' = [turn EXCEPT ![t] = [@ EXCEPT !.at = "arrived", !.session = n,
                                            !.began = clock']]
          /\ sess' = IF Open(s) THEN sess ELSE [sess EXCEPT ![n].state = "new"]
    BY <1>3 DEF Arrive
  <2> DEFINE r == [turn[t] EXCEPT !.at = "arrived", !.session = n, !.began = clock + 1]
  <2>2. /\ n \in Sessions
        /\ Open(s) => n = s
        /\ ~Open(s) => sess[n].state = "none"
    BY DEF Ensured, Open
  <2>3. /\ r \in TurnRecord /\ IsFiniteSet(r.context)
        /\ r.at = "arrived" /\ r.heard = turn[t].heard /\ r.began = clock + 1
        /\ r.session = n /\ r.kind = turn[t].kind
        /\ r.active = turn[t].active /\ r.cut = turn[t].cut
    <3>1. clock + 1 \in Nat /\ n \in Sessions \cup {NoSession}
      BY <1>1, <2>2
    <3>2. r \in TurnRecord
      BY <1>1, <3>1 DEF TurnRecord, Stages
    <3>3. /\ r.at = "arrived" /\ r.heard = turn[t].heard /\ r.began = clock + 1
          /\ r.session = n /\ r.kind = turn[t].kind /\ r.context = turn[t].context
          /\ r.active = turn[t].active /\ r.cut = turn[t].cut
      BY <1>1, <3>1 DEF TurnRecord
    <3>4. QED BY <1>1, <3>2, <3>3
  <2> HIDE DEF r
  <2>4. turn' = [turn EXCEPT ![t] = r]
    BY <1>1, <2>1 DEF r, TypeInv
  <2>5. /\ sess' \in [Sessions -> SessionRecord]
        /\ \A x \in Sessions : x # n => sess'[x] = sess[x]
        /\ sess'[n].state \in {"new", "open"}
        /\ Open(s) => sess' = sess
    BY <2>1, <2>2 DEF TypeInv, SessionRecord, Open
  <2>6. TypeInv' /\ turn'[t] = r /\ \A u \in Turns \ {t} : turn'[u] = turn[u]
    BY <1>1, <2>3, <2>4, <2>5, TurnSet DEF TypeInv
  <2>7. Apart(t)
    BY <1>1, <2>2, <2>5, <2>6 DEF Apart
  <2>8. SeatInv(t)' /\ StageInv(t)'
    BY <1>1, <2>2, <2>3, <2>5, <2>6 DEF SeatInv, TurnInv, StageInv, TypeInv
  <2>9. MessageInv(t)'
    BY <1>1, <2>6 DEF TurnInv, MessageInv
  <2>10. KeptInv(t)' /\ RecallInv(t)' /\ CountInv(t)'
    BY <1>1, <2>3, <2>6 DEF TurnInv, StageInv, KeptInv, RecallInv, CountInv
  <2>11. QED BY <2>6, <2>7, <2>8, <2>9, <2>10, OneTurn DEF TurnInv
<1>4. QED BY <1>2, <1>3

LEMMA SummariseKeepsIInv ==
  ASSUME IInv, NEW t \in Turns, Summarise(t)
  PROVE  IInv'
<1> USE DEF IInv
<1> DEFINE M == MessagesOf(turn[t].session)
           r == [turn[t] EXCEPT !.at = "summarised", !.before = M, !.context = Summarised(M)]
<1>1. /\ turn[t].at = "arrived" /\ clock' = clock /\ clock \in Nat /\ sess' = sess
      /\ msgs' = msgs /\ queries' = queries /\ recall' = recall /\ usage' = usage
      /\ turn' = [turn EXCEPT ![t] = r]
      /\ turn[t] \in TurnRecord
  BY DEF Summarise, TypeInv
<1>2. /\ M \in SUBSET Message
      /\ Summarised(M) \in SUBSET Message /\ IsFiniteSet(Summarised(M))
  BY <1>1, MessageSets DEF TurnRecord
<1> HIDE DEF M
<1>3. /\ r \in TurnRecord /\ IsFiniteSet(r.context)
      /\ r.at = "summarised" /\ r.heard = turn[t].heard /\ r.began = turn[t].began
      /\ r.session = turn[t].session /\ r.kind = turn[t].kind
      /\ r.active = turn[t].active /\ r.cut = turn[t].cut
  BY <1>1, <1>2 DEF TurnRecord, Stages
<1> HIDE DEF r
<1>4. TypeInv' /\ turn'[t] = r /\ \A u \in Turns \ {t} : turn'[u] = turn[u]
  BY <1>1, <1>3, TurnSet DEF TypeInv
<1>5. Apart(t)
  BY <1>1, <1>4 DEF Apart
<1>6. SeatInv(t)' /\ StageInv(t)'
  BY <1>1, <1>3, <1>4 DEF SeatInv, TurnInv, StageInv
<1>7. MessageInv(t)'
  BY <1>1, <1>4 DEF TurnInv, MessageInv
<1>8. KeptInv(t)' /\ RecallInv(t)' /\ CountInv(t)'
  BY <1>1, <1>3, <1>4 DEF TurnInv, StageInv, KeptInv, RecallInv, CountInv
<1>9. QED BY <1>4, <1>5, <1>6, <1>7, <1>8, OneTurn DEF TurnInv

\* A question is stored under the time its request began, before any reply of it.
LEMMA StoreQuestionKeepsIInv ==
  ASSUME IInv, NEW t \in Turns, StoreQuestion(t)
  PROVE  IInv'
<1> USE DEF IInv
<1> DEFINE s == turn[t].session
<1>1. /\ turn[t].at = "summarised" /\ clock \in Nat /\ turn[t] \in TurnRecord
      /\ queries' = queries /\ recall' = recall /\ usage' = usage
      /\ s \in Sessions /\ sess[s].state # "none"
      /\ IsFiniteSet(turn[t].context)
  BY DEF StoreQuestion, TypeInv, SeatInv
<1>2. \A m \in msgs : m.turn # t
  BY <1>1 DEF TurnInv, MessageInv
<1>3. CASE sess[s].state = "deleted"
  <2> DEFINE r == Ended(t, "error")
  <2>1. turn' = [turn EXCEPT ![t] = r] /\ sess' = sess /\ msgs' = msgs /\ clock' = clock
    BY <1>3 DEF StoreQuestion
  <2>2. /\ r \in TurnRecord /\ IsFiniteSet(r.context)
        /\ r.at = "done" /\ r.heard = "error" /\ r.began = 0 /\ r.session = s
        /\ r.kind = turn[t].kind /\ r.active = turn[t].active /\ r.cut = turn[t].cut
    BY EndFacts DEF Heard
  <2> HIDE DEF r
  <2>3. TypeInv' /\ turn'[t] = r /\ \A u \in Turns \ {t} : turn'[u] = turn[u]
    BY <1>1, <2>1, <2>2, TurnSet DEF TypeInv
  <2>4. Apart(t)
    BY <1>1, <2>1, <2>3 DEF Apart
  <2>5. ~SessionOpen(t)'
    BY <1>3, <2>1, <2>2, <2>3 DEF SessionOpen, Open
  <2>6. SeatInv(t)' /\ StageInv(t)'
    BY <1>1, <1>3, <2>1, <2>2, <2>3 DEF SeatInv, TurnInv, StageInv
  <2>7. MessageInv(t)'
    BY <1>2, <2>1 DEF MessageInv
  <2>8. KeptInv(t)' /\ RecallInv(t)' /\ CountInv(t)'
    BY <1>1, <2>2, <2>3, <2>5 DEF TurnInv, KeptInv, RecallInv, CountInv
  <2>9. QED BY <2>3, <2>4, <2>6, <2>7, <2>8, OneTurn DEF TurnInv
<1>4. CASE sess[s].state # "deleted"
  <2> DEFINE question == [turn |-> t, role |-> "user", at |-> turn[t].began]
             long == turn[t].context # {}
             missing == Cardinality(MessagesOf(s) \ (turn[t].context \cup Newest(MessagesOf(s), KeepRecent)))
             late == Cardinality(MessagesOf(s) \ turn[t].before)
             r == [turn[t] EXCEPT !.at = "streaming", !.began = clock + 1, !.before = {},
                     !.context = {}, !.long = long, !.missing = missing, !.late = late]
             through == IF turn[t].context = {} THEN sess[s].through
                        ELSE Cardinality(turn[t].context)
  <2>1. /\ msgs' = msgs \cup {question} /\ clock' = clock + 1
        /\ turn' = [turn EXCEPT ![t] = r]
        /\ sess' = [sess EXCEPT ![s] = [sess[s] EXCEPT !.state = "open", !.through = through]]
    BY <1>1, <1>4 DEF StoreQuestion, TypeInv, SessionRecord
  <2>2. missing \in Nat /\ late \in Nat /\ through \in Nat
    <3>1. IsFiniteSet(MessagesOf(s))
      BY <1>1, MessageSets
    <3>2. IsFiniteSet(MessagesOf(s) \ (turn[t].context \cup Newest(MessagesOf(s), KeepRecent)))
      BY <3>1, FS_Subset, Zenon
    <3>3. IsFiniteSet(MessagesOf(s) \ turn[t].before)
      BY <3>1, FS_Subset, Zenon
    <3>4. sess[s].through \in Nat
      BY <1>1 DEF TypeInv, SessionRecord
    <3>5. QED BY <1>1, <3>2, <3>3, <3>4, FS_CardinalityType
  <2> HIDE DEF missing, late, through
  <2>3. /\ r \in TurnRecord /\ r.context = {}
        /\ r.at = "streaming" /\ r.heard = turn[t].heard /\ r.began = clock + 1
        /\ r.session = s /\ r.kind = turn[t].kind
        /\ r.active = turn[t].active /\ r.cut = turn[t].cut
    <3>1. clock + 1 \in Nat /\ long \in BOOLEAN /\ {} \in SUBSET Message
      BY <1>1
    <3> HIDE DEF long
    <3>2. r \in TurnRecord
      BY <1>1, <2>2, <3>1 DEF TurnRecord, Stages
    <3>3. /\ r.at = "streaming" /\ r.heard = turn[t].heard /\ r.began = clock + 1
          /\ r.session = turn[t].session /\ r.kind = turn[t].kind /\ r.context = {}
          /\ r.active = turn[t].active /\ r.cut = turn[t].cut
      BY <1>1, <3>1 DEF TurnRecord
    <3>4. QED BY <3>2, <3>3
  <2> HIDE DEF r
  <2>4. IsFiniteSet(r.context) /\ IsFiniteSet(msgs')
    BY <2>1, <2>3, FS_EmptySet, FS_AddElement DEF TypeInv
  <2>5. /\ sess' \in [Sessions -> SessionRecord]
        /\ \A x \in Sessions : x # s => sess'[x] = sess[x]
        /\ sess'[s].state = "open"
    BY <1>1, <2>1, <2>2 DEF TypeInv, SessionRecord
  <2>6. question \in Message /\ question.at <= clock
    BY <1>1 DEF Message, Roles, TurnRecord, TurnInv, StageInv
  <2>7. TypeInv' /\ turn'[t] = r /\ \A u \in Turns \ {t} : turn'[u] = turn[u]
    <3>1. /\ turn' \in [Turns -> TurnRecord] /\ turn'[t] = r
          /\ \A u \in Turns \ {t} : turn'[u] = turn[u]
          /\ \A u \in Turns : IsFiniteSet(turn'[u].context)
      BY <2>1, <2>3, <2>4, TurnSet
    <3>2. msgs' \in SUBSET Message /\ clock' \in Nat
      BY <1>1, <2>1, <2>6 DEF TypeInv
    <3>3. QED BY <1>1, <2>4, <2>5, <3>1, <3>2 DEF TypeInv
  <2>8. Apart(t)
    <3>1. sess[s].state \in {"new", "open"}
      BY <1>1, <1>4 DEF TypeInv, SessionRecord
    <3>2. QED BY <1>1, <2>1, <2>5, <2>7, <3>1 DEF Apart
  <2>9. SessionOpen(t)'
    BY <1>1, <2>3, <2>5, <2>7 DEF SessionOpen, Open
  <2>10. SeatInv(t)' /\ StageInv(t)'
    BY <1>1, <2>1, <2>3, <2>5, <2>7 DEF SeatInv, TurnInv, StageInv
  <2>11. MessageInv(t)'
    BY <1>1, <1>2, <2>1, <2>3, <2>6, <2>7, <2>9 DEF MessageInv, Message
  <2>12. KeptInv(t)' /\ RecallInv(t)' /\ CountInv(t)'
    BY <1>1, <2>3, <2>7 DEF TurnInv, KeptInv, RecallInv, CountInv
  <2>13. QED BY <2>7, <2>8, <2>10, <2>11, <2>12, OneTurn DEF TurnInv
<1>5. QED BY <1>3, <1>4

\* A reply is stored under a time after its question's.
LEMMA ReplyFacts ==
  ASSUME IInv, NEW t \in Turns, SessionOpen(t), SessionOpen(t)',
         turn[t].at \in {"streaming", "answered", "failed"},
         turn'[t].at \in {"stored", "closing", "done"},
         NEW role \in {"answer", "fallback"}, NEW at \in Nat,
         turn[t].began = 0 \/ turn[t].began = at \/ clock < at,
         turn[t].began = 0 => clock < at,
         at <= clock', clock <= clock', clock' \in Nat,
         msgs' = msgs \cup {[turn |-> t, role |-> role, at |-> at]}
  PROVE  /\ msgs' \in SUBSET Message /\ IsFiniteSet(msgs')
         /\ MessageInv(t)'
         /\ HasReply(t)' /\ (role = "answer" => HasAnswer(t)')
         /\ \A m \in Message : m.turn # t => (m \in msgs' <=> m \in msgs)
<1> DEFINE reply == [turn |-> t, role |-> role, at |-> at]
<1>1. /\ reply \in Message /\ reply.turn = t /\ reply.role = role /\ reply.at = at
      /\ reply.role # "user"
      /\ clock \in Nat
  BY DEF Message, Roles, IInv, TypeInv
<1> HIDE DEF reply
<1>2. msgs' = msgs \cup {reply}
  BY DEF reply
<1>3. msgs \in SUBSET Message /\ IsFiniteSet(msgs)
  BY DEF IInv, TypeInv
<1>4. msgs' \in SUBSET Message /\ IsFiniteSet(msgs')
  BY <1>1, <1>2, <1>3, FS_AddElement
<1>5. ASSUME NEW m \in msgs, m.turn = t
      PROVE  m.role = "user" /\ m.at < at /\ m.at <= clock'
  <2>1. /\ m.at \in Nat /\ m.at <= clock /\ m.role = "user"
        /\ turn[t].began = 0 \/ m.at < turn[t].began
    BY <1>3, <1>5 DEF Message, IInv, TurnInv, MessageInv
  <2>2. QED BY <1>1, <2>1
<1>6. MessageInv(t)'
  BY <1>1, <1>2, <1>5 DEF MessageInv
<1>7. HasReply(t)' /\ (role = "answer" => HasAnswer(t)')
  BY <1>1, <1>2 DEF HasReply, HasAnswer
<1>8. QED BY <1>1, <1>2, <1>4, <1>6, <1>7

\* A step of a turn that stores nothing leaves its messages as they are.
LEMMA QuietFacts ==
  ASSUME IInv, NEW t \in Turns, msgs' = msgs, clock' = clock,
         SessionOpen(t)' <=> SessionOpen(t),
         turn[t].at \notin {"none", "arrived", "summarised"},
         turn'[t].at \notin {"none", "arrived", "summarised"},
         turn[t].at \in {"stored", "closing", "done"} =>
           turn'[t].at \in {"stored", "closing", "done"},
         turn'[t].began \in {turn[t].began, 0}
  PROVE  /\ MessageInv(t)'
         /\ HasReply(t)' <=> HasReply(t)
         /\ HasAnswer(t)' <=> HasAnswer(t)
BY DEF IInv, TurnInv, MessageInv, HasReply, HasAnswer

LEMMA SlashKeepsIInv ==
  ASSUME IInv, NEW t \in Turns, Slash(t)
  PROVE  IInv'
<1> USE DEF IInv
<1>1. /\ turn[t].at = "streaming" /\ clock' = clock /\ clock \in Nat /\ sess' = sess
      /\ queries' = queries /\ recall' = recall /\ usage' = usage
      /\ turn[t] \in TurnRecord
  BY DEF Slash, TypeInv
<1>2. turn[t].began <= clock /\ turn[t].began \in Nat /\ turn[t].active = FALSE
      /\ turn[t].kind = "none" /\ turn[t].began # 0
  BY <1>1 DEF TurnInv, StageInv, TurnRecord
<1>3. PICK h \in {"final", "nothing"} :
        /\ turn' = [turn EXCEPT ![t] = Ended(t, h)]
        /\ h = "final" => SessionOpen(t)
             /\ msgs' = msgs \cup {[turn |-> t, role |-> "answer", at |-> turn[t].began]}
        /\ h = "nothing" => ~SessionOpen(t) /\ msgs' = msgs
  BY DEF Slash, SessionOpen
<1> DEFINE r == Ended(t, h)
<1>4. /\ r \in TurnRecord /\ IsFiniteSet(r.context)
      /\ r.at = "done" /\ r.heard = h /\ r.began = 0 /\ r.session = turn[t].session
      /\ r.kind = "none" /\ r.active = FALSE /\ r.cut = turn[t].cut
  BY <1>2, EndFacts DEF Heard
<1> HIDE DEF r
<1>5. /\ turn' \in [Turns -> TurnRecord] /\ turn'[t] = r
      /\ \A u \in Turns \ {t} : turn'[u] = turn[u]
      /\ \A u \in Turns : IsFiniteSet(turn'[u].context)
  BY <1>3, <1>4, TurnSet DEF r
<1>6. SessionOpen(t)' <=> SessionOpen(t)
  BY <1>1, <1>4, <1>5 DEF SessionOpen, Open
<1>7. /\ msgs' \in SUBSET Message /\ IsFiniteSet(msgs') /\ MessageInv(t)'
      /\ \A m \in Message : m.turn # t => (m \in msgs' <=> m \in msgs)
      /\ h = "final" => HasReply(t)'
  <2>1. CASE h = "final"
    BY <1>1, <1>2, <1>3, <1>4, <1>5, <1>6, <2>1, ReplyFacts
  <2>2. CASE h = "nothing"
    BY <1>1, <1>3, <1>4, <1>5, <1>6, <2>2, QuietFacts DEF TypeInv
  <2>3. QED BY <2>1, <2>2
<1>8. TypeInv'
  BY <1>1, <1>5, <1>7 DEF TypeInv
<1>9. Apart(t)
  BY <1>1, <1>5, <1>7 DEF Apart
<1>10. SeatInv(t)' /\ StageInv(t)'
  BY <1>1, <1>4, <1>5 DEF SeatInv, TurnInv, StageInv
<1>11. KeptInv(t)' /\ RecallInv(t)' /\ CountInv(t)'
  BY <1>1, <1>3, <1>4, <1>5, <1>6, <1>7 DEF TurnInv, KeptInv, RecallInv, CountInv
<1>12. QED BY <1>7, <1>8, <1>9, <1>10, <1>11, OneTurn DEF TurnInv

LEMMA ScopeFailsKeepsIInv ==
  ASSUME IInv, NEW t \in Turns, ScopeFails(t)
  PROVE  IInv'
<1> USE DEF IInv
<1> DEFINE r == [turn[t] EXCEPT !.at = "closing", !.began = 0, !.heard = "told"]
<1>1. /\ turn[t].at = "streaming" /\ clock' = clock /\ clock \in Nat /\ sess' = sess
      /\ msgs' = msgs /\ queries' = queries /\ recall' = recall /\ usage' = usage
      /\ turn' = [turn EXCEPT ![t] = r]
  BY DEF ScopeFails, Over, TypeInv, TurnRecord
<1>2. /\ r \in TurnRecord /\ IsFiniteSet(r.context)
      /\ r.at = "closing" /\ r.heard = "told" /\ r.began = 0
      /\ r.session = turn[t].session /\ r.kind = turn[t].kind
      /\ r.active = turn[t].active /\ r.cut = turn[t].cut
  BY OverFacts DEF Heard
<1> HIDE DEF r
<1>3. TypeInv' /\ turn'[t] = r /\ \A u \in Turns \ {t} : turn'[u] = turn[u]
  BY <1>1, <1>2, TurnSet DEF TypeInv
<1>4. SessionOpen(t)' <=> SessionOpen(t)
  BY <1>1, <1>2, <1>3 DEF SessionOpen, Open
<1>5. Apart(t)
  BY <1>1, <1>3 DEF Apart
<1>6. SeatInv(t)' /\ StageInv(t)'
  BY <1>1, <1>2, <1>3 DEF SeatInv, TurnInv, StageInv
<1>7. MessageInv(t)'
  BY <1>1, <1>2, <1>3, <1>4, QuietFacts
<1>8. KeptInv(t)' /\ RecallInv(t)' /\ CountInv(t)'
  BY <1>1, <1>2, <1>3 DEF TurnInv, StageInv, KeptInv, RecallInv, CountInv
<1>9. QED BY <1>3, <1>5, <1>6, <1>7, <1>8, OneTurn DEF TurnInv

LEMMA RecallKeepsIInv ==
  ASSUME IInv, NEW t \in Turns, Recall(t)
  PROVE  IInv'
<1> USE DEF IInv
<1>1. PICK began \in {turn[t].began, 0} :
        turn' = [turn EXCEPT ![t].at = "recalled", ![t].began = began]
  BY DEF Recall
<1> DEFINE r == [turn[t] EXCEPT !.at = "recalled", !.began = began]
<1>2. /\ turn[t].at = "streaming" /\ clock' = clock /\ clock \in Nat /\ sess' = sess
      /\ msgs' = msgs /\ queries' = queries /\ recall' = recall /\ usage' = usage
      /\ turn[t] \in TurnRecord /\ IsFiniteSet(turn[t].context)
      /\ turn[t].began \in Nat
  BY DEF Recall, TypeInv, TurnRecord
<1>3. turn' = [turn EXCEPT ![t] = r]
  BY <1>1, <1>2 DEF TypeInv, TurnRecord
<1>4. /\ r \in TurnRecord /\ IsFiniteSet(r.context)
      /\ r.at = "recalled" /\ r.heard = turn[t].heard /\ r.began = began
      /\ r.session = turn[t].session /\ r.kind = turn[t].kind
      /\ r.active = turn[t].active /\ r.cut = turn[t].cut
  <2>1. began \in Nat
    BY <1>2
  <2>2. r \in TurnRecord
    BY <1>2, <2>1 DEF TurnRecord, Stages
  <2>3. /\ r.at = "recalled" /\ r.heard = turn[t].heard /\ r.began = began
        /\ r.session = turn[t].session /\ r.kind = turn[t].kind
        /\ r.active = turn[t].active /\ r.cut = turn[t].cut
        /\ r.context = turn[t].context
    BY <1>2 DEF TurnRecord
  <2>4. QED BY <1>2, <2>2, <2>3
<1> HIDE DEF r
<1>5. TypeInv' /\ turn'[t] = r /\ \A u \in Turns \ {t} : turn'[u] = turn[u]
  BY <1>2, <1>3, <1>4, TurnSet DEF TypeInv
<1>6. SessionOpen(t)' <=> SessionOpen(t)
  BY <1>2, <1>4, <1>5 DEF SessionOpen, Open
<1>7. Apart(t)
  BY <1>2, <1>5 DEF Apart
<1>8. SeatInv(t)' /\ StageInv(t)'
  BY <1>2, <1>4, <1>5 DEF SeatInv, TurnInv, StageInv
<1>9. MessageInv(t)'
  BY <1>2, <1>4, <1>5, <1>6, QuietFacts
<1>10. KeptInv(t)' /\ RecallInv(t)' /\ CountInv(t)'
  BY <1>2, <1>4, <1>5 DEF TurnInv, StageInv, KeptInv, RecallInv, CountInv
<1>11. QED BY <1>5, <1>7, <1>8, <1>9, <1>10, OneTurn DEF TurnInv

\* The graph decides the kind of a turn, or that it has none.
LEMMA GraphKeepsIInv ==
  ASSUME IInv, NEW t \in Turns, GraphAnswers(t) \/ GraphRaises(t)
  PROVE  IInv'
<1> USE DEF IInv
<1>1. /\ turn[t].at = "recalled" /\ clock' = clock /\ clock \in Nat /\ sess' = sess
      /\ msgs' = msgs /\ queries' = queries /\ recall' = recall /\ usage' = usage
      /\ turn[t] \in TurnRecord /\ IsFiniteSet(turn[t].context)
      /\ turn[t].kind = "none"
  BY DEF GraphAnswers, GraphRaises, TypeInv, TurnInv, StageInv
<1>2. PICK stage \in {"answered", "failed"}, kind \in Kinds, active \in BOOLEAN :
        /\ turn' = [turn EXCEPT ![t] = [@ EXCEPT !.at = stage, !.kind = kind, !.active = active]]
        /\ stage = "answered" => kind # "none"
        /\ stage = "failed" => kind = "none"
  <2>1. CASE GraphAnswers(t)
    <3>1. PICK kind \in {"query", "text", "chitchat"} :
            turn' = [turn EXCEPT ![t].at = "answered", ![t].kind = kind, ![t].active = TRUE]
      BY <2>1 DEF GraphAnswers
    <3>2. turn' = [turn EXCEPT ![t] = [@ EXCEPT !.at = "answered", !.kind = kind, !.active = TRUE]]
      BY <1>1, <3>1 DEF TypeInv, TurnRecord
    <3>3. QED BY <3>2 DEF Kinds
  <2>2. CASE GraphRaises(t)
    <3>1. PICK active \in BOOLEAN :
            turn' = [turn EXCEPT ![t].at = "failed", ![t].active = active]
      BY <2>2 DEF GraphRaises
    <3>2. turn' = [turn EXCEPT ![t] = [@ EXCEPT !.at = "failed", !.kind = "none", !.active = active]]
      BY <1>1, <3>1 DEF TypeInv, TurnRecord
    <3>3. QED BY <3>2 DEF Kinds
  <2>3. QED BY <2>1, <2>2
<1> DEFINE r == [turn[t] EXCEPT !.at = stage, !.kind = kind, !.active = active]
<1>3. /\ r \in TurnRecord /\ IsFiniteSet(r.context)
      /\ r.at = stage /\ r.heard = turn[t].heard /\ r.began = turn[t].began
      /\ r.session = turn[t].session /\ r.kind = kind
      /\ r.active = active /\ r.cut = turn[t].cut
  BY <1>1 DEF TurnRecord, Stages
<1> HIDE DEF r
<1>4. TypeInv' /\ turn'[t] = r /\ \A u \in Turns \ {t} : turn'[u] = turn[u]
  BY <1>1, <1>2, <1>3, TurnSet DEF TypeInv, r
<1>5. SessionOpen(t)' <=> SessionOpen(t)
  BY <1>1, <1>3, <1>4 DEF SessionOpen, Open
<1>6. Apart(t)
  BY <1>1, <1>4 DEF Apart
<1>7. SeatInv(t)' /\ StageInv(t)'
  BY <1>1, <1>2, <1>3, <1>4 DEF SeatInv, TurnInv, StageInv
<1>8. MessageInv(t)'
  BY <1>1, <1>3, <1>4, <1>5, QuietFacts
<1>9. KeptInv(t)' /\ RecallInv(t)' /\ CountInv(t)'
  BY <1>1, <1>3, <1>4 DEF TurnInv, StageInv, KeptInv, RecallInv, CountInv
<1>10. QED BY <1>4, <1>6, <1>7, <1>8, <1>9, OneTurn DEF TurnInv

LEMMA FallbackKeepsIInv ==
  ASSUME IInv, NEW t \in Turns, Fallback(t)
  PROVE  IInv'
<1> USE DEF IInv
<1>1. /\ turn[t].at = "failed" /\ clock \in Nat /\ sess' = sess
      /\ queries' = queries /\ recall' = recall /\ usage' = usage
      /\ turn[t] \in TurnRecord /\ turn[t].kind = "none"
      /\ turn[t].began \in Nat /\ turn[t].began <= clock
  BY DEF Fallback, TypeInv, TurnInv, StageInv, TurnRecord
<1>2. PICK h \in {"final", "error"} :
        /\ turn' = [turn EXCEPT ![t] = [@ EXCEPT !.at = "closing", !.began = 0, !.heard = h]]
        /\ h = "final" => /\ SessionOpen(t) /\ clock' = clock + 1
                          /\ msgs' = msgs \cup {[turn |-> t, role |-> "fallback", at |-> clock + 1]}
        /\ h = "error" => ~SessionOpen(t) /\ msgs' = msgs /\ clock' = clock
  BY <1>1 DEF Fallback, SessionOpen, Over, TypeInv, TurnRecord
<1> DEFINE r == [turn[t] EXCEPT !.at = "closing", !.began = 0, !.heard = h]
<1>3. /\ r \in TurnRecord /\ IsFiniteSet(r.context)
      /\ r.at = "closing" /\ r.heard = h /\ r.began = 0
      /\ r.session = turn[t].session /\ r.kind = "none"
      /\ r.active = turn[t].active /\ r.cut = turn[t].cut
  <2>1. h \in Heard
    BY DEF Heard
  <2>2. QED BY <1>1, <2>1, OverFacts, ZenonT(30)
<1> HIDE DEF r
<1>4. /\ turn' \in [Turns -> TurnRecord] /\ turn'[t] = r
      /\ \A u \in Turns \ {t} : turn'[u] = turn[u]
      /\ \A u \in Turns : IsFiniteSet(turn'[u].context)
  BY <1>2, <1>3, TurnSet DEF r
<1>5. SessionOpen(t)' <=> SessionOpen(t)
  BY <1>1, <1>3, <1>4 DEF SessionOpen, Open
<1>6. /\ msgs' \in SUBSET Message /\ IsFiniteSet(msgs') /\ MessageInv(t)'
      /\ \A m \in Message : m.turn # t => (m \in msgs' <=> m \in msgs)
      /\ h = "final" => HasReply(t)'
      /\ clock' \in Nat /\ clock <= clock'
  <2>1. CASE h = "final"
    <3> DEFINE at == clock + 1
    <3>1. /\ at \in Nat /\ clock < at /\ clock' = at /\ clock <= clock'
          /\ msgs' = msgs \cup {[turn |-> t, role |-> "fallback", at |-> at]}
      BY <1>1, <1>2, <2>1
    <3>2. /\ turn[t].at \in {"streaming", "answered", "failed"}
          /\ turn'[t].at \in {"stored", "closing", "done"}
          /\ SessionOpen(t) /\ SessionOpen(t)'
      BY <1>1, <1>2, <1>3, <1>4, <1>5, <2>1
    <3> HIDE DEF IInv, at
    <3>3. at <= clock' /\ clock' \in Nat
      BY <3>1
    <3>4. /\ msgs' \in SUBSET Message /\ IsFiniteSet(msgs') /\ MessageInv(t)'
          /\ HasReply(t)'
          /\ \A m \in Message : m.turn # t => (m \in msgs' <=> m \in msgs)
      BY <3>1, <3>2, <3>3, ReplyFacts
    <3>5. QED BY <3>1, <3>3, <3>4
  <2>2. CASE h = "error"
    BY <1>1, <1>2, <1>3, <1>4, <1>5, <2>2, QuietFacts DEF TypeInv
  <2>3. QED BY <2>1, <2>2
<1>7. TypeInv'
  BY <1>1, <1>4, <1>6 DEF TypeInv
<1>8. Apart(t)
  BY <1>1, <1>4, <1>6 DEF Apart
<1>9. SeatInv(t)' /\ StageInv(t)'
  BY <1>1, <1>3, <1>4, <1>6 DEF SeatInv, TurnInv, StageInv
<1>10. KeptInv(t)' /\ RecallInv(t)' /\ CountInv(t)'
  BY <1>1, <1>2, <1>3, <1>4, <1>5, <1>6 DEF TurnInv, KeptInv, RecallInv, CountInv
<1>11. QED BY <1>6, <1>7, <1>8, <1>9, <1>10, OneTurn DEF TurnInv

\* The answer and its row are stored together, or the session is gone.
LEMMA PersistKeepsIInv ==
  ASSUME IInv, NEW t \in Turns, Persist(t)
  PROVE  IInv'
<1> USE DEF IInv
<1>1. /\ turn[t].at = "answered" /\ clock \in Nat /\ sess' = sess
      /\ recall' = recall /\ usage' = usage
      /\ turn[t] \in TurnRecord /\ IsFiniteSet(turn[t].context)
      /\ turn[t].began \in Nat /\ turn[t].began <= clock
      /\ turn[t].heard = "nothing"
  BY DEF Persist, TypeInv, TurnInv, StageInv, TurnRecord
<1>2. CASE SessionOpen(t)
  <2> DEFINE r == [turn[t] EXCEPT !.at = "stored"]
             at == Created(t)
  <2>1. /\ msgs' = msgs \cup {[turn |-> t, role |-> "answer", at |-> at]}
        /\ clock' = IF turn[t].began = 0 THEN clock + 1 ELSE clock
        /\ at = IF turn[t].began = 0 THEN clock + 1 ELSE turn[t].began
        /\ turn' = [turn EXCEPT ![t] = r]
    BY <1>1, <1>2 DEF Persist, SessionOpen, Tick, Created, Step, TypeInv, TurnRecord
  <2>2. /\ queries' \in SUBSET QueryRow
        /\ turn[t].kind = "query" => \E q \in queries' : q.turn = t
        /\ \A q \in QueryRow : q.turn # t => (q \in queries' <=> q \in queries)
    <3>1. CASE turn[t].kind = "query"
      <4>1. PICK rows \in BOOLEAN : queries' = queries \cup {[turn |-> t, rows |-> rows]}
        BY <1>2, <3>1 DEF Persist, SessionOpen
      <4>2. [turn |-> t, rows |-> rows] \in QueryRow /\ [turn |-> t, rows |-> rows].turn = t
        BY DEF QueryRow
      <4>3. QED BY <4>1, <4>2 DEF TypeInv
    <3>2. CASE turn[t].kind # "query"
      BY <1>2, <3>2 DEF Persist, SessionOpen, TypeInv
    <3>3. QED BY <3>1, <3>2
  <2> HIDE DEF at
  <2>3. /\ r \in TurnRecord /\ IsFiniteSet(r.context)
        /\ r.at = "stored" /\ r.heard = "nothing" /\ r.began = turn[t].began
        /\ r.session = turn[t].session /\ r.kind = turn[t].kind
        /\ r.active = turn[t].active /\ r.cut = turn[t].cut
    BY <1>1 DEF TurnRecord, Stages
  <2> HIDE DEF r
  <2>4. /\ turn' \in [Turns -> TurnRecord] /\ turn'[t] = r
        /\ \A u \in Turns \ {t} : turn'[u] = turn[u]
        /\ \A u \in Turns : IsFiniteSet(turn'[u].context)
    BY <2>1, <2>3, TurnSet
  <2>5. SessionOpen(t)'
    BY <1>1, <1>2, <2>3, <2>4 DEF SessionOpen, Open
  <2>6. clock' \in Nat /\ clock <= clock' /\ at \in Nat /\ at <= clock'
    BY <1>1, <2>1
  <2>7. /\ msgs' \in SUBSET Message /\ IsFiniteSet(msgs') /\ MessageInv(t)'
        /\ \A m \in Message : m.turn # t => (m \in msgs' <=> m \in msgs)
        /\ HasAnswer(t)'
    <3>1. /\ turn[t].at = "answered" /\ turn'[t].at = "stored"
          /\ turn[t].began = 0 \/ turn[t].began = at \/ clock < at
          /\ turn[t].began = 0 => clock < at
      BY <1>1, <2>1, <2>3, <2>4
    <3>2. msgs' = msgs \cup {[turn |-> t, role |-> "answer", at |-> at]} /\ clock' \in Nat
      BY <2>1, <2>6
    <3> HIDE DEF IInv
    <3>3. QED BY <1>2, <2>5, <2>6, <3>1, <3>2, ReplyFacts
  <2>8. TypeInv'
    BY <1>1, <2>2, <2>4, <2>6, <2>7 DEF TypeInv
  <2>9. Apart(t)
    BY <1>1, <2>2, <2>4, <2>6, <2>7 DEF Apart
  <2>10. SeatInv(t)' /\ StageInv(t)'
    <3>1. turn[t].kind # "none" /\ ~turn[t].cut
      BY <1>1 DEF TurnInv, StageInv
    <3>2. QED BY <1>1, <2>3, <2>4, <2>6, <3>1 DEF SeatInv, StageInv
  <2>11. KeptInv(t)' /\ RecallInv(t)' /\ CountInv(t)'
    BY <1>1, <2>2, <2>3, <2>4, <2>7 DEF TurnInv, KeptInv, RecallInv, CountInv, HasRow
  <2>12. QED BY <2>7, <2>8, <2>9, <2>10, <2>11, OneTurn DEF TurnInv
<1>3. CASE ~SessionOpen(t)
  <2> DEFINE r == [turn[t] EXCEPT !.at = "closing", !.began = 0, !.heard = "nothing"]
  <2>1. /\ msgs' = msgs /\ queries' = queries /\ clock' = clock
        /\ turn' = [turn EXCEPT ![t] = r]
    BY <1>1, <1>3 DEF Persist, SessionOpen, Over, TypeInv, TurnRecord
  <2>2. /\ r \in TurnRecord /\ IsFiniteSet(r.context)
        /\ r.at = "closing" /\ r.heard = "nothing" /\ r.began = 0
        /\ r.session = turn[t].session /\ r.kind = turn[t].kind
        /\ r.active = turn[t].active /\ r.cut = turn[t].cut
    BY OverFacts DEF Heard
  <2> HIDE DEF r
  <2>3. TypeInv' /\ turn'[t] = r /\ \A u \in Turns \ {t} : turn'[u] = turn[u]
    BY <1>1, <2>1, <2>2, TurnSet DEF TypeInv
  <2>4. ~SessionOpen(t)'
    BY <1>1, <1>3, <2>2, <2>3 DEF SessionOpen, Open
  <2>5. Apart(t)
    BY <1>1, <2>1, <2>3 DEF Apart
  <2>6. SeatInv(t)' /\ StageInv(t)'
    BY <1>1, <2>1, <2>2, <2>3 DEF SeatInv, TurnInv, StageInv
  <2>7. MessageInv(t)'
    BY <1>1, <1>3, <2>1, <2>2, <2>3, <2>4, QuietFacts
  <2>8. KeptInv(t)' /\ RecallInv(t)' /\ CountInv(t)'
    BY <1>1, <2>2, <2>3, <2>4 DEF TurnInv, KeptInv, RecallInv, CountInv
  <2>9. QED BY <2>3, <2>5, <2>6, <2>7, <2>8, OneTurn DEF TurnInv
<1>4. QED BY <1>2, <1>3

LEMMA IndexKeepsIInv ==
  ASSUME IInv, NEW t \in Turns, Index(t)
  PROVE  IInv'
<1> USE DEF IInv
<1>1. /\ turn[t].at = "stored" /\ clock' = clock /\ clock \in Nat /\ sess' = sess
      /\ msgs' = msgs /\ queries' = queries /\ usage' = usage
      /\ turn[t] \in TurnRecord
  BY DEF Index, TypeInv
<1>2. PICK h \in {"final", "nothing"} :
        /\ turn' = [turn EXCEPT ![t] = [@ EXCEPT !.at = "closing", !.began = 0, !.heard = h]]
        /\ recall' \in {recall, recall \cup {t}}
        /\ recall' # recall => turn[t].kind \in {"query", "text"}
        /\ h = "nothing" => turn[t].kind \in {"query", "text"}
  BY <1>1 DEF Index, Over, Indexed, TypeInv, TurnRecord
<1> DEFINE r == [turn[t] EXCEPT !.at = "closing", !.began = 0, !.heard = h]
<1>3. /\ r \in TurnRecord /\ IsFiniteSet(r.context)
      /\ r.at = "closing" /\ r.heard = h /\ r.began = 0
      /\ r.session = turn[t].session /\ r.kind = turn[t].kind
      /\ r.active = turn[t].active /\ r.cut = turn[t].cut
  <2>1. h \in Heard
    BY DEF Heard
  <2>2. QED BY <2>1, OverFacts
<1> HIDE DEF r
<1>4. TypeInv' /\ turn'[t] = r /\ \A u \in Turns \ {t} : turn'[u] = turn[u]
  BY <1>1, <1>2, <1>3, TurnSet DEF TypeInv, r
<1>5. SessionOpen(t)' <=> SessionOpen(t)
  BY <1>1, <1>3, <1>4 DEF SessionOpen, Open
<1>6. Apart(t)
  BY <1>1, <1>2, <1>4 DEF Apart
<1>7. SeatInv(t)' /\ StageInv(t)'
  BY <1>1, <1>3, <1>4 DEF SeatInv, TurnInv, StageInv
<1>8. /\ MessageInv(t)'
      /\ HasReply(t)' <=> HasReply(t)
      /\ HasAnswer(t)' <=> HasAnswer(t)
      /\ HasRow(t)' <=> HasRow(t)
  <2>1. HasRow(t)' <=> HasRow(t)
    BY <1>1 DEF HasRow
  <2>2. QED BY <1>1, <1>3, <1>4, <1>5, <2>1, QuietFacts
<1>9. HasAnswer(t) => HasReply(t)
  BY DEF HasAnswer, HasReply
<1>10. KeptInv(t)'
  BY <1>1, <1>2, <1>3, <1>4, <1>5, <1>8, <1>9 DEF TurnInv, KeptInv
<1>11. RecallInv(t)' /\ CountInv(t)'
  BY <1>1, <1>2, <1>3, <1>4, <1>5, <1>8 DEF TurnInv, KeptInv, RecallInv, CountInv
<1>12. QED BY <1>4, <1>6, <1>7, <1>8, <1>10, <1>11, OneTurn DEF TurnInv

\* The counters of a turn are added when it closes, and then it is over.
LEMMA FlushKeepsIInv ==
  ASSUME IInv, NEW t \in Turns, Flush(t)
  PROVE  IInv'
<1> USE DEF IInv
<1> DEFINE r == [turn[t] EXCEPT !.at = "done"]
<1>1. /\ turn[t].at = "closing" /\ clock' = clock /\ clock \in Nat /\ sess' = sess
      /\ msgs' = msgs /\ queries' = queries /\ recall' = recall
      /\ turn' = [turn EXCEPT ![t] = r]
      /\ turn[t] \in TurnRecord /\ IsFiniteSet(turn[t].context)
      /\ usage[t] = 0
  BY DEF Flush, Step, TypeInv, TurnInv, CountInv
<1>2. /\ usage' \in [Turns -> Nat] /\ \A u \in Turns \ {t} : usage'[u] = usage[u]
      /\ usage'[t] = IF Counts(t) THEN 1 ELSE 0
  BY <1>1 DEF Flush, TypeInv
<1>3. /\ r \in TurnRecord /\ IsFiniteSet(r.context)
      /\ r.at = "done" /\ r.heard = turn[t].heard /\ r.began = turn[t].began
      /\ r.session = turn[t].session /\ r.kind = turn[t].kind
      /\ r.active = turn[t].active /\ r.cut = turn[t].cut
  BY <1>1 DEF TurnRecord, Stages
<1> HIDE DEF r
<1>4. TypeInv' /\ turn'[t] = r /\ \A u \in Turns \ {t} : turn'[u] = turn[u]
  BY <1>1, <1>2, <1>3, TurnSet DEF TypeInv
<1>5. SessionOpen(t)' <=> SessionOpen(t)
  BY <1>1, <1>3, <1>4 DEF SessionOpen, Open
<1>6. Apart(t)
  BY <1>1, <1>2, <1>4 DEF Apart
<1>7. SeatInv(t)' /\ StageInv(t)'
  BY <1>1, <1>3, <1>4 DEF SeatInv, TurnInv, StageInv
<1>8. /\ MessageInv(t)'
      /\ HasReply(t)' <=> HasReply(t)
      /\ HasAnswer(t)' <=> HasAnswer(t)
      /\ HasRow(t)' <=> HasRow(t)
  <2>1. HasRow(t)' <=> HasRow(t)
    BY <1>1 DEF HasRow
  <2>2. QED BY <1>1, <1>3, <1>4, <1>5, <2>1, QuietFacts
<1>9. KeptInv(t)' /\ RecallInv(t)'
  BY <1>1, <1>3, <1>4, <1>5, <1>8 DEF TurnInv, KeptInv, RecallInv
<1>10. CountInv(t)'
  <2>1. SessionOpen(t) /\ turn[t].active => Counts(t)
    BY <1>1 DEF Counts, HasAnswer, TurnInv, KeptInv
  <2>2. QED BY <1>1, <1>2, <1>3, <1>4, <1>5, <2>1 DEF CountInv
<1>11. QED BY <1>4, <1>6, <1>7, <1>8, <1>9, <1>10, OneTurn DEF TurnInv

\* A turn that is cut off keeps what it stored, and counts at most once.
LEMMA CutKeepsIInv ==
  ASSUME IInv, NEW t \in Turns, Cut(t)
  PROVE  IInv'
<1> USE DEF IInv
<1> DEFINE e == Ended(t, turn[t].heard)
           r == [e EXCEPT !.cut = TRUE]
<1>1. /\ turn[t].at \notin {"none", "done"} /\ clock' = clock /\ clock \in Nat
      /\ msgs' = msgs /\ queries' = queries /\ recall' = recall
      /\ turn' = [turn EXCEPT ![t] = r]
      /\ turn[t] \in TurnRecord /\ turn[t].heard \in Heard
      /\ turn[t].session \in Sessions
      /\ usage[t] = 0
  BY DEF Cut, TypeInv, TurnInv, CountInv, SeatInv, TurnRecord
<1>2. /\ usage' \in [Turns -> Nat] /\ \A u \in Turns \ {t} : usage'[u] = usage[u]
      /\ usage'[t] \in {0, 1}
  <2>1. PICK n \in {0, 1} : usage' = [usage EXCEPT ![t] = @ + n]
    BY DEF Cut
  <2>2. QED BY <1>1, <2>1 DEF TypeInv
<1>3. /\ e \in TurnRecord /\ IsFiniteSet(e.context)
      /\ e.at = "done" /\ e.heard = turn[t].heard /\ e.began = 0
      /\ e.session = turn[t].session /\ e.kind = turn[t].kind
      /\ e.active = turn[t].active
  BY <1>1, EndFacts
<1> HIDE DEF e
<1>4. /\ r \in TurnRecord /\ IsFiniteSet(r.context)
      /\ r.at = "done" /\ r.heard = turn[t].heard /\ r.began = 0
      /\ r.session = turn[t].session /\ r.kind = turn[t].kind
      /\ r.active = turn[t].active /\ r.cut = TRUE
  BY <1>3 DEF TurnRecord
<1> HIDE DEF r
<1>5. /\ sess' \in [Sessions -> SessionRecord]
      /\ \A s \in Sessions : s # turn[t].session => sess'[s] = sess[s]
      /\ \/ sess'[turn[t].session] = sess[turn[t].session]
            /\ ~(turn[t].at \in {"arrived", "summarised"} /\ sess[turn[t].session].state = "new")
         \/ sess[turn[t].session].state = "new" /\ sess'[turn[t].session].state = "deleted"
  BY <1>1 DEF Cut, TypeInv, SessionRecord
<1>6. TypeInv' /\ turn'[t] = r /\ \A u \in Turns \ {t} : turn'[u] = turn[u]
  BY <1>1, <1>2, <1>4, <1>5, TurnSet DEF TypeInv
<1>7. SessionOpen(t)' <=> SessionOpen(t)
  BY <1>1, <1>4, <1>5, <1>6 DEF SessionOpen, Open
<1>8. Apart(t)
  BY <1>1, <1>2, <1>5, <1>6 DEF Apart
<1>9. SeatInv(t)' /\ StageInv(t)'
  <2>1. SeatInv(t)'
    BY <1>1, <1>4, <1>5, <1>6 DEF SeatInv
  <2>2. StageInv(t)'
    BY <1>1, <1>4, <1>6 DEF StageInv
  <2>3. QED BY <2>1, <2>2
<1>10. MessageInv(t)'
  <2>1. CASE turn[t].at \in {"arrived", "summarised"}
    BY <1>1, <2>1 DEF MessageInv, TurnInv
  <2>2. CASE turn[t].at \notin {"arrived", "summarised"}
    BY <1>1, <1>4, <1>6, <1>7, <2>2, QuietFacts
  <2>3. QED BY <2>1, <2>2
<1>11. /\ HasReply(t)' <=> HasReply(t)
       /\ HasAnswer(t)' <=> HasAnswer(t)
       /\ HasRow(t)' <=> HasRow(t)
  BY <1>1 DEF HasReply, HasAnswer, HasRow
<1>12. KeptInv(t)' /\ RecallInv(t)'
  BY <1>1, <1>4, <1>6, <1>7, <1>11 DEF TurnInv, StageInv, KeptInv, RecallInv
<1>13. CountInv(t)'
  BY <1>2, <1>4, <1>6 DEF CountInv
<1>14. QED BY <1>6, <1>8, <1>9, <1>10, <1>12, <1>13, OneTurn DEF TurnInv

\* With a session go the messages and rows of its turns, and no others.
LEMMA DeleteSessionKeepsIInv ==
  ASSUME IInv, NEW s \in Sessions, DeleteSession(s)
  PROVE  IInv'
<1> USE DEF IInv
<1>1. /\ sess[s].state = "open" /\ clock' = clock /\ clock \in Nat
      /\ sess' = [sess EXCEPT ![s].state = "deleted"]
      /\ msgs' = msgs \ MessagesOf(s)
      /\ queries' = {q \in queries : turn[q.turn].session # s}
      /\ recall' = recall /\ usage' = usage /\ turn' = turn
  BY DEF DeleteSession, Open, TypeInv
<1>2. /\ sess' \in [Sessions -> SessionRecord]
      /\ sess'[s].state = "deleted"
      /\ \A x \in Sessions : x # s => sess'[x] = sess[x]
  BY <1>1 DEF TypeInv, SessionRecord
<1>3. msgs' \in SUBSET Message /\ IsFiniteSet(msgs')
  <2>1. msgs' \subseteq msgs
    BY <1>1
  <2>2. QED BY <2>1, FS_Subset DEF TypeInv
<1>4. TypeInv'
  BY <1>1, <1>2, <1>3 DEF TypeInv
<1>5. ASSUME NEW u \in Turns
      PROVE  SeatInv(u)' /\ TurnInv(u)'
  <2>1. SeatInv(u)'
    BY <1>1, <1>2 DEF SeatInv
  <2>2. CASE turn[u].session = s
    <3>1. ~SessionOpen(u)'
      BY <1>1, <1>2, <2>2 DEF SessionOpen, Open
    <3>2. \A m \in msgs' : m.turn # u
      BY <1>1, <2>2 DEF MessagesOf
    <3>3. StageInv(u)'
      BY <1>1 DEF TurnInv, StageInv
    <3>4. MessageInv(u)'
      BY <3>2 DEF MessageInv
    <3>5. KeptInv(u)' /\ RecallInv(u)' /\ CountInv(u)'
      BY <1>1, <3>1 DEF TurnInv, KeptInv, RecallInv, CountInv
    <3>6. QED BY <2>1, <3>3, <3>4, <3>5 DEF TurnInv
  <2>3. CASE turn[u].session # s
    <3>1. SessionOpen(u)' <=> SessionOpen(u)
      BY <1>1, <1>2, <2>3 DEF SessionOpen, Open
    <3>2. \A m \in Message : m.turn = u => (m \in msgs' <=> m \in msgs)
      BY <1>1, <2>3 DEF MessagesOf
    <3>3. \A q \in QueryRow : q.turn = u => (q \in queries' <=> q \in queries)
      BY <1>1, <2>3
    <3>4. TurnInv(u)'
      BY <1>1, <1>4, <3>1, <3>2, <3>3, UntouchedTurn
    <3>5. QED BY <2>1, <3>4
  <2>4. QED BY <2>2, <2>3
<1>6. QED BY <1>4, <1>5

\* A step that changes nothing keeps it too.
LEMMA StutterKeepsIInv ==
  ASSUME IInv, UNCHANGED vars
  PROVE  IInv'
<1>1. /\ sess' = sess /\ msgs' = msgs /\ queries' = queries /\ recall' = recall
      /\ usage' = usage /\ turn' = turn /\ clock' = clock
  BY DEF vars
<1>2. TypeInv'
  BY <1>1 DEF IInv, TypeInv
<1>3. ASSUME NEW t \in Turns PROVE SeatInv(t)' /\ TurnInv(t)'
  <2>1. SeatInv(t)'
    BY <1>1 DEF IInv, SeatInv
  <2>2. SessionOpen(t)' <=> SessionOpen(t)
    BY <1>1 DEF SessionOpen, Open
  <2>3. clock <= clock'
    BY <1>1 DEF IInv, TypeInv
  <2>4. TurnInv(t)'
    BY <1>1, <1>2, <2>2, <2>3, UntouchedTurn DEF IInv
  <2>5. QED BY <2>1, <2>4
<1>4. QED BY <1>2, <1>3 DEF IInv

-----------------------------------------------------------------------------
(* Theorems *)

\* IInv is an invariant of every run.
THEOREM Invariance == Spec => []IInv
<1>1. Init => IInv
  BY InitIInv
<1>2. IInv /\ [Next]_vars => IInv'
  <2> SUFFICES ASSUME IInv, [Next]_vars PROVE IInv'
    OBVIOUS
  <2>1. ASSUME NEW t \in Turns, NEW s \in Sessions \cup {NoSession},
               NEW explicit \in SUBSET Workspaces, NEW bare \in SUBSET Workspaces,
               NEW dropdown \in Workspaces \cup {NoWorkspace},
               Arrive(t, s, explicit, bare, dropdown)
        PROVE  IInv'
    BY <2>1, ArriveKeepsIInv
  <2>2. ASSUME NEW t \in Turns, TurnStep(t) PROVE IInv'
    <3>1. CASE Summarise(t)
      BY <3>1, SummariseKeepsIInv
    <3>2. CASE StoreQuestion(t)
      BY <3>2, StoreQuestionKeepsIInv
    <3>3. CASE Slash(t)
      BY <3>3, SlashKeepsIInv
    <3>4. CASE ScopeFails(t)
      BY <3>4, ScopeFailsKeepsIInv
    <3>5. CASE Recall(t)
      BY <3>5, RecallKeepsIInv
    <3>6. CASE GraphAnswers(t) \/ GraphRaises(t)
      BY <3>6, GraphKeepsIInv
    <3>7. CASE Fallback(t)
      BY <3>7, FallbackKeepsIInv
    <3>8. CASE Persist(t)
      BY <3>8, PersistKeepsIInv
    <3>9. CASE Index(t)
      BY <3>9, IndexKeepsIInv
    <3>10. CASE Flush(t)
      BY <3>10, FlushKeepsIInv
    <3>11. QED
      BY <2>2, <3>1, <3>2, <3>3, <3>4, <3>5, <3>6, <3>7, <3>8, <3>9, <3>10 DEF TurnStep
  <2>3. ASSUME NEW t \in Turns, Cut(t) PROVE IInv'
    BY <2>3, CutKeepsIInv
  <2>4. ASSUME NEW s \in Sessions, DeleteSession(s) PROVE IInv'
    BY <2>4, DeleteSessionKeepsIInv
  <2>5. CASE UNCHANGED vars
    BY <2>5, StutterKeepsIInv
  <2>6. QED BY <2>1, <2>2, <2>3, <2>4, <2>5 DEF Next
<1>3. QED BY <1>1, <1>2, PTL DEF Spec

\* A final event names a stored message, a question has one answer that comes after
\* it, and recall offers committed answers only: chat.py's stream, for any number of
\* turns, sessions and cuts.
THEOREM AnswersStay == Spec => []AnswersKept
<1>1. IInv => AnswersKept
  <2> SUFFICES ASSUME IInv PROVE AnswersKept
    OBVIOUS
  <2> USE DEF IInv
  <2>1. FinalIsStored
    <3> SUFFICES ASSUME NEW t \in Turns, turn[t].heard = "final", Open(turn[t].session)
                 PROVE  /\ \E m \in SessionPage(turn[t].session) : m.turn = t /\ m.role # "user"
                        /\ turn[t].kind = "query" => Export(t) # 404
      BY DEF FinalIsStored
    <3>1. turn[t].at \in {"closing", "done"}
      BY DEF TurnInv, StageInv
    <3>2. HasReply(t) /\ (turn[t].kind = "query" => HasRow(t))
      BY <3>1 DEF TurnInv, KeptInv, SessionOpen
    <3>3. QED BY <3>2 DEF HasReply, HasRow, SessionPage, MessagesOf, Export
  <2>2. OneAnswer
    <3> SUFFICES ASSUME NEW m \in msgs, NEW n \in msgs, m.turn = n.turn, m.role # "user"
                 PROVE  /\ n.role # "user" => m = n
                        /\ n.role = "user" => n.at < m.at
      BY DEF OneAnswer
    <3>1. m.turn \in Turns
      BY DEF TypeInv, Message
    <3>2. QED BY <3>1 DEF TurnInv, MessageInv
  <2>3. RecallsAnswers
    BY DEF RecallsAnswers, TypeInv, TurnInv, RecallInv, SessionOpen, HasAnswer
  <2>4. QED BY <2>1, <2>2, <2>3 DEF AnswersKept
<1>2. QED BY <1>1, Invariance, PTL

\* flush_bucket adds the counters of a turn that answered once, and of none twice.
THEOREM TurnsCountOnce == Spec => []CountedOnce
<1>1. IInv => CountedOnce
  BY DEF IInv, TurnInv, CountInv, CountedOnce, SessionOpen
<1>2. QED BY <1>1, Invariance, PTL

\* No question is left alone in the history of a session (chat.py:552-561).
THEOREM QuestionsAreAnswered == Spec => []QuestionAnswered
<1>1. IInv => QuestionAnswered
  BY DEF IInv, TurnInv, KeptInv, QuestionAnswered, SessionOpen, HasReply
<1>2. QED BY <1>1, Invariance, PTL

-----------------------------------------------------------------------------
(* The history a turn is given.  Its counts rest on the times of messages:     *)
(* newest means nothing for two messages of the same time.                     *)

\* The transaction in which the next message of a turn will be created.
Pending(t) == turn[t].began # 0 /\ turn[t].at # "stored"

\* No two transactions begin at the same time, and each creates one message.
TimesInv ==
  /\ \A m \in msgs : 1 <= m.at
  /\ \A m, n \in msgs : m.at = n.at => m = n
  /\ \A t \in Turns : Pending(t) => \A m \in msgs : m.at # turn[t].began
  /\ \A t, u \in Turns : turn[t].began = turn[u].began /\ turn[t].began # 0 => t = u
  /\ \A t \in Turns : turn[t].at \in {"arrived", "summarised", "streaming"} => turn[t].began # 0

QuestionInv ==
  \A m, n \in msgs : m.role = "user" /\ n.role = "user" /\ m.turn = n.turn => m = n

\* What was read before the summary is still there when the question is stored.
HistoryInv(t) ==
  /\ turn[t].at = "summarised" /\ sess[turn[t].session].state # "deleted" =>
       /\ turn[t].before \subseteq MessagesOf(turn[t].session)
       /\ turn[t].context = Summarised(turn[t].before)
  /\ turn[t].long => turn[t].missing = turn[t].late

\* How often the clock has ticked for a turn, at most.
Spent(t) ==
  CASE turn[t].at = "none" -> 0
    [] turn[t].at \in {"arrived", "summarised"} -> 1
    [] turn[t].at \in {"stored", "closing", "done"} -> 3
    [] OTHER -> 2
Ticks == {p \in (1 .. MaxTurns) \X (1 .. 3) : p[2] <= Spent(p[1])}

ClockInv ==
  /\ 2 <= clock /\ clock <= 2 + Cardinality(Ticks)
  /\ turn[0].at = "done"
ThroughInv == \A s \in Sessions : sess[s].through <= 2 * (MaxTurns + 1)

HInv == TimesInv /\ QuestionInv /\ ClockInv /\ ThroughInv /\ \A t \in Turns : HistoryInv(t)

\* Of messages with different times, Newest takes as many as it is asked for: a
\* message is among them by its rank, and the ranks are 0, 1, 2, ...
LEMMA NewestFacts ==
  ASSUME NEW M \in SUBSET Message, IsFiniteSet(M), \A m, n \in M : m.at = n.at => m = n,
         NEW K \in Nat, K <= Cardinality(M)
  PROVE  /\ Newest(M, K) \subseteq M
         /\ Cardinality(Newest(M, K)) = K
<1> DEFINE Above(m) == {o \in M : o.at > m.at}
           c == Cardinality(M)
           rank == [m \in M |-> Cardinality(Above(m))]
<1>1. c \in Nat
  BY FS_CardinalityType
<1>2. ASSUME NEW m \in M
      PROVE  /\ IsFiniteSet(Above(m)) /\ Cardinality(Above(m)) \in Nat
             /\ Cardinality(Above(m)) <= c - 1
  <2>1. Above(m) \in SUBSET (M \ {m})
    BY DEF Message
  <2>2. IsFiniteSet(M \ {m}) /\ Cardinality(M \ {m}) = c - 1
    BY FS_RemoveElement
  <2>3. IsFiniteSet(Above(m)) /\ Cardinality(Above(m)) <= Cardinality(M \ {m})
    <3> HIDE DEF Above
    <3>1. QED BY <2>1, <2>2, FS_Subset
  <2>4. QED BY <2>2, <2>3, FS_CardinalityType
<1>3. ASSUME NEW m \in M, NEW n \in M, m.at > n.at
      PROVE  Cardinality(Above(m)) < Cardinality(Above(n))
  <2>1. Above(m) \in SUBSET (Above(n) \ {m}) /\ m \in Above(n)
    BY <1>3 DEF Message
  <2> HIDE DEF Above
  <2>2. IsFiniteSet(Above(n) \ {m}) /\ Cardinality(Above(n) \ {m}) = Cardinality(Above(n)) - 1
    BY <1>2, <2>1, FS_RemoveElement
  <2>3. Cardinality(Above(m)) <= Cardinality(Above(n) \ {m})
    BY <2>1, <2>2, FS_Subset
  <2>4. QED BY <1>2, <2>2, <2>3
<1>4. ASSUME NEW m \in M, NEW n \in M, rank[m] = rank[n]
      PROVE  m = n
  <2>1. m.at \in Nat /\ n.at \in Nat
    BY DEF Message
  <2>2. ~(m.at > n.at) /\ ~(n.at > m.at)
    <3> HIDE DEF Above
    <3>1. QED BY <1>2, <1>3, <1>4
  <2>3. QED BY <2>1, <2>2
<1> HIDE DEF Above
<1>5. rank \in [M -> 0 .. (c - 1)]
  BY <1>1, <1>2
<1>6. rank \in Injection(M, 0 .. (c - 1))
  BY <1>4, <1>5 DEF Injection, IsInjective
<1>7. IsFiniteSet(0 .. (c - 1)) /\ Cardinality(0 .. (c - 1)) = c
  <2> HIDE DEF c
  <2>1. 0 \in Int /\ c - 1 \in Int /\ (0 > c - 1 <=> c = 0)
    BY <1>1
  <2>2. QED BY <1>1, <2>1, FS_Interval
<1>8. rank \in Surjection(M, 0 .. (c - 1))
  <2> HIDE DEF rank
  <2>1. QED BY <1>6, <1>7, FS_Injection
<1>9. Newest(M, K) = {m \in M : rank[m] < K}
  BY DEF Newest, Above
<1> DEFINE N == {m \in M : rank[m] < K}
           first == [m \in N |-> rank[m]]
<1> HIDE DEF rank
<1>10. first \in [N -> 0 .. (K - 1)]
  BY <1>5
<1>11. first \in Injection(N, 0 .. (K - 1))
  BY <1>4, <1>10 DEF Injection, IsInjective
<1>12. \A i \in 0 .. (K - 1) : \E m \in N : first[m] = i
  <2> TAKE i \in 0 .. (K - 1)
  <2>1. i \in 0 .. (c - 1)
    BY <1>1
  <2>2. PICK m \in M : rank[m] = i
    BY <1>8, <2>1 DEF Surjection
  <2>3. m \in N
    BY <2>2
  <2>4. QED BY <2>2, <2>3
<1>13. first \in Surjection(N, 0 .. (K - 1))
  BY <1>10, <1>12 DEF Surjection
<1>14. IsFiniteSet(0 .. (K - 1)) /\ Cardinality(0 .. (K - 1)) = K
  BY FS_Interval
<1> HIDE DEF first
<1>15. Cardinality(N) = K
  BY <1>11, <1>13, <1>14, FS_Injection
<1>16. QED BY <1>9, <1>15

\* What a summary of B leaves out of a larger M, beside its newest messages, is as
\* much as M has more than B.
LEMMA HistoryCount ==
  ASSUME NEW M \in SUBSET Message, IsFiniteSet(M), \A m, n \in M : m.at = n.at => m = n,
         NEW B \in SUBSET M, Summarised(B) # {}
  PROVE  Cardinality(M \ (Summarised(B) \cup Newest(M, KeepRecent))) = Cardinality(M \ B)
<1> DEFINE K == KeepRecent
           S == Summarised(B)
           N == Newest(M, K)
<1>1. /\ IsFiniteSet(B) /\ B \in SUBSET Message
      /\ Cardinality(B) \in Nat /\ Cardinality(M) \in Nat /\ Cardinality(B) <= Cardinality(M)
  BY FS_Subset, FS_CardinalityType
<1>2. K \in Nat /\ Threshold \in Nat /\ K <= Threshold
  BY ChatAssumption
<1>3. /\ S = B \ Newest(B, K)
      /\ K <= Cardinality(B) /\ K <= Cardinality(M)
  BY <1>1, <1>2 DEF Summarised
<1>4. Newest(B, K) \subseteq B /\ Cardinality(Newest(B, K)) = K
  BY <1>1, <1>2, <1>3, NewestFacts
<1>5. N \subseteq M /\ Cardinality(N) = K
  BY <1>2, <1>3, NewestFacts
<1>6. S \cap N = {}
  <2> SUFFICES ASSUME NEW m \in S, m \in N PROVE FALSE
    OBVIOUS
  <2> DEFINE P == {o \in B : o.at > m.at}
             Q == {o \in M : o.at > m.at}
  <2>1. P \in SUBSET Q /\ Q \in SUBSET M
    OBVIOUS
  <2>2. m \in B /\ ~(Cardinality(P) < K)
    BY <1>3 DEF Newest
  <2>3. Cardinality(Q) < K
    BY DEF Newest
  <2> HIDE DEF P, Q
  <2>4. /\ IsFiniteSet(Q) /\ Cardinality(Q) \in Nat
        /\ IsFiniteSet(P) /\ Cardinality(P) \in Nat /\ Cardinality(P) <= Cardinality(Q)
    BY <2>1, FS_Subset, FS_CardinalityType
  <2>5. QED BY <1>2, <2>2, <2>3, <2>4
<1> HIDE DEF N, S
<1>7. /\ IsFiniteSet(S) /\ Cardinality(S) = Cardinality(B) - K
  <2>1. B \cap Newest(B, K) = Newest(B, K)
    BY <1>4
  <2>2. /\ IsFiniteSet(B \ Newest(B, K))
        /\ Cardinality(B \ Newest(B, K)) = Cardinality(B) - Cardinality(B \cap Newest(B, K))
    BY <1>1, FS_Difference, Zenon
  <2>3. QED BY <1>3, <1>4, <2>1, <2>2
<1>8. IsFiniteSet(N)
  BY <1>5, FS_Subset
<1>9. IsFiniteSet(S \cup N) /\ Cardinality(S \cup N) = Cardinality(B)
  <2>1. Cardinality(S \cap N) = 0
    BY <1>6, FS_EmptySet
  <2>2. Cardinality(S \cup N) = Cardinality(S) + Cardinality(N) - Cardinality(S \cap N)
    BY <1>7, <1>8, FS_Union
  <2>3. IsFiniteSet(S \cup N)
    BY <1>7, <1>8, FS_Union
  <2>4. QED BY <1>1, <1>2, <1>5, <1>7, <2>1, <2>2, <2>3
<1>10. Cardinality(M \ (S \cup N)) = Cardinality(M) - Cardinality(B)
  <2>1. M \cap (S \cup N) = S \cup N
    BY <1>3, <1>5
  <2>2. Cardinality(M \ (S \cup N)) = Cardinality(M) - Cardinality(M \cap (S \cup N))
    BY FS_Difference, Zenon
  <2>3. QED BY <1>9, <2>1, <2>2
<1>11. Cardinality(M \ B) = Cardinality(M) - Cardinality(B)
  <2>1. M \cap B = B
    OBVIOUS
  <2>2. Cardinality(M \ B) = Cardinality(M) - Cardinality(M \cap B)
    BY FS_Difference, Zenon
  <2>3. QED BY <2>1, <2>2
<1>12. QED BY <1>10, <1>11 DEF N, S

\* With one question and one reply of each turn there are two messages per turn.
LEMMA TwoPerTurn ==
  ASSUME NEW M \in SUBSET Message,
         \A m, n \in M : m.turn = n.turn /\ (m.role = "user" <=> n.role = "user") => m = n
  PROVE  Cardinality(M) <= 2 * (MaxTurns + 1)
<1> DEFINE place == [m \in M |-> <<m.turn, IF m.role = "user" THEN 1 ELSE 2>>]
<1>1. place \in Injection(M, Turns \X (1 .. 2))
  <2>1. place \in [M -> Turns \X (1 .. 2)]
    BY DEF Message
  <2>2. ASSUME NEW m \in M, NEW n \in M, place[m] = place[n]
        PROVE  m = n
    <3>1. /\ m.turn = n.turn
          /\ (IF m.role = "user" THEN 1 ELSE 2) = (IF n.role = "user" THEN 1 ELSE 2)
      BY <2>2
    <3>2. m.role = "user" <=> n.role = "user"
      BY <3>1
    <3>3. QED BY <3>1, <3>2
  <2>3. IsInjective(place)
    BY <2>1, <2>2 DEF IsInjective
  <2>4. QED BY <2>1, <2>3 DEF Injection
<1>2. /\ IsFiniteSet(Turns) /\ Cardinality(Turns) = MaxTurns + 1
      /\ IsFiniteSet(1 .. 2) /\ Cardinality(1 .. 2) = 2
  <2>1. MaxTurns \in Int /\ ~(0 > MaxTurns)
    BY ChatAssumption
  <2>2. IsFiniteSet(0 .. MaxTurns) /\ Cardinality(0 .. MaxTurns) = MaxTurns - 0 + 1
    BY <2>1, FS_Interval
  <2>3. IsFiniteSet(1 .. 2) /\ Cardinality(1 .. 2) = 2
    <3>1. 1 \in Int /\ 2 \in Int
      OBVIOUS
    <3>2. /\ IsFiniteSet(1 .. 2)
          /\ Cardinality(1 .. 2) = IF 1 > 2 THEN 0 ELSE 2 - 1 + 1
      BY <3>1, FS_Interval, Zenon
    <3>3. QED BY <3>2
  <2>4. QED BY <2>1, <2>2, <2>3 DEF Turns
<1>3. IsFiniteSet(Turns \X (1 .. 2)) /\ Cardinality(Turns \X (1 .. 2)) = (MaxTurns + 1) * 2
  BY <1>2, FS_Product
<1> HIDE DEF place
<1>4. Cardinality(M) <= Cardinality(Turns \X (1 .. 2))
  BY <1>1, <1>3, FS_Injection
<1>5. QED BY <1>3, <1>4, ChatAssumption

-----------------------------------------------------------------------------
(* What a step keeps of HInv *)

\* The messages of a turn do not move to another session.
LEMMA OtherHistory ==
  ASSUME IInv, NEW u \in Turns, HistoryInv(u), turn'[u] = turn[u], msgs \subseteq msgs',
         \A v \in Turns : turn[v].at # "none" => turn'[v].session = turn[v].session,
         \A s \in Sessions : sess[s].state = "deleted" => sess'[s].state = "deleted"
  PROVE  HistoryInv(u)'
<1>1. MessagesOf(turn[u].session) \subseteq MessagesOf(turn[u].session)'
  <2>1. \A m \in msgs : m.turn \in Turns /\ turn[m.turn].at # "none"
    BY DEF IInv, TypeInv, Message, TurnInv, MessageInv
  <2>2. QED BY <2>1 DEF MessagesOf
<1>2. turn[u].at = "summarised" => turn[u].session \in Sessions
  BY DEF IInv, SeatInv
<1>3. QED BY <1>1, <1>2 DEF HistoryInv

\* The clock ticks at most as often as its bound grows.
LEMMA ClockStep ==
  ASSUME IInv, ClockInv, NEW t \in Turns,
         \A u \in Turns \ {t} : turn'[u] = turn[u],
         turn[t].at # "done",
         \/ clock' = clock /\ Spent(t) <= Spent(t)'
         \/ clock' = clock + 1 /\ Spent(t) < Spent(t)'
  PROVE  ClockInv'
<1>1. /\ clock \in Nat /\ 0 \in Turns /\ t \in 1 .. MaxTurns /\ turn'[0].at = "done"
  BY ChatAssumption DEF IInv, TypeInv, ClockInv, Turns
<1>2. Spent(t) \in 0 .. 3 /\ Spent(t)' \in 0 .. 3
  BY DEF Spent
<1>3. \A u \in (1 .. MaxTurns) \ {t} : Spent(u)' = Spent(u)
  BY DEF Spent, Turns
<1>4. IsFiniteSet(Ticks') /\ IsFiniteSet(Ticks)
  <2>1. IsFiniteSet(1 .. MaxTurns) /\ IsFiniteSet(1 .. 3)
    <3>1. 1 \in Int /\ 3 \in Int /\ MaxTurns \in Int
      BY ChatAssumption
    <3>2. QED BY <3>1, FS_Interval, Zenon
  <2>2. IsFiniteSet((1 .. MaxTurns) \X (1 .. 3))
    BY <2>1, FS_Product
  <2>3. Ticks \in SUBSET ((1 .. MaxTurns) \X (1 .. 3)) /\ Ticks' \in SUBSET ((1 .. MaxTurns) \X (1 .. 3))
    BY DEF Ticks
  <2>4. QED BY <2>2, <2>3, FS_Subset
<1>5. \A p \in Ticks : p \in Ticks'
  BY <1>1, <1>2, <1>3 DEF Ticks
<1>6. Ticks \in SUBSET Ticks'
  BY <1>5
<1>7. /\ Cardinality(Ticks) \in Nat /\ Cardinality(Ticks') \in Nat
      /\ Cardinality(Ticks) <= Cardinality(Ticks')
  BY <1>4, <1>6, FS_Subset, FS_CardinalityType
<1>8. CASE clock' = clock
  BY <1>1, <1>7, <1>8 DEF ClockInv
<1>9. CASE clock' = clock + 1 /\ Spent(t) < Spent(t)'
  <2> DEFINE p == <<t, Spent(t)'>>
  <2>1. p \in Ticks' /\ p \notin Ticks
    BY <1>1, <1>2, <1>9 DEF Ticks
  <2>2. Cardinality(Ticks) # Cardinality(Ticks')
    BY <1>4, <1>6, <2>1, FS_Subset
  <2>3. QED BY <1>1, <1>7, <1>9, <2>2 DEF ClockInv
<1>10. QED BY <1>8, <1>9

\* A step that creates no message.
LEMMA QuietStep ==
  ASSUME IInv, TypeInv', HInv, NEW t \in Turns,
         msgs' = msgs, clock' = clock,
         \A u \in Turns \ {t} : turn'[u] = turn[u],
         turn[t].at \notin {"none", "done"},
         turn'[t].at \notin {"none", "arrived", "summarised", "streaming"},
         turn'[t].session = turn[t].session,
         turn'[t].began = 0 \/ (turn'[t].began = turn[t].began /\ turn[t].at # "stored"),
         turn'[t].long = turn[t].long, turn'[t].missing = turn[t].missing,
         turn'[t].late = turn[t].late, Spent(t) <= Spent(t)',
         \A s \in Sessions : /\ sess'[s].through = sess[s].through
                             /\ sess[s].state = "deleted" => sess'[s].state = "deleted"
  PROVE  HInv'
<1>1. TimesInv'
  BY DEF HInv, TimesInv, Pending
<1>2. QuestionInv' /\ ThroughInv'
  BY DEF HInv, QuestionInv, ThroughInv
<1>3. ClockInv'
  BY ClockStep DEF HInv
<1>4. ASSUME NEW u \in Turns PROVE HistoryInv(u)'
  <2>1. CASE u = t
    BY <2>1 DEF HInv, HistoryInv
  <2>2. CASE u # t
    BY <2>2, OtherHistory DEF HInv
  <2>3. QED BY <2>1, <2>2
<1>5. QED BY <1>1, <1>2, <1>3, <1>4 DEF HInv

\* A step that creates a reply, in the transaction that is open or in one that
\* begins now.
LEMMA ReplyStep ==
  ASSUME IInv, TypeInv', HInv, NEW t \in Turns, NEW m \in Message,
         msgs' = msgs \cup {m}, m.turn = t, m.role # "user",
         \/ m.at = turn[t].began /\ turn[t].began # 0 /\ clock' = clock
         \/ m.at = clock + 1 /\ clock' = clock + 1,
         \A u \in Turns \ {t} : turn'[u] = turn[u],
         turn[t].at \in {"streaming", "recalled", "answered", "failed"},
         turn'[t].at \in {"stored", "closing", "done"},
         turn'[t].session = turn[t].session,
         turn'[t].began = 0 \/ (turn'[t].began = turn[t].began /\ turn'[t].at = "stored"),
         turn'[t].long = turn[t].long, turn'[t].missing = turn[t].missing,
         turn'[t].late = turn[t].late, sess' = sess
  PROVE  HInv'
<1>1. /\ clock \in Nat
      /\ \A n \in msgs : n.at \in Nat /\ n.at <= clock /\ n.turn \in Turns
      /\ \A u \in Turns : turn[u].began \in Nat /\ turn[u].began <= clock
  BY DEF IInv, TypeInv, Message, TurnRecord, TurnInv, MessageInv, StageInv
<1>2. \A n \in msgs : n.at # m.at
  BY <1>1 DEF HInv, TimesInv, Pending
<1>3. \A u \in Turns \ {t} : turn[u].began # m.at
  BY <1>1 DEF HInv, TimesInv
<1>4. TimesInv'
  <2>1. \A n \in msgs' : 1 <= n.at
    BY <1>1 DEF HInv, TimesInv
  <2>2. \A n, o \in msgs' : n.at = o.at => n = o
    BY <1>2 DEF HInv, TimesInv
  <2>3. \A u \in Turns : Pending(u)' => \A n \in msgs' : n.at # turn'[u].began
    BY <1>3 DEF HInv, TimesInv, Pending
  <2>4. \A u, v \in Turns : turn'[u].began = turn'[v].began /\ turn'[u].began # 0 => u = v
    BY DEF HInv, TimesInv
  <2>5. \A u \in Turns : turn'[u].at \in {"arrived", "summarised", "streaming"} => turn'[u].began # 0
    BY DEF HInv, TimesInv
  <2>6. QED BY <2>1, <2>2, <2>3, <2>4, <2>5 DEF TimesInv
<1>5. QuestionInv' /\ ThroughInv'
  BY DEF HInv, QuestionInv, ThroughInv
<1>6. ClockInv'
  <2>1. Spent(t) = 2 /\ Spent(t)' = 3
    BY DEF Spent
  <2>2. QED BY <2>1, ClockStep DEF HInv
<1>7. ASSUME NEW u \in Turns PROVE HistoryInv(u)'
  <2>1. CASE u = t
    BY <2>1 DEF HInv, HistoryInv
  <2>2. CASE u # t
    BY <2>2, OtherHistory DEF HInv
  <2>3. QED BY <2>1, <2>2
<1>8. QED BY <1>4, <1>5, <1>6, <1>7 DEF HInv

LEMMA ArriveKeepsHInv ==
  ASSUME IInv, TypeInv', HInv, NEW t \in Turns, NEW s \in Sessions \cup {NoSession},
         NEW explicit, NEW bare, NEW dropdown, Arrive(t, s, explicit, bare, dropdown)
  PROVE  HInv'
<1>1. /\ turn[t].at = "none" /\ clock' = clock + 1 /\ clock \in Nat /\ msgs' = msgs
      /\ \A n \in msgs : n.at \in Nat /\ n.at <= clock /\ n.turn # t
      /\ \A u \in Turns : turn[u].began \in Nat /\ turn[u].began <= clock
  BY DEF Arrive, IInv, TypeInv, Message, TurnRecord, TurnInv, MessageInv, StageInv
<1>2. /\ \A u \in Turns \ {t} : turn'[u] = turn[u]
      /\ \/ turn'[t].at = "done" /\ turn'[t].began = turn[t].began
         \/ turn'[t].at = "arrived" /\ turn'[t].began = clock + 1
      /\ turn'[t].long = turn[t].long /\ turn'[t].missing = turn[t].missing
      /\ turn'[t].late = turn[t].late
  <2>1. turn \in [Turns -> TurnRecord] /\ turn[t] \in TurnRecord
    BY DEF IInv, TypeInv
  <2>2. CASE WorkspaceOf(explicit, bare, dropdown) = NoWorkspace
    <3>1. turn' = [turn EXCEPT ![t].at = "done", ![t].heard = "told"]
      BY <2>2 DEF Arrive
    <3>2. QED BY <2>1, <3>1 DEF TurnRecord
  <2>3. CASE WorkspaceOf(explicit, bare, dropdown) # NoWorkspace
    <3>1. PICK n : turn' = [turn EXCEPT ![t] = [@ EXCEPT !.at = "arrived", !.session = n,
                                                         !.began = clock']]
      BY <2>3 DEF Arrive
    <3>2. QED BY <1>1, <2>1, <3>1 DEF TurnRecord
  <2>4. QED BY <2>2, <2>3
<1>3. \A x \in Sessions : sess'[x].through = sess[x].through
                          /\ (sess[x].state = "deleted" => sess'[x].state = "deleted")
  <2>1. \/ sess' = sess
        \/ \E n \in Sessions : sess[n].state = "none" /\ sess' = [sess EXCEPT ![n].state = "new"]
    BY DEF Arrive, Ensured, Open
  <2>2. QED BY <2>1 DEF IInv, TypeInv, SessionRecord
<1>4. TimesInv'
  <2>1. \A u \in Turns : Pending(u)' => \A n \in msgs' : n.at # turn'[u].began
    BY <1>1, <1>2 DEF HInv, TimesInv, Pending
  <2>2. \A u, v \in Turns : turn'[u].began = turn'[v].began /\ turn'[u].began # 0 => u = v
    BY <1>1, <1>2 DEF HInv, TimesInv
  <2>3. QED BY <1>1, <1>2, <2>1, <2>2 DEF HInv, TimesInv
<1>5. QuestionInv' /\ ThroughInv'
  BY <1>1, <1>3 DEF HInv, QuestionInv, ThroughInv
<1>6. ClockInv'
  <2>1. Spent(t) = 0 /\ Spent(t)' \in {1, 3}
    BY <1>1, <1>2 DEF Spent
  <2>2. QED BY <1>1, <1>2, <2>1, ClockStep DEF HInv
<1>7. ASSUME NEW u \in Turns PROVE HistoryInv(u)'
  <2>1. CASE u = t
    BY <1>2, <2>1 DEF HInv, HistoryInv
  <2>2. CASE u # t
    BY <1>1, <1>2, <1>3, <2>2, OtherHistory DEF HInv
  <2>3. QED BY <2>1, <2>2
<1>8. QED BY <1>4, <1>5, <1>6, <1>7 DEF HInv

LEMMA SummariseKeepsHInv ==
  ASSUME IInv, TypeInv', HInv, NEW t \in Turns, Summarise(t)
  PROVE  HInv'
<1> DEFINE M == MessagesOf(turn[t].session)
<1>1. /\ turn[t].at = "arrived" /\ clock' = clock /\ msgs' = msgs /\ sess' = sess
      /\ \A u \in Turns \ {t} : turn'[u] = turn[u]
  BY DEF Summarise, IInv, TypeInv
<1>2. /\ turn'[t].at = "summarised" /\ turn'[t].began = turn[t].began
      /\ turn'[t].session = turn[t].session
      /\ turn'[t].before = M /\ turn'[t].context = Summarised(M)
      /\ turn'[t].long = turn[t].long /\ turn'[t].missing = turn[t].missing
      /\ turn'[t].late = turn[t].late
  <2> HIDE DEF M
  <2>1. turn' = [turn EXCEPT ![t] = [@ EXCEPT !.at = "summarised", !.before = M,
                                              !.context = Summarised(M)]]
    BY DEF Summarise, M
  <2>2. QED BY <2>1 DEF IInv, TypeInv, TurnRecord
<1>3. M' = M
  <2>1. \A m \in msgs : m.turn \in Turns
    BY DEF IInv, TypeInv, Message
  <2>2. QED BY <1>1, <1>2, <2>1 DEF MessagesOf
<1>4. TimesInv'
  BY <1>1, <1>2 DEF HInv, TimesInv, Pending
<1>5. QuestionInv' /\ ThroughInv'
  BY <1>1 DEF HInv, QuestionInv, ThroughInv
<1>6. ClockInv'
  <2>1. Spent(t) = 1 /\ Spent(t)' = 1
    BY <1>1, <1>2 DEF Spent
  <2>2. QED BY <1>1, <2>1, ClockStep DEF HInv
<1>7. ASSUME NEW u \in Turns PROVE HistoryInv(u)'
  <2>1. CASE u = t
    <3>1. /\ turn'[t].before \subseteq MessagesOf(turn[t].session)'
          /\ turn'[t].context = Summarised(turn'[t].before)
      BY <1>2, <1>3
    <3>2. Summarised(turn[t].before)' = Summarised(turn'[t].before)
      BY DEF Summarised, Newest
    <3>3. QED BY <1>2, <2>1, <3>1, <3>2 DEF HInv, HistoryInv
  <2>2. CASE u # t
    BY <1>1, <1>2, <2>2, OtherHistory DEF HInv
  <2>3. QED BY <2>1, <2>2
<1>8. QED BY <1>4, <1>5, <1>6, <1>7 DEF HInv

\* The question is created when its request began.  Nothing that was read for the
\* summary has gone, so the counts of HistoryCount are the ones the code makes.
LEMMA StoreQuestionKeepsHInv ==
  ASSUME IInv, TypeInv', HInv, NEW t \in Turns, StoreQuestion(t)
  PROVE  HInv'
<1> DEFINE s == turn[t].session
           M == MessagesOf(s)
<1>1. /\ turn[t].at = "summarised" /\ clock \in Nat /\ s \in Sessions
      /\ turn[t] \in TurnRecord /\ turn \in [Turns -> TurnRecord]
      /\ \A n \in msgs : n.at \in Nat /\ n.at <= clock /\ n.turn # t /\ n.turn \in Turns
      /\ \A u \in Turns : turn[u].began \in Nat /\ turn[u].began <= clock
  BY DEF StoreQuestion, IInv, TypeInv, SeatInv, Message, TurnRecord, TurnInv, MessageInv, StageInv
<1>2. CASE sess[s].state = "deleted"
  <2>1. turn' = [turn EXCEPT ![t] = Ended(t, "error")] /\ sess' = sess /\ msgs' = msgs /\ clock' = clock
    BY <1>2 DEF StoreQuestion
  <2>2. turn'[t] = Ended(t, "error") /\ \A u \in Turns \ {t} : turn'[u] = turn[u]
    BY <1>1, <2>1
  <2>3. /\ turn'[t].at = "done" /\ turn'[t].began = 0 /\ turn'[t].session = s
        /\ turn'[t].long = turn[t].long /\ turn'[t].missing = turn[t].missing
        /\ turn'[t].late = turn[t].late
    BY <1>1, <2>2 DEF Ended, TurnRecord
  <2>4. Spent(t) = 1 /\ Spent(t)' = 3
    BY <1>1, <2>3 DEF Spent
  <2>5. QED BY <1>1, <2>1, <2>2, <2>3, <2>4, QuietStep
<1>3. CASE sess[s].state # "deleted"
  <2> DEFINE question == [turn |-> t, role |-> "user", at |-> turn[t].began]
             through == IF turn[t].context = {} THEN sess[s].through
                        ELSE Cardinality(turn[t].context)
             missing == Cardinality(M \ (turn[t].context \cup Newest(M, KeepRecent)))
             late == Cardinality(M \ turn[t].before)
             long == turn[t].context # {}
  <2>1. /\ msgs' = msgs \cup {question} /\ clock' = clock + 1
        /\ sess' = [sess EXCEPT ![s].state = "open", ![s].through = through]
        /\ turn' = [turn EXCEPT ![t] = [@ EXCEPT !.at = "streaming", !.began = clock',
                      !.before = {}, !.context = {}, !.long = long, !.missing = missing,
                      !.late = late]]
    BY <1>3 DEF StoreQuestion
  <2> HIDE DEF missing, late, long, through
  <2>2. /\ \A u \in Turns \ {t} : turn'[u] = turn[u]
        /\ turn'[t].at = "streaming" /\ turn'[t].began = clock + 1 /\ turn'[t].session = s
        /\ turn'[t].long = long /\ turn'[t].missing = missing /\ turn'[t].late = late
    BY <1>1, <2>1 DEF TurnRecord
  <2>3. \A x \in Sessions : /\ sess[x].state = "deleted" => sess'[x].state = "deleted"
                            /\ x # s => sess'[x].through = sess[x].through
                            /\ x = s => sess'[x].through = through
    BY <1>1, <1>3, <2>1 DEF IInv, TypeInv, SessionRecord
  <2>4. /\ M \in SUBSET Message /\ IsFiniteSet(M) /\ M \subseteq msgs
        /\ \A m, n \in M : m.at = n.at => m = n
        /\ \A m, n \in M : m.turn = n.turn /\ (m.role = "user" <=> n.role = "user") => m = n
    <3>1. M \subseteq msgs /\ msgs \in SUBSET Message /\ IsFiniteSet(msgs)
      BY DEF MessagesOf, IInv, TypeInv
    <3>2. \A m, n \in msgs : m.turn = n.turn /\ m.role # "user" /\ n.role # "user" => m = n
      BY <1>1 DEF IInv, TurnInv, MessageInv
    <3>3. QED BY <3>1, <3>2, FS_Subset DEF HInv, TimesInv, QuestionInv
  <2>5. turn[t].before \in SUBSET M /\ turn[t].context = Summarised(turn[t].before)
    BY <1>1, <1>3 DEF HInv, HistoryInv
  <2>6. long => missing = late
    BY <2>4, <2>5, HistoryCount DEF long, missing, late
  <2>7. through <= 2 * (MaxTurns + 1)
    <3>1. CASE turn[t].context = {}
      BY <1>1, <3>1 DEF through, HInv, ThroughInv
    <3>2. CASE turn[t].context # {}
      <4>1. turn[t].context \in SUBSET M
        BY <2>5 DEF Summarised
      <4>2. turn[t].context \in SUBSET Message
        BY <2>4, <4>1
      <4>3. \A m, n \in turn[t].context :
              m.turn = n.turn /\ (m.role = "user" <=> n.role = "user") => m = n
        BY <2>4, <4>1
      <4> HIDE DEF M
      <4>4. Cardinality(turn[t].context) <= 2 * (MaxTurns + 1)
        BY <4>2, <4>3, TwoPerTurn
      <4>5. QED BY <3>2, <4>4 DEF through
    <3>3. QED BY <3>1, <3>2
  <2> HIDE DEF M, s
  <2>8. /\ turn[t].began # 0
        /\ \A n \in msgs : n.at # turn[t].began
        /\ \A u \in Turns \ {t} : turn[u].began # turn[t].began
    BY <1>1 DEF HInv, TimesInv, Pending
  <2>9. TimesInv'
    <3>1. \A n \in msgs' : 1 <= n.at
      BY <1>1, <2>1, <2>8 DEF HInv, TimesInv
    <3>2. \A n, o \in msgs' : n.at = o.at => n = o
      BY <2>1, <2>8 DEF HInv, TimesInv
    <3>3. \A u \in Turns : Pending(u)' => \A n \in msgs' : n.at # turn'[u].began
      BY <1>1, <2>1, <2>2, <2>8 DEF HInv, TimesInv, Pending
    <3>4. \A u, v \in Turns : turn'[u].began = turn'[v].began /\ turn'[u].began # 0 => u = v
      BY <1>1, <2>2 DEF HInv, TimesInv
    <3>5. \A u \in Turns : turn'[u].at \in {"arrived", "summarised", "streaming"} => turn'[u].began # 0
      BY <1>1, <2>2 DEF HInv, TimesInv
    <3>6. QED BY <3>1, <3>2, <3>3, <3>4, <3>5 DEF TimesInv
  <2>10. QuestionInv'
    BY <1>1, <2>1 DEF HInv, QuestionInv
  <2>11. ThroughInv'
    BY <2>3, <2>7 DEF HInv, ThroughInv
  <2>12. ClockInv'
    <3>1. Spent(t) = 1 /\ Spent(t)' = 2
      BY <1>1, <2>2 DEF Spent
    <3>2. QED BY <1>1, <2>1, <2>2, <3>1, ClockStep DEF HInv
  <2>13. ASSUME NEW u \in Turns PROVE HistoryInv(u)'
    <3>1. CASE u = t
      BY <2>2, <2>6, <3>1 DEF HistoryInv
    <3>2. CASE u # t
      <4>1. msgs \subseteq msgs' /\ \A v \in Turns : turn'[v].session = turn[v].session
        BY <2>1, <2>2 DEF s
      <4>2. QED BY <2>2, <2>3, <3>2, <4>1, OtherHistory DEF HInv
    <3>3. QED BY <3>1, <3>2
  <2>14. QED BY <2>9, <2>10, <2>11, <2>12, <2>13 DEF HInv
<1>4. QED BY <1>2, <1>3

\* The steps that only move a turn on: no message, no tick.
LEMMA QuietStepsKeepHInv ==
  ASSUME IInv, TypeInv', HInv, NEW t \in Turns,
         ScopeFails(t) \/ Recall(t) \/ GraphAnswers(t) \/ GraphRaises(t)
           \/ Index(t) \/ Flush(t) \/ Cut(t)
  PROVE  HInv'
<1>1. turn \in [Turns -> TurnRecord] /\ turn[t] \in TurnRecord
  BY DEF IInv, TypeInv
<1>2. msgs' = msgs /\ clock' = clock
  BY DEF ScopeFails, Recall, GraphAnswers, GraphRaises, Index, Flush, Cut
<1>3. \A s \in Sessions : /\ sess'[s].through = sess[s].through
                          /\ sess[s].state = "deleted" => sess'[s].state = "deleted"
  <2>1. \/ sess' = sess
        \/ sess' = [sess EXCEPT ![turn[t].session].state = "deleted"]
    BY DEF ScopeFails, Recall, GraphAnswers, GraphRaises, Index, Flush, Cut
  <2>2. QED BY <2>1 DEF IInv, TypeInv, SessionRecord
<1>4. /\ \A u \in Turns \ {t} : turn'[u] = turn[u]
      /\ turn'[t].session = turn[t].session
      /\ turn'[t].long = turn[t].long /\ turn'[t].missing = turn[t].missing
      /\ turn'[t].late = turn[t].late
      /\ turn[t].at \notin {"none", "done"}
      /\ turn'[t].at \notin {"none", "arrived", "summarised", "streaming"}
      /\ turn'[t].began = 0 \/ (turn'[t].began = turn[t].began /\ turn[t].at # "stored")
      /\ turn'[t].at \in {"closing", "done"} \/ turn[t].at \in {"streaming", "recalled"}
  <2>1. CASE ScopeFails(t)
    BY <1>1, <2>1 DEF ScopeFails, Over, TurnRecord
  <2>2. CASE Recall(t)
    BY <1>1, <2>2 DEF Recall, TurnRecord
  <2>3. CASE GraphAnswers(t)
    BY <1>1, <2>3 DEF GraphAnswers, TurnRecord
  <2>4. CASE GraphRaises(t)
    <3>1. PICK active \in BOOLEAN :
            turn' = [turn EXCEPT ![t].at = "failed", ![t].active = active]
      BY <2>4 DEF GraphRaises
    <3>2. turn[t].at = "recalled"
      BY <2>4 DEF GraphRaises
    <3>3. QED BY <1>1, <3>1, <3>2 DEF TurnRecord
  <2>5. CASE Index(t)
    BY <1>1, <2>5 DEF Index, Over, TurnRecord
  <2>6. CASE Flush(t)
    BY <1>1, <2>6 DEF Flush, Step, TurnRecord
  <2>7. CASE Cut(t)
    <3>1. turn' = [turn EXCEPT ![t] = [Ended(t, turn[t].heard) EXCEPT !.cut = TRUE]]
      BY <2>7 DEF Cut
    <3>2. /\ turn[t].at \notin {"none", "done"}
          /\ \A u \in Turns \ {t} : turn'[u] = turn[u]
          /\ turn'[t] = [Ended(t, turn[t].heard) EXCEPT !.cut = TRUE]
      BY <1>1, <2>7, <3>1 DEF Cut
    <3>3. QED BY <1>1, <3>2 DEF Ended, TurnRecord
  <2>8. QED BY <2>1, <2>2, <2>3, <2>4, <2>5, <2>6, <2>7
<1>5. Spent(t) <= Spent(t)'
  BY <1>4 DEF Spent
<1>6. QED BY <1>2, <1>3, <1>4, <1>5, QuietStep

\* The steps that store a reply, or find the session gone.
LEMMA ReplyStepsKeepHInv ==
  ASSUME IInv, TypeInv', HInv, NEW t \in Turns, Slash(t) \/ Fallback(t) \/ Persist(t)
  PROVE  HInv'
<1>1. /\ turn \in [Turns -> TurnRecord] /\ turn[t] \in TurnRecord /\ clock \in Nat
      /\ turn[t].began \in Nat /\ sess' = sess
  BY DEF IInv, TypeInv, TurnRecord, Slash, Fallback, Persist
<1>2. turn[t].at \in {"streaming", "failed", "answered"}
  BY DEF Slash, Fallback, Persist
<1>3. turn[t].at = "streaming" => turn[t].began # 0
  BY DEF HInv, TimesInv
<1>4. CASE Open(turn[t].session)
  <2>1. PICK role \in {"answer", "fallback"}, x \in Nat :
          /\ msgs' = msgs \cup {[turn |-> t, role |-> role, at |-> x]}
          /\ \/ x = turn[t].began /\ turn[t].began # 0 /\ clock' = clock
             \/ x = clock + 1 /\ clock' = clock + 1
    <3>1. CASE Slash(t)
      BY <1>1, <1>3, <1>4, <3>1 DEF Slash
    <3>2. CASE Fallback(t)
      <4>1. clock + 1 \in Nat
        BY <1>1
      <4>2. QED BY <1>4, <3>2, <4>1 DEF Fallback
    <3>3. CASE Persist(t)
      <4>1. clock + 1 \in Nat
        BY <1>1
      <4>2. QED BY <1>1, <1>4, <3>3, <4>1 DEF Persist, Created, Tick
    <3>4. QED BY <3>1, <3>2, <3>3
  <2>2. /\ \A u \in Turns \ {t} : turn'[u] = turn[u]
        /\ turn'[t].at \in {"stored", "closing", "done"}
        /\ turn'[t].session = turn[t].session
        /\ turn'[t].began = 0 \/ (turn'[t].began = turn[t].began /\ turn'[t].at = "stored")
        /\ turn'[t].long = turn[t].long /\ turn'[t].missing = turn[t].missing
        /\ turn'[t].late = turn[t].late
    <3>1. CASE Slash(t)
      <4>1. turn' = [turn EXCEPT ![t] = Ended(t, "final")]
        BY <1>4, <3>1 DEF Slash
      <4>2. turn'[t] = Ended(t, "final") /\ \A u \in Turns \ {t} : turn'[u] = turn[u]
        BY <1>1, <4>1
      <4>3. QED BY <1>1, <4>2 DEF Ended, TurnRecord
    <3>2. CASE Fallback(t)
      BY <1>1, <1>4, <3>2 DEF Fallback, Over, TurnRecord
    <3>3. CASE Persist(t)
      BY <1>1, <1>4, <3>3 DEF Persist, Step, TurnRecord
    <3>4. QED BY <3>1, <3>2, <3>3
  <2> DEFINE m == [turn |-> t, role |-> role, at |-> x]
  <2>3. m \in Message /\ m.turn = t /\ m.role # "user" /\ m.at = x
    BY DEF Message, Roles
  <2> HIDE DEF m
  <2>4. msgs' = msgs \cup {m}
    BY <2>1 DEF m
  <2>5. \/ m.at = turn[t].began /\ turn[t].began # 0 /\ clock' = clock
        \/ m.at = clock + 1 /\ clock' = clock + 1
    BY <2>1, <2>3
  <2>6. QED BY <1>1, <1>2, <2>2, <2>3, <2>4, <2>5, ReplyStep
<1>5. CASE ~Open(turn[t].session)
  <2>1. msgs' = msgs /\ clock' = clock
    BY <1>5 DEF Slash, Fallback, Persist
  <2>2. /\ \A u \in Turns \ {t} : turn'[u] = turn[u]
        /\ turn'[t].at \in {"closing", "done"}
        /\ turn'[t].session = turn[t].session /\ turn'[t].began = 0
        /\ turn'[t].long = turn[t].long /\ turn'[t].missing = turn[t].missing
        /\ turn'[t].late = turn[t].late
    <3>1. CASE Slash(t)
      <4>1. turn' = [turn EXCEPT ![t] = Ended(t, "nothing")]
        BY <1>5, <3>1 DEF Slash
      <4>2. turn'[t] = Ended(t, "nothing") /\ \A u \in Turns \ {t} : turn'[u] = turn[u]
        BY <1>1, <4>1
      <4>3. QED BY <1>1, <4>2 DEF Ended, TurnRecord
    <3>2. CASE Fallback(t)
      BY <1>1, <1>5, <3>2 DEF Fallback, Over, TurnRecord
    <3>3. CASE Persist(t)
      BY <1>1, <1>5, <3>3 DEF Persist, Over, TurnRecord
    <3>4. QED BY <3>1, <3>2, <3>3
  <2>3. Spent(t) <= Spent(t)'
    BY <2>2 DEF Spent
  <2>4. QED BY <1>1, <1>2, <2>1, <2>2, <2>3, QuietStep
<1>6. QED BY <1>4, <1>5

\* With a session go its messages, but no message of another one.
LEMMA DeleteSessionKeepsHInv ==
  ASSUME IInv, TypeInv', HInv, NEW s \in Sessions, DeleteSession(s)
  PROVE  HInv'
<1>1. /\ sess' = [sess EXCEPT ![s].state = "deleted"] /\ msgs' = msgs \ MessagesOf(s)
      /\ turn' = turn /\ clock' = clock
  BY DEF DeleteSession
<1>2. \A x \in Sessions : /\ sess'[x].through = sess[x].through
                          /\ x # s => sess'[x] = sess[x]
                          /\ x = s => sess'[x].state = "deleted"
  BY <1>1 DEF IInv, TypeInv, SessionRecord
<1>3. TimesInv' /\ QuestionInv'
  BY <1>1 DEF HInv, TimesInv, QuestionInv, Pending
<1>4. ThroughInv'
  BY <1>2 DEF HInv, ThroughInv
<1>5. ClockInv'
  BY <1>1 DEF HInv, ClockInv, Ticks, Spent
<1>6. ASSUME NEW u \in Turns PROVE HistoryInv(u)'
  <2>1. turn[u].at = "summarised" => turn[u].session \in Sessions
    BY DEF IInv, SeatInv
  <2>2. turn[u].session # s => MessagesOf(turn[u].session)' = MessagesOf(turn[u].session)
    BY <1>1 DEF MessagesOf
  <2>3. QED BY <1>1, <1>2, <2>1, <2>2 DEF HInv, HistoryInv
<1>7. QED BY <1>3, <1>4, <1>5, <1>6 DEF HInv

LEMMA InitHInv == Init => HInv
<1> SUFFICES ASSUME Init PROVE HInv
  OBVIOUS
<1>1. /\ 0 \in Turns
      /\ msgs = {[turn |-> 0, role |-> "user", at |-> 1], [turn |-> 0, role |-> "answer", at |-> 2]}
      /\ clock = 2
      /\ \A s \in Sessions : sess[s].through = 0
      /\ \A t \in Turns : /\ turn[t].began = 0 /\ turn[t].long = FALSE
                          /\ turn[t].at \in {"none", "done"}
      /\ turn[0].at = "done"
  <2> DEFINE s == CHOOSE x \in Sessions : TRUE
             first == [NoTurn EXCEPT !.at = "done", !.session = s, !.kind = "chitchat",
                                     !.active = TRUE, !.heard = "final"]
  <2>1. 0 \in Turns
    BY ChatAssumption DEF Turns
  <2>2. first.began = 0 /\ first.long = FALSE /\ first.at = "done"
    BY DEF NoTurn
  <2>3. NoTurn.began = 0 /\ NoTurn.long = FALSE /\ NoTurn.at = "none"
    BY DEF NoTurn
  <2>4. turn = [t \in Turns |-> IF t = 0 THEN first ELSE NoTurn]
    BY DEF Init
  <2> HIDE DEF first
  <2>5. QED BY <2>1, <2>2, <2>3, <2>4 DEF Init
<1>2. TimesInv /\ QuestionInv
  BY <1>1 DEF TimesInv, QuestionInv, Pending
<1>3. ThroughInv
  BY <1>1, ChatAssumption DEF ThroughInv
<1>4. ClockInv
  <2>1. IsFiniteSet(1 .. MaxTurns) /\ IsFiniteSet(1 .. 3)
    <3>1. 1 \in Int /\ 3 \in Int /\ MaxTurns \in Int
      BY ChatAssumption
    <3>2. QED BY <3>1, FS_Interval, Zenon
  <2>2. IsFiniteSet((1 .. MaxTurns) \X (1 .. 3))
    BY <2>1, FS_Product
  <2>3. IsFiniteSet(Ticks) /\ Cardinality(Ticks) \in Nat
    <3>1. Ticks \in SUBSET ((1 .. MaxTurns) \X (1 .. 3))
      BY DEF Ticks
    <3>2. QED BY <2>2, <3>1, FS_Subset, FS_CardinalityType
  <2>4. QED BY <1>1, <2>3 DEF ClockInv
<1>5. \A t \in Turns : HistoryInv(t)
  BY <1>1 DEF HistoryInv
<1>6. QED BY <1>2, <1>3, <1>4, <1>5 DEF HInv

\* HInv is an invariant too.
THEOREM HistoryInvariance == Spec => []HInv
<1>1. Init => HInv
  BY InitHInv
<1>2. IInv /\ IInv' /\ HInv /\ [Next]_vars => HInv'
  <2> SUFFICES ASSUME IInv, IInv', HInv, [Next]_vars PROVE HInv'
    OBVIOUS
  <2>1. TypeInv'
    BY DEF IInv
  <2>2. ASSUME NEW t \in Turns, NEW s \in Sessions \cup {NoSession},
               NEW explicit \in SUBSET Workspaces, NEW bare \in SUBSET Workspaces,
               NEW dropdown \in Workspaces \cup {NoWorkspace},
               Arrive(t, s, explicit, bare, dropdown)
        PROVE  HInv'
    BY <2>1, <2>2, ArriveKeepsHInv
  <2>3. ASSUME NEW t \in Turns, TurnStep(t) \/ Cut(t) PROVE HInv'
    <3>1. CASE Summarise(t)
      BY <2>1, <3>1, SummariseKeepsHInv
    <3>2. CASE StoreQuestion(t)
      BY <2>1, <3>2, StoreQuestionKeepsHInv
    <3>3. CASE Slash(t) \/ Fallback(t) \/ Persist(t)
      BY <2>1, <3>3, ReplyStepsKeepHInv
    <3>4. CASE \/ ScopeFails(t) \/ Recall(t) \/ GraphAnswers(t) \/ GraphRaises(t)
               \/ Index(t) \/ Flush(t) \/ Cut(t)
      BY <2>1, <3>4, QuietStepsKeepHInv
    <3>5. QED BY <2>3, <3>1, <3>2, <3>3, <3>4 DEF TurnStep
  <2>4. ASSUME NEW s \in Sessions, DeleteSession(s) PROVE HInv'
    BY <2>1, <2>4, DeleteSessionKeepsHInv
  <2>5. CASE UNCHANGED vars
    <3>1. sess' = sess /\ msgs' = msgs /\ turn' = turn /\ clock' = clock
      BY <2>5 DEF vars
    <3>2. TimesInv' /\ QuestionInv' /\ ThroughInv'
      BY <3>1 DEF HInv, TimesInv, QuestionInv, ThroughInv, Pending
    <3>3. ClockInv'
      BY <3>1 DEF HInv, ClockInv, Ticks, Spent
    <3>4. \A t \in Turns : HistoryInv(t)'
      BY <3>1 DEF HInv, HistoryInv, MessagesOf
    <3>5. QED BY <3>2, <3>3, <3>4 DEF HInv
  <2>6. QED BY <2>2, <2>3, <2>4, <2>5 DEF Next
<1>3. QED BY <1>1, <1>2, Invariance, PTL DEF Spec

\* conversation_summary.py: what the agent is given of a long session is all of it
\* but the messages stored while the summary was made, for any number of turns,
\* sessions and cuts; and the records stay within the bounds that TLC uses.
THEOREM HistoryIsSound == Spec => []HistorySound
<1>1. IInv /\ HInv => HistorySound
  <2> SUFFICES ASSUME IInv, HInv PROVE HistorySound
    OBVIOUS
  <2>1. /\ sess \in [Sessions -> SessionRecord] /\ msgs \in SUBSET Message
        /\ queries \in SUBSET QueryRow /\ recall \in SUBSET Turns
        /\ usage \in [Turns -> Nat] /\ turn \in [Turns -> TurnRecord] /\ clock \in Nat
    BY DEF IInv, TypeInv
  <2>2. clock \in 2 .. 3 * MaxTurns + 2
    <3>1. /\ IsFiniteSet(1 .. MaxTurns) /\ Cardinality(1 .. MaxTurns) = MaxTurns
          /\ IsFiniteSet(1 .. 3) /\ Cardinality(1 .. 3) = 3
      <4>1. 1 \in Int /\ 3 \in Int /\ MaxTurns \in Int /\ ~(1 > MaxTurns) /\ MaxTurns - 1 + 1 = MaxTurns
        BY ChatAssumption
      <4>2. /\ IsFiniteSet(1 .. MaxTurns) /\ IsFiniteSet(1 .. 3)
            /\ Cardinality(1 .. MaxTurns) = IF 1 > MaxTurns THEN 0 ELSE MaxTurns - 1 + 1
            /\ Cardinality(1 .. 3) = IF 1 > 3 THEN 0 ELSE 3 - 1 + 1
        BY <4>1, FS_Interval, Zenon
      <4>3. QED BY <4>1, <4>2
    <3>2. /\ IsFiniteSet((1 .. MaxTurns) \X (1 .. 3))
          /\ Cardinality((1 .. MaxTurns) \X (1 .. 3)) = MaxTurns * 3
      <4>1. /\ IsFiniteSet((1 .. MaxTurns) \X (1 .. 3))
            /\ Cardinality((1 .. MaxTurns) \X (1 .. 3))
                 = Cardinality(1 .. MaxTurns) * Cardinality(1 .. 3)
        BY <3>1, FS_Product, Zenon
      <4>2. QED BY <3>1, <4>1
    <3>3. Ticks \in SUBSET ((1 .. MaxTurns) \X (1 .. 3))
      BY DEF Ticks
    <3>4. Cardinality(Ticks) \in Nat /\ Cardinality(Ticks) <= MaxTurns * 3
      BY <3>2, <3>3, FS_Subset, FS_CardinalityType
    <3>5. 2 <= clock /\ clock <= 2 + Cardinality(Ticks)
      BY DEF HInv, ClockInv
    <3>6. QED BY <2>1, <3>4, <3>5, ChatAssumption
  <2>3. msgs \subseteq [turn : Turns, role : Roles, at : 1 .. 3 * MaxTurns + 2]
    <3> SUFFICES ASSUME NEW m \in msgs
                 PROVE  m \in [turn : Turns, role : Roles, at : 1 .. 3 * MaxTurns + 2]
      OBVIOUS
    <3>1. m \in Message /\ m.turn \in Turns
      BY <2>1 DEF Message
    <3>2. 1 <= m.at /\ m.at <= clock
      BY <3>1 DEF IInv, TurnInv, MessageInv, HInv, TimesInv
    <3>3. m.at \in 1 .. 3 * MaxTurns + 2
      BY <2>2, <3>1, <3>2, ChatAssumption DEF Message
    <3>4. QED BY <3>1, <3>3 DEF Message
  <2>4. \A m \in msgs : Open(turn[m.turn].session)
    BY <2>1 DEF Message, IInv, TurnInv, MessageInv, SessionOpen
  <2>5. sess \in [Sessions -> [state : {"none", "new", "open", "deleted"},
                               through : 0 .. 2 * (MaxTurns + 1)]]
    BY <2>1, ChatAssumption DEF SessionRecord, HInv, ThroughInv
  <2>6. usage \in [Turns -> 0 .. 2]
    BY <2>1 DEF IInv, TurnInv, CountInv
  <2>7. \A t \in Turns : /\ turn[t].at \in Stages /\ turn[t].heard \in Heard
                         /\ turn[t].session \in Sessions \cup {NoSession}
    BY <2>1 DEF TurnRecord
  <2>8. TypeOK
    BY <2>1, <2>2, <2>3, <2>4, <2>5, <2>6, <2>7 DEF TypeOK, QueryRow
  <2>9. HistoryComplete
    BY DEF HInv, HistoryInv, HistoryComplete
  <2>10. QED BY <2>8, <2>9 DEF HistorySound
<1>2. QED BY <1>1, Invariance, HistoryInvariance, PTL
=============================================================================
