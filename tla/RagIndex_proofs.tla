--------------------------- MODULE RagIndex_proofs ---------------------------
(***************************************************************************)
(* Proofs about RagIndex for every number of connections, names, versions, *)
(* tasks, retries, worker slots and crashes.  The inductive invariant says *)
(* who inserted each row (InserterInv), that a task compares its bundle    *)
(* with rows of its own connection only (LoadedInv), and what it may hold  *)
(* while its transaction is open (HeldInv).                                *)
(***************************************************************************)
EXTENDS RagIndex, FiniteSetTheorems, TLAPS

\* Row r was inserted for connection c by a task that has started.
InsertedFor(r, c) ==
  /\ r \in Row
  /\ r.owner = c
  /\ task[r.by].at # "idle"
  /\ task[r.by].conn = c

InserterInv ==
  \A k \in Tables : index[k] = NoRow \/ InsertedFor(index[k], index[k].owner)

LoadedInv ==
  \A t \in Tasks : task[t].at \in {"embedding", "writing"} =>
    \A k \in Tables :
      task[t].rows[k] = NoRow \/ InsertedFor(task[t].rows[k], task[t].conn)

\* A row that is written and not committed is free or belongs to the task's
\* connection, which is there to stay until the commit.
HeldInv ==
  /\ \A t \in Tasks : \A k \in task[t].dirty :
       /\ task[t].conn \in live
       /\ index[k].owner \in {"nobody", task[t].conn}
       /\ \/ task[t].rows[k] = NoRow
          \/ InsertedFor(task[t].rows[k], task[t].conn)
  /\ \A t, u \in Tasks : t # u => task[t].dirty \cap task[u].dirty = {}

IInv == TypeOK /\ OwnersLive /\ InserterInv /\ LoadedInv /\ HeldInv

-----------------------------------------------------------------------------
(* Facts about rows and steps *)

\* A row with an owner is not the absent one.
LEMMA RowFacts ==
  ASSUME NEW r \in Rows
  PROVE  /\ r # NoRow => r \in Row /\ r.owner \in Conns /\ r.by \in Tasks
         /\ r.owner # "nobody" => r # NoRow
         /\ r.owner = "nobody" => r = NoRow
BY IndexAssumption DEF Rows, Row, NoRow

LEMMA AbsentRow ==
  /\ NoRow.owner = "nobody"
  /\ NoRow.by \notin Tasks
  /\ NoRow \notin Row
BY IndexAssumption DEF NoRow, Row, Tasks

\* A task that has started keeps its connection.
Steady ==
  \A u \in Tasks : task[u].at # "idle" =>
    task'[u].at # "idle" /\ task'[u].conn = task[u].conn

\* Every reachable state starts from IInv.
LEMMA InitIInv == Init => IInv
<1> SUFFICES ASSUME Init PROVE IInv
  OBVIOUS
<1>1. (CHOOSE c \in Conns : TRUE) \in Conns
  BY IndexAssumption
<1>2. TypeOK
  BY <1>1, IndexAssumption
     DEF Init, TypeOK, TaskRecord, Stages, Bundles, Versions, Empty, Bare, Rows
<1>3. OwnersLive /\ InserterInv
  BY DEF Init, OwnersLive, InserterInv, Bare
<1>4. LoadedInv /\ HeldInv
  BY DEF Init, LoadedInv, HeldInv
<1>5. QED
  BY <1>2, <1>3, <1>4 DEF IInv

\* A step of one task that leaves the rows alone and opens no transaction.
LEMMA QuietStep ==
  ASSUME IInv, TypeOK', NEW t \in Tasks, UNCHANGED <<live, index>>,
         \A u \in Tasks \ {t} : task'[u] = task[u],
         task'[t].at # "idle",
         task[t].at # "idle" => task'[t].conn = task[t].conn,
         task'[t].dirty = {},
         task'[t].at \in {"embedding", "writing"} =>
           \A k \in Tables : \/ task'[t].rows[k] = NoRow
                             \/ InsertedFor(task'[t].rows[k], task'[t].conn)
  PROVE  IInv'
<1>1. Steady
  BY DEF Steady
<1>2. OwnersLive'
  BY DEF IInv, OwnersLive
<1>3. InserterInv'
  BY <1>1 DEF IInv, InserterInv, InsertedFor, Steady, Row
<1>4. LoadedInv'
  <2> SUFFICES ASSUME NEW u \in Tasks, task'[u].at \in {"embedding", "writing"},
                      NEW k \in Tables, task'[u].rows[k] # NoRow
               PROVE  InsertedFor(task[u].rows[k], task[u].conn)'
    BY DEF LoadedInv
  <2>1. InsertedFor(task'[u].rows[k], task'[u].conn)
    BY DEF IInv, LoadedInv
  <2>2. QED
    BY <2>1, <1>1 DEF InsertedFor, Steady, Row
<1>5. HeldInv'
  <2>1. ASSUME NEW u \in Tasks, NEW k \in task'[u].dirty
        PROVE  /\ (task[u].conn \in live)'
               /\ (index[k].owner \in {"nobody", task[u].conn})'
               /\ (\/ task[u].rows[k] = NoRow
                   \/ InsertedFor(task[u].rows[k], task[u].conn))'
    <3>1. u # t /\ task'[u] = task[u]
      BY <2>1
    <3>2. QED
      BY <3>1, <2>1, <1>1 DEF IInv, HeldInv, InsertedFor, Steady, Row
  <2>2. ASSUME NEW u \in Tasks, NEW v \in Tasks, u # v
        PROVE  task'[u].dirty \cap task'[v].dirty = {}
    BY <2>2 DEF IInv, HeldInv
  <2>3. QED
    BY <2>1, <2>2 DEF HeldInv
<1>6. QED
  BY <1>2, <1>3, <1>4, <1>5 DEF IInv

\* One task takes a new record.
LEMMA Becomes ==
  ASSUME TypeOK, NEW t \in Tasks, NEW r \in TaskRecord,
         r.dirty # {} => r.at = "committing",
         task' = [task EXCEPT ![t] = r]
  PROVE  /\ task' \in [Tasks -> TaskRecord]
         /\ \A u \in Tasks \ {t} : task'[u] = task[u]
         /\ task'[t] = r
         /\ \A u \in Tasks : task'[u].dirty # {} => task'[u].at = "committing"
BY DEF TypeOK

\* The parts of a record, and what a task whose transaction is not open holds.
LEMMA Parts ==
  ASSUME TypeOK, NEW t \in Tasks
  PROVE  /\ task[t] \in TaskRecord
         /\ task[t].conn \in Conns
         /\ task[t].tries \in 0 .. MaxRetries
         /\ task[t].saw \in Bundles
         /\ task[t].rows \in [Tables -> Rows]
         /\ task[t].dirty \in SUBSET Tables
         /\ task[t].at # "committing" => task[t].dirty = {}
BY DEF TypeOK, TaskRecord

\* A run that is over, or sent again, holds nothing.
LEMMA EndsTyped ==
  ASSUME TypeOK, NEW t \in Tasks, NEW stage \in Stages \ {"idle", "committing"},
         NEW tries \in 0 .. MaxRetries, Ends(t, stage, tries)
  PROVE  /\ task' \in [Tasks -> TaskRecord]
         /\ \A u \in Tasks \ {t} : task'[u] = task[u]
         /\ task'[t].at = stage
         /\ task'[t].conn = task[t].conn
         /\ task'[t].dirty = {}
         /\ \A u \in Tasks : task'[u].dirty # {} => task'[u].at = "committing"
<1> DEFINE over == [at |-> stage, conn |-> task[t].conn, tries |-> tries,
                    saw |-> Empty, rows |-> Bare, dirty |-> {}]
<1>1. Empty \in Bundles /\ Bare \in [Tables -> Rows]
  BY IndexAssumption DEF Empty, Bare, Bundles, Versions, Rows
<1>2. over \in TaskRecord
  BY <1>1, Parts DEF TaskRecord
<1>3. task' = [task EXCEPT ![t] = over]
  BY DEF Ends
<1>4. over.at = stage /\ over.conn = task[t].conn /\ over.dirty = {}
  OBVIOUS
<1>5. QED
  <2> HIDE DEF over
  <2> QED
    BY <1>2, <1>3, <1>4, Becomes

-----------------------------------------------------------------------------
(* One lemma per action *)

\* A task that has not started may take any connection.
LEMMA StoreBundleIInv ==
  ASSUME IInv, NEW t \in Tasks, NEW c \in Conns, StoreBundle(t, c)
  PROVE  IInv'
<1> DEFINE r == [task[t] EXCEPT !.at = "stored", !.conn = c]
<1>1. task[t].at = "idle" /\ task' = [task EXCEPT ![t] = r]
  BY DEF StoreBundle, Fresh
<1>2. r \in TaskRecord /\ r.at = "stored" /\ r.dirty = {}
  BY <1>1, Parts DEF IInv, TaskRecord, Stages
<1> HIDE DEF r
<1>3. bundle' \in [Conns -> Bundles]
  BY DEF IInv, TypeOK, StoreBundle, BundlesOf
<1>4. TypeOK'
  BY <1>1, <1>2, <1>3, Becomes DEF IInv, TypeOK, StoreBundle
<1>5. QED
  BY <1>1, <1>2, <1>4, Becomes, QuietStep DEF IInv, StoreBundle

\* Sending a message changes no row.
LEMMA RequestIndexIInv ==
  ASSUME IInv, NEW t \in Tasks, RequestIndex(t)
  PROVE  IInv'
<1> DEFINE r == [task[t] EXCEPT !.at = "queued"]
<1>1. task[t].at = "stored" /\ task' = [task EXCEPT ![t] = r]
  BY DEF RequestIndex
<1>2. /\ r \in TaskRecord /\ r.at = "queued" /\ r.dirty = {}
      /\ r.conn = task[t].conn
  BY <1>1, Parts DEF IInv, TaskRecord, Stages
<1> HIDE DEF r
<1>3. TypeOK'
  BY <1>1, <1>2, Becomes DEF IInv, TypeOK, RequestIndex
<1>4. QED
  BY <1>1, <1>2, <1>3, Becomes, QuietStep, ZenonT(30) DEF IInv, RequestIndex

\* A transaction that dies is rolled back.
LEMMA CrashIInv ==
  ASSUME IInv, NEW t \in Tasks, Crash(t)
  PROVE  IInv'
<1>1. "lost" \in Stages \ {"idle", "committing"}
  BY DEF Stages
<1>2. Ends(t, "lost", task[t].tries)
  BY DEF Crash
<1>3. TypeOK'
  BY <1>1, <1>2, Parts, EndsTyped, IndexAssumption DEF IInv, TypeOK, Crash
<1>4. QED
  BY <1>1, <1>2, <1>3, Parts, EndsTyped, QuietStep DEF IInv, Crash

\* Reading the bundle changes no row.
LEMMA LoadBundleIInv ==
  ASSUME IInv, NEW t \in Tasks, LoadBundle(t)
  PROVE  IInv'
<1>1. PICK r \in {[task[t] EXCEPT !.at = "loaded", !.saw = bundle[task[t].conn]],
                  [task[t] EXCEPT !.at = "done"]} :
        task[t].at = "queued" /\ task' = [task EXCEPT ![t] = r]
  BY DEF LoadBundle
<1>2. bundle[task[t].conn] \in Bundles
  BY Parts DEF IInv, TypeOK
<1>3. /\ r \in TaskRecord /\ r.at \in {"loaded", "done"} /\ r.dirty = {}
      /\ r.conn = task[t].conn
  <2>1. CASE r = [task[t] EXCEPT !.at = "done"]
    BY <1>1, <2>1, Parts DEF IInv, TaskRecord, Stages
  <2>2. CASE r = [task[t] EXCEPT !.at = "loaded", !.saw = bundle[task[t].conn]]
    BY <1>1, <1>2, <2>2, Parts DEF IInv, TaskRecord, Stages
  <2>3. QED
    BY <1>1, <2>1, <2>2
<1>4. TypeOK'
  BY <1>1, <1>3, Becomes DEF IInv, TypeOK, LoadBundle
<1>5. QED
  BY <1>1, <1>3, <1>4, Becomes, QuietStep DEF IInv, LoadBundle

\* A task compares its bundle with rows of its connection.
LEMMA LoadExistingIInv ==
  ASSUME IInv, NEW t \in Tasks, LoadExisting(t)
  PROVE  IInv'
<1> DEFINE loaded == [k \in Tables |->
                        IF index[k].owner = task[t].conn THEN index[k] ELSE NoRow]
           r == [task[t] EXCEPT !.at = "embedding", !.rows = loaded]
<1>1. task[t].at = "loaded" /\ task' = [task EXCEPT ![t] = r]
  BY DEF LoadExisting
<1>2. loaded \in [Tables -> Rows]
  BY DEF IInv, TypeOK, Rows
<1>3. ASSUME NEW k \in Tables
      PROVE  loaded[k] = NoRow \/ InsertedFor(loaded[k], task[t].conn)
  BY DEF IInv, InserterInv
<1> HIDE DEF loaded
<1>4. /\ r \in TaskRecord /\ r.at = "embedding" /\ r.dirty = {}
      /\ r.conn = task[t].conn /\ r.rows = loaded
  BY <1>1, <1>2, Parts DEF IInv, TaskRecord, Stages
<1> HIDE DEF r
<1>5. TypeOK'
  BY <1>1, <1>4, Becomes DEF IInv, TypeOK, LoadExisting
<1>6. task'[t] = r /\ \A u \in Tasks \ {t} : task'[u] = task[u]
  BY <1>1, <1>4, Becomes DEF IInv
<1>7. QED
  BY <1>1, <1>3, <1>4, <1>5, <1>6, QuietStep DEF LoadExisting

\* Embedding keeps what was compared.
LEMMA EmbedIInv ==
  ASSUME IInv, NEW t \in Tasks, Embed(t)
  PROVE  IInv'
<1> DEFINE r == [task[t] EXCEPT !.at = "writing"]
<1>1. task[t].at = "embedding" /\ task' = [task EXCEPT ![t] = r]
  BY DEF Embed
<1>2. /\ r \in TaskRecord /\ r.at = "writing" /\ r.dirty = {}
      /\ r.conn = task[t].conn /\ r.rows = task[t].rows
  BY <1>1, Parts DEF IInv, TaskRecord, Stages
<1> HIDE DEF r
<1>3. TypeOK'
  BY <1>1, <1>2, Becomes DEF IInv, TypeOK, Embed
<1>4. \A k \in Tables : \/ task[t].rows[k] = NoRow
                         \/ InsertedFor(task[t].rows[k], task[t].conn)
  BY <1>1 DEF IInv, LoadedInv
<1>5. task'[t] = r /\ \A u \in Tasks \ {t} : task'[u] = task[u]
  BY <1>1, <1>2, Becomes DEF IInv
<1>6. QED
  BY <1>1, <1>2, <1>3, <1>4, <1>5, QuietStep DEF Embed

\* A run that ends, or is sent again, changes no row.
LEMMA EndsIInv ==
  ASSUME IInv, NEW t \in Tasks, NEW stage \in {"queued", "failed"},
         NEW tries \in 0 .. MaxRetries, Ends(t, stage, tries),
         task[t].at # "idle",
         UNCHANGED <<workers, live, bundle, index, crashes>>
  PROVE  IInv'
<1>1. stage \in Stages \ {"idle", "committing"}
  BY DEF Stages
<1>2. TypeOK'
  BY <1>1, EndsTyped DEF IInv, TypeOK
<1>3. QED
  BY <1>1, <1>2, EndsTyped, QuietStep DEF IInv

\* A failed attempt keeps nothing.
LEMMA TritonFailsIInv ==
  ASSUME IInv, NEW t \in Tasks, TritonFails(t)
  PROVE  IInv'
<1>1. /\ task[t].tries \in 0 .. MaxRetries /\ task[t].at # "idle"
      /\ UNCHANGED <<workers, live, bundle, index, crashes>>
  BY Parts DEF IInv, TritonFails
<1>2. CASE task[t].tries < MaxRetries
  <2>1. task[t].tries + 1 \in 0 .. MaxRetries /\ Ends(t, "queued", task[t].tries + 1)
    BY <1>1, <1>2, IndexAssumption DEF TritonFails
  <2>2. QED
    BY <1>1, <2>1, EndsIInv
<1>3. CASE ~(task[t].tries < MaxRetries)
  <2>1. Ends(t, "failed", task[t].tries)
    BY <1>3 DEF TritonFails
  <2>2. QED
    BY <1>1, <2>1, EndsIInv
<1>4. QED
  BY <1>2, <1>3

\* A statement changes a row only if the row is free or of the task's
\* connection: an UPDATE finds the row it read, since a row is identified by the
\* task that inserted it and that task has one connection.
LEMMA WrittenRow ==
  ASSUME IInv, NEW t \in Tasks, task[t].at = "writing", ~Conflict(t),
         NEW k \in Tables
  PROVE  /\ Written(t)[k] \in Rows
         /\ \/ Written(t)[k] = index[k]
            \/ /\ task[t].conn \in live
               /\ index[k].owner \in {"nobody", task[t].conn}
               /\ \/ Written(t)[k] = NoRow
                  \/ InsertedFor(Written(t)[k], task[t].conn)
<1>1. /\ task[t].conn \in Conns /\ task[t].conn # "nobody"
      /\ task[t].saw[k] \in Versions
  BY Parts, IndexAssumption DEF IInv, Bundles
<1>2. index[k] \in Rows /\ (index[k] # NoRow => index[k].owner \in live)
  BY DEF IInv, TypeOK, OwnersLive
<1>3. CASE k \in Inserts(t)
  <2> DEFINE new == [owner |-> task[t].conn, hash |-> task[t].saw[k], by |-> t]
  <2>1. index[k] = NoRow /\ task[t].conn \in live
    BY <1>3 DEF Conflict
  <2>2. new \in Row /\ new.owner = task[t].conn /\ new.by = t
    BY <1>1, <1>3 DEF Row, Inserts
  <2>3. Written(t)[k] = new
    BY <1>3 DEF Written
  <2> HIDE DEF new
  <2>4. InsertedFor(new, task[t].conn)
    BY <2>2 DEF InsertedFor
  <2>5. QED
    BY <2>1, <2>2, <2>3, <2>4, AbsentRow DEF Rows
<1>4. CASE k \notin Inserts(t) /\ Updated(t, k)
  <2> DEFINE new == [index[k] EXCEPT !.hash = task[t].saw[k]]
  <2>1. /\ InsertedFor(task[t].rows[k], task[t].conn)
        /\ index[k].by = task[t].rows[k].by
        /\ task[t].saw[k] # 0
    BY <1>4 DEF IInv, LoadedInv, Updated, Updates
  <2>2. index[k] # NoRow
    BY <2>1, AbsentRow DEF InsertedFor, Row
  <2>3. InsertedFor(index[k], index[k].owner)
    BY <2>2 DEF IInv, InserterInv
  <2>4. index[k].owner = task[t].conn
    BY <2>1, <2>3 DEF InsertedFor
  <2>5. Written(t)[k] = new
    BY <1>4 DEF Written
  <2>6. new \in Row /\ new.owner = index[k].owner /\ new.by = index[k].by
    BY <1>1, <2>1, <2>3 DEF InsertedFor, Row
  <2> HIDE DEF new
  <2>7. InsertedFor(new, task[t].conn)
    BY <2>3, <2>4, <2>6 DEF InsertedFor
  <2>8. QED
    BY <1>2, <2>2, <2>4, <2>5, <2>6, <2>7 DEF Rows
<1>5. CASE k \notin Inserts(t) /\ ~Updated(t, k)
  <2>1. Written(t)[k] = IF Orphan(t, k) THEN NoRow ELSE index[k]
    BY <1>5 DEF Written
  <2>2. CASE ~Orphan(t, k)
    BY <1>2, <2>1, <2>2
  <2>3. CASE Orphan(t, k)
    <3>1. index[k].owner = task[t].conn /\ index[k] # NoRow
      BY <1>1, <2>3, AbsentRow DEF Orphan
    <3>2. QED
      BY <1>2, <2>1, <2>3, <3>1 DEF Rows
  <2>4. QED
    BY <2>2, <2>3
<1>6. QED
  BY <1>3, <1>4, <1>5

\* The statements take rows no other transaction has written, and hold them.
LEMMA WriteIInv ==
  ASSUME IInv, NEW t \in Tasks, Write(t)
  PROVE  IInv'
<1>1. CASE Conflict(t)
  <2>1. /\ Ends(t, "failed", task[t].tries) /\ task[t].at # "idle"
        /\ UNCHANGED <<workers, live, bundle, index, crashes>>
    BY <1>1 DEF Write
  <2>2. QED
    BY <2>1, Parts, EndsIInv DEF IInv
<1>2. CASE ~Conflict(t)
  <2> DEFINE w == Written(t)
             d == Touched(t)
             r == [task[t] EXCEPT !.at = "committing", !.rows = w, !.dirty = d]
  <2>1. task[t].at = "writing" /\ task' = [task EXCEPT ![t] = r]
    BY <1>2 DEF Write
  <2>2. /\ \A k \in Tables : w[k] \in Rows
        /\ \A k \in d :
             /\ task[t].conn \in live
             /\ index[k].owner \in {"nobody", task[t].conn}
             /\ w[k] = NoRow \/ InsertedFor(w[k], task[t].conn)
    BY <1>2, <2>1, WrittenRow DEF Touched
  <2>3. w \in [Tables -> Rows] /\ d \in SUBSET Tables
    BY <2>2 DEF Written, Touched
  <2>4. \A u \in Tasks : d \cap task[u].dirty = {}
    BY DEF Write
  <2>5. UNCHANGED <<workers, live, bundle, index, crashes>>
    BY DEF Write
  <2> HIDE DEF w, d
  <2>6. /\ r \in TaskRecord /\ r.at = "committing" /\ r.dirty = d
        /\ r.conn = task[t].conn /\ r.rows = w
    BY <2>1, <2>3, Parts DEF IInv, TaskRecord, Stages
  <2> HIDE DEF r
  <2>7. TypeOK'
    BY <2>1, <2>5, <2>6, Becomes DEF IInv, TypeOK
  <2>8. task'[t] = r /\ \A u \in Tasks \ {t} : task'[u] = task[u]
    BY <2>1, <2>6, Becomes DEF IInv
  <2>9. Steady
    BY <2>6, <2>8 DEF Steady
  <2>10. OwnersLive'
    BY <2>5 DEF IInv, OwnersLive
  <2>11. InserterInv'
    BY <2>5, <2>9 DEF IInv, InserterInv, InsertedFor, Steady, Row
  <2>12. LoadedInv'
    BY <2>6, <2>8, <2>9 DEF IInv, LoadedInv, InsertedFor, Steady, Row
  <2>13. HeldInv'
    <3>1. ASSUME NEW u \in Tasks, NEW k \in task'[u].dirty
          PROVE  /\ task'[u].conn \in live'
                 /\ index'[k].owner \in {"nobody", task'[u].conn}
                 /\ \/ task'[u].rows[k] = NoRow
                    \/ InsertedFor(task'[u].rows[k], task'[u].conn)
      <4>1. CASE u = t
        BY <3>1, <4>1, <2>2, <2>5, <2>6, <2>8
      <4>2. CASE u # t
        BY <3>1, <4>2, <2>5, <2>8 DEF IInv, HeldInv
      <4>3. QED
        BY <4>1, <4>2
    <3>2. ASSUME NEW u \in Tasks, NEW k \in task'[u].dirty
          PROVE  (task[u].rows[k] = NoRow \/ InsertedFor(task[u].rows[k], task[u].conn))'
      BY <3>1, <3>2, <2>9 DEF InsertedFor, Steady, Row
    <3>3. ASSUME NEW u \in Tasks, NEW v \in Tasks, u # v
          PROVE  task'[u].dirty \cap task'[v].dirty = {}
      BY <3>3, <2>4, <2>6, <2>8 DEF IInv, HeldInv
    <3>4. QED
      BY <3>1, <3>2, <3>3 DEF HeldInv
  <2>14. QED
    BY <2>7, <2>10, <2>11, <2>12, <2>13 DEF IInv
<1>3. QED
  BY <1>1, <1>2

\* A commit writes rows of a connection that is still there.
LEMMA CommitIInv ==
  ASSUME IInv, NEW t \in Tasks, Commit(t)
  PROVE  IInv'
<1>1. /\ task[t].at = "committing" /\ Ends(t, "done", task[t].tries)
      /\ UNCHANGED <<workers, live, bundle, crashes>>
      /\ index' = [k \in Tables |->
                     IF k \in task[t].dirty THEN task[t].rows[k] ELSE index[k]]
  BY DEF Commit
<1>2. "done" \in Stages \ {"idle", "committing"}
  BY DEF Stages
<1>3. /\ task' \in [Tasks -> TaskRecord]
      /\ \A u \in Tasks \ {t} : task'[u] = task[u]
      /\ task'[t].at = "done" /\ task'[t].dirty = {}
      /\ task'[t].conn = task[t].conn
      /\ \A u \in Tasks : task'[u].dirty # {} => task'[u].at = "committing"
  BY <1>1, <1>2, Parts, EndsTyped DEF IInv
<1>4. index' \in [Tables -> Rows]
  BY <1>1, Parts DEF IInv, TypeOK
<1>5. TypeOK'
  BY <1>1, <1>3, <1>4 DEF IInv, TypeOK
<1>6. Steady
  BY <1>1, <1>3 DEF Steady
<1>7. ASSUME NEW k \in Tables
      PROVE  \/ index'[k] = NoRow
             \/ /\ index'[k].owner \in live
                /\ InsertedFor(index'[k], index'[k].owner)
  <2>1. CASE k \in task[t].dirty
    BY <1>1, <2>1 DEF IInv, HeldInv, InsertedFor
  <2>2. CASE k \notin task[t].dirty
    BY <1>1, <2>2 DEF IInv, OwnersLive, InserterInv
  <2>3. QED
    BY <2>1, <2>2
<1>8. OwnersLive'
  BY <1>1, <1>7 DEF OwnersLive
<1>9. InserterInv'
  BY <1>6, <1>7 DEF InserterInv, InsertedFor, Steady, Row
<1>10. LoadedInv'
  BY <1>3, <1>6 DEF IInv, LoadedInv, InsertedFor, Steady, Row
<1>11. HeldInv'
  <2>1. ASSUME NEW u \in Tasks, NEW k \in task'[u].dirty
        PROVE  /\ (task[u].conn \in live)'
               /\ (index[k].owner \in {"nobody", task[u].conn})'
               /\ (\/ task[u].rows[k] = NoRow
                   \/ InsertedFor(task[u].rows[k], task[u].conn))'
    <3>1. u # t /\ task'[u] = task[u]
      BY <2>1, <1>3
    <3>2. k \in Tables /\ k \notin task[t].dirty
      BY <2>1, <3>1, Parts DEF IInv, HeldInv
    <3>3. index'[k] = index[k]
      BY <1>1, <3>2
    <3>4. QED
      BY <2>1, <3>1, <3>3, <1>1, <1>6 DEF IInv, HeldInv, InsertedFor, Steady, Row
  <2>2. ASSUME NEW u \in Tasks, NEW v \in Tasks, u # v
        PROVE  task'[u].dirty \cap task'[v].dirty = {}
    BY <2>2, <1>3 DEF IInv, HeldInv
  <2>3. QED
    BY <2>1, <2>2 DEF HeldInv
<1>12. QED
  BY <1>5, <1>8, <1>9, <1>10, <1>11 DEF IInv

\* A deletion takes the rows with it, and no open transaction holds any.
LEMMA DeleteConnectionIInv ==
  ASSUME IInv, NEW c \in Conns, DeleteConnection(c)
  PROVE  IInv'
<1>1. /\ c \in live /\ live' = live \ {c}
      /\ \A u \in Tasks : task[u].dirty # {} => task[u].conn # c
      /\ index' = [k \in Tables |->
                     IF index[k].owner = c THEN NoRow ELSE index[k]]
      /\ UNCHANGED <<workers, task, crashes>>
  BY DEF IInv, TypeOK, DeleteConnection
<1>2. Empty \in Bundles
  BY IndexAssumption DEF Empty, Bundles, Versions
<1>3. bundle' \in [Conns -> Bundles] /\ index' \in [Tables -> Rows]
  BY <1>1, <1>2 DEF IInv, TypeOK, DeleteConnection, Rows
<1>4. TypeOK'
  BY <1>1, <1>3 DEF IInv, TypeOK
<1>5. OwnersLive'
  BY <1>1 DEF IInv, OwnersLive
<1>6. InserterInv'
  BY <1>1 DEF IInv, InserterInv, InsertedFor
<1>7. LoadedInv'
  BY <1>1 DEF IInv, LoadedInv, InsertedFor
<1>8. HeldInv'
  <2>1. ASSUME NEW u \in Tasks, NEW k \in task[u].dirty
        PROVE  /\ task[u].conn \in live'
               /\ index'[k].owner \in {"nobody", task[u].conn}
    <3>1. k \in Tables
      BY <2>1, Parts DEF IInv
    <3>2. QED
      BY <1>1, <2>1, <3>1, AbsentRow DEF IInv, HeldInv
  <2>2. QED
    BY <1>1, <2>1, SMTT(30) DEF IInv, HeldInv, InsertedFor
<1>9. QED
  BY <1>4, <1>5, <1>6, <1>7, <1>8 DEF IInv

-----------------------------------------------------------------------------
(* The theorems *)

\* Every step keeps IInv.
LEMMA NextIInv == IInv /\ [Next]_vars => IInv'
<1> SUFFICES ASSUME IInv, [Next]_vars PROVE IInv'
  OBVIOUS
<1>1. ASSUME NEW t \in Tasks, IndexStep(t) \/ Crash(t)
      PROVE  IInv'
  BY <1>1, RequestIndexIInv, LoadBundleIInv, LoadExistingIInv, EmbedIInv,
     TritonFailsIInv, WriteIInv, CommitIInv, CrashIInv
     DEF IndexStep
<1>2. ASSUME NEW t \in Tasks, NEW c \in Conns, StoreBundle(t, c)
      PROVE  IInv'
  BY <1>2, StoreBundleIInv
<1>3. ASSUME NEW c \in Conns, DeleteConnection(c)
      PROVE  IInv'
  BY <1>3, DeleteConnectionIInv
<1>4. CASE UNCHANGED vars
  BY <1>4 DEF vars, IInv, TypeOK, OwnersLive, InserterInv, LoadedInv, HeldInv,
              InsertedFor
<1>5. QED
  BY <1>1, <1>2, <1>3, <1>4 DEF Next

\* The inductive invariant holds throughout.
THEOREM Invariance == Spec => []IInv
  BY InitIInv, NextIInv, PTL DEF Spec

\* Every variable keeps to its states, and a task holds locks only while its
\* transaction is open.
THEOREM TypeCorrect == Spec => []TypeOK
<1>1. IInv => TypeOK
  BY DEF IInv
<1>2. QED
  BY <1>1, Invariance, PTL

\* No chunk of a deleted connection is ever in the index, for any number of
\* overlapping tasks, deletions and crashes.
THEOREM OwnersStayLive == Spec => []OwnersLive
<1>1. IInv => OwnersLive
  BY DEF IInv
<1>2. QED
  BY <1>1, Invariance, PTL

\* The two together, as the run checks them.
THEOREM IndexIsSound == Spec => []IndexSound
<1>1. IInv => IndexSound
  BY DEF IInv, IndexSound
<1>2. QED
  BY <1>1, Invariance, PTL

\* No task changes or removes a row of another connection, or gives a row to
\* one, however stale the rows it compared.
THEOREM RowsKeepOwner == Spec => OwnerKept
<1> DEFINE Kept ==
      \A k \in Tables :
        index[k] # NoRow /\ index'[k] # index[k] =>
          \/ index[k].owner \notin live'
          \/ \E t \in Tasks : /\ task[t].at = "committing" /\ task'[t].at = "done"
                              /\ task[t].conn = index[k].owner
                              /\ index'[k].owner \in {index[k].owner, "nobody"}
<1>1. IInv /\ [Next]_vars => [Kept]_vars
  <2> SUFFICES ASSUME IInv, Next, NEW k \in Tables,
                      index[k] # NoRow, index'[k] # index[k]
               PROVE  \/ index[k].owner \notin live'
                      \/ \E t \in Tasks :
                           /\ task[t].at = "committing" /\ task'[t].at = "done"
                           /\ task[t].conn = index[k].owner
                           /\ index'[k].owner \in {index[k].owner, "nobody"}
    OBVIOUS
  <2>1. index[k].owner # "nobody"
    BY RowFacts DEF IInv, TypeOK
  <2>2. ASSUME NEW t \in Tasks, Commit(t)
        PROVE  /\ task[t].at = "committing" /\ task'[t].at = "done"
               /\ task[t].conn = index[k].owner
               /\ index'[k].owner \in {index[k].owner, "nobody"}
    <3>1. k \in task[t].dirty /\ index'[k] = task[t].rows[k]
      BY <2>2 DEF Commit
    <3>2. /\ index[k].owner = task[t].conn
          /\ index'[k].owner \in {task[t].conn, "nobody"}
      BY <2>1, <3>1, AbsentRow DEF IInv, HeldInv, InsertedFor
    <3>3. task[t].at = "committing" /\ task'[t].at = "done"
      BY <2>2, EndsTyped, Parts DEF IInv, Commit, Stages
    <3>4. QED
      BY <3>2, <3>3
  <2>3. ASSUME NEW c \in Conns, DeleteConnection(c)
        PROVE  index[k].owner \notin live'
    BY <2>3 DEF DeleteConnection
  <2>4. (\E t \in Tasks : Commit(t)) \/ (\E c \in Conns : DeleteConnection(c))
    BY DEF Next, IndexStep, StoreBundle, RequestIndex, LoadBundle, LoadExisting,
           Embed, TritonFails, Write, Crash
  <2>5. QED
    BY <2>2, <2>3, <2>4
<1>2. QED
  BY <1>1, Invariance, PTL DEF Spec, OwnerKept

-----------------------------------------------------------------------------
(* One worker process *)

\* A task is under way, or waits for its turn.
Flight(t) == task[t].at \in {"loaded", "embedding", "writing", "committing"}
Waits(t) == task[t].at \in {"stored", "queued"}

\* Row r is what a bundle with version v of its table asks for.
Fits(r, c, v) == IF v = 0 THEN r.owner # c ELSE r.owner = c /\ r.hash = v

\* A task compares the rows its connection has, and commits what its bundle asks for.
ReadInv(t) ==
  task[t].at \in {"embedding", "writing"} /\ task[t].conn \in live =>
    \A k \in Tables : task[t].rows[k] =
      IF index[k].owner = task[t].conn THEN index[k] ELSE NoRow
WriteInv(t) ==
  task[t].at = "committing" /\ task[t].conn \in live =>
    \A k \in Tables :
      Fits(IF k \in task[t].dirty THEN task[t].rows[k] ELSE index[k],
           task[t].conn, task[t].saw[k])

\* Until a task of c fails: one is to come, or the one under way has the newest
\* bundle, or none is under way and the index is the bundle.
Good(c) == \A t \in Tasks : task[t].conn = c => task[t].at \notin {"failed", "lost"}
UpToDate(c) ==
  \/ \E t \in Tasks : task[t].conn = c /\ Waits(t)
  \/ \E t \in Tasks : task[t].conn = c /\ Flight(t) /\ task[t].saw = bundle[c]
  \/ /\ \A t \in Tasks : task[t].conn = c => ~Flight(t)
     /\ \A k \in Tables : Fits(index[k], c, bundle[c][k])

OneInv ==
  workers = 1 =>
    /\ \A t, u \in Tasks : Flight(t) /\ Flight(u) => t = u
    /\ \A t \in Tasks : ReadInv(t) /\ WriteInv(t)
    /\ \A c \in live : Good(c) => UpToDate(c)

LEMMA InitOneInv == Init => OneInv
<1> SUFFICES ASSUME Init PROVE OneInv
  OBVIOUS
<1>1. \A t \in Tasks : task[t].at = "idle"
  BY DEF Init
<1>2. \A c \in live, k \in Tables : Fits(index[k], c, bundle[c][k])
  BY IndexAssumption DEF Init, Fits, Bare, Empty, NoRow
<1>3. QED
  BY <1>1, <1>2 DEF OneInv, Flight, ReadInv, WriteInv, UpToDate

\* A task that starts finds no other under way.
LEMMA FreeWorker ==
  ASSUME TypeOK, workers = 1, Busy < workers
  PROVE  \A u \in Tasks : ~Flight(u)
<1> DEFINE busy == {t \in Tasks :
              task[t].at \in {"loaded", "embedding", "writing", "committing"}}
<1>1. IsFiniteSet(Tasks)
  BY FS_Interval, IndexAssumption DEF Tasks
<1>2. IsFiniteSet(busy) /\ Cardinality(busy) \in Nat
  BY <1>1, FS_Subset, FS_CardinalityType
<1>3. Cardinality(busy) = 0
  BY <1>2 DEF Busy
<1>4. busy = {}
  BY <1>2, <1>3, FS_EmptySet
<1>5. QED
  BY <1>4 DEF Flight

\* A step of one task that changes no row and no bundle: the task takes a turn with
\* the newest bundle, goes on with the one it has, waits again, or fails.
LEMMA QuietOneInv ==
  ASSUME IInv, OneInv, workers = 1, NEW t \in Tasks,
         UNCHANGED <<workers, live, bundle, index>>,
         \A u \in Tasks \ {t} : task'[u] = task[u],
         task'[t].conn = task[t].conn, task[t].at \notin {"failed", "lost"},
         Flight(t)' => Flight(t) \/ \A u \in Tasks : ~Flight(u),
         ReadInv(t)', WriteInv(t)',
         \/ Waits(t)'
         \/ Flight(t)' /\ task'[t].saw = bundle[task[t].conn]
         \/ Flight(t) /\ Flight(t)' /\ task'[t].saw = task[t].saw
         \/ task'[t].at \in {"failed", "lost"}
         \/ task[t].conn \notin live
  PROVE  OneInv'
<1>1. ASSUME NEW u \in Tasks, u # t
      PROVE  /\ Flight(u)' <=> Flight(u)
             /\ Waits(u)' <=> Waits(u)
             /\ ReadInv(u)' /\ WriteInv(u)'
  <2>1. task'[u] = task[u]
    BY <1>1
  <2>2. ReadInv(u) /\ WriteInv(u)
    BY DEF OneInv
  <2>3. QED
    BY <2>1, <2>2 DEF Flight, Waits, ReadInv, WriteInv, Fits
<1>2. \A u, v \in Tasks : Flight(u)' /\ Flight(v)' => u = v
  BY <1>1 DEF OneInv
<1>3. ASSUME NEW c \in live, Good(c)'
      PROVE  UpToDate(c)'
  <2>1. Good(c)
    BY <1>3 DEF Good
  <2>2. UpToDate(c)
    BY <2>1 DEF OneInv
  <2>3. CASE c # task[t].conn
    <3>1. \A u \in Tasks : task'[u].conn = c => u # t /\ task[u].conn = c
      BY <2>3
    <3>2. \A u \in Tasks : task[u].conn = c => u # t /\ task'[u] = task[u]
      BY <2>3
    <3>3. QED
      BY <1>1, <2>2, <3>1, <3>2 DEF UpToDate
  <2>4. CASE c = task[t].conn
    <3>1. CASE Waits(t)'
      BY <2>4, <3>1 DEF UpToDate
    <3>2. CASE Flight(t)' /\ task'[t].saw = bundle[task[t].conn]
      BY <2>4, <3>2 DEF UpToDate
    <3>3. CASE Flight(t) /\ Flight(t)' /\ task'[t].saw = task[t].saw
      <4>1. CASE \E u \in Tasks : task[u].conn = c /\ Waits(u)
        <5>1. PICK u \in Tasks : task[u].conn = c /\ Waits(u)
          BY <4>1
        <5>2. u # t
          BY <3>3, <5>1 DEF Flight, Waits
        <5>3. QED
          BY <1>1, <5>1, <5>2 DEF UpToDate
      <4>2. CASE \E u \in Tasks : task[u].conn = c /\ Flight(u) /\ task[u].saw = bundle[c]
        BY <2>4, <3>3, <4>2 DEF OneInv, UpToDate
      <4>3. QED
        BY <2>2, <2>4, <3>3, <4>1, <4>2 DEF UpToDate
    <3>4. ~(task'[t].at \in {"failed", "lost"})
      BY <1>3, <2>4 DEF Good
    <3>5. QED
      BY <2>4, <3>1, <3>2, <3>3, <3>4
  <2>5. QED
    BY <2>3, <2>4
<1>4. QED
  BY <1>1, <1>2, <1>3 DEF OneInv

\* A task that waits, ends or fails has nothing to compare and nothing to commit.
LEMMA NothingHeld ==
  ASSUME NEW t \in Tasks, task'[t].at \notin {"embedding", "writing", "committing"}
  PROVE  ReadInv(t)' /\ WriteInv(t)'
BY DEF ReadInv, WriteInv

\* A run of a task that ends, or that is sent again.
LEMMA EndsOneInv ==
  ASSUME IInv, OneInv, workers = 1, NEW t \in Tasks,
         NEW stage \in {"queued", "failed", "lost"}, NEW tries \in 0 .. MaxRetries,
         Ends(t, stage, tries), task[t].at \notin {"failed", "lost"},
         UNCHANGED <<workers, live, bundle, index>>
  PROVE  OneInv'
<1>1. stage \in Stages \ {"idle", "committing"}
  BY DEF Stages
<1>2. /\ \A u \in Tasks \ {t} : task'[u] = task[u]
      /\ task'[t].at = stage /\ task'[t].conn = task[t].conn
  BY <1>1, EndsTyped DEF IInv
<1>3. QED
  BY <1>2, NothingHeld, QuietOneInv DEF Flight, Waits

LEMMA LoadsOneInv ==
  ASSUME IInv, OneInv, workers = 1, NEW t \in Tasks,
         RequestIndex(t) \/ LoadBundle(t) \/ LoadExisting(t) \/ Embed(t)
  PROVE  OneInv'
<1>1. /\ task[t] \in TaskRecord /\ task \in [Tasks -> TaskRecord]
      /\ UNCHANGED <<workers, live, bundle, index>>
  BY Parts DEF IInv, TypeOK, RequestIndex, LoadBundle, LoadExisting, Embed
<1>2. CASE RequestIndex(t)
  <2>1. /\ task[t].at = "stored" /\ task'[t].at = "queued"
        /\ task'[t].conn = task[t].conn
        /\ \A u \in Tasks \ {t} : task'[u] = task[u]
    BY <1>1, <1>2 DEF RequestIndex, TaskRecord
  <2>2. QED
    BY <1>1, <2>1, NothingHeld, QuietOneInv DEF Flight, Waits
<1>3. CASE LoadBundle(t)
  <2>1. /\ task[t].at = "queued" /\ \A u \in Tasks : ~Flight(u)
    BY <1>3, FreeWorker DEF LoadBundle, IInv
  <2>2. CASE task[t].conn \in live
    <3>1. /\ task'[t].at = "loaded" /\ task'[t].conn = task[t].conn
          /\ task'[t].saw = bundle[task[t].conn]
          /\ \A u \in Tasks \ {t} : task'[u] = task[u]
      BY <1>1, <1>3, <2>2 DEF LoadBundle, TaskRecord
    <3>2. QED
      BY <1>1, <2>1, <3>1, NothingHeld, QuietOneInv DEF Flight
  <2>3. CASE task[t].conn \notin live
    <3>1. /\ task'[t].at = "done" /\ task'[t].conn = task[t].conn
          /\ \A u \in Tasks \ {t} : task'[u] = task[u]
      BY <1>1, <1>3, <2>3 DEF LoadBundle, TaskRecord
    <3>2. QED
      BY <1>1, <2>1, <2>3, <3>1, NothingHeld, QuietOneInv DEF Flight
  <2>4. QED
    BY <2>2, <2>3
<1>4. CASE LoadExisting(t)
  <2>1. /\ task[t].at = "loaded" /\ task'[t].at = "embedding"
        /\ task'[t].conn = task[t].conn /\ task'[t].saw = task[t].saw
        /\ task'[t].rows = [k \in Tables |->
              IF index[k].owner = task[t].conn THEN index[k] ELSE NoRow]
        /\ \A u \in Tasks \ {t} : task'[u] = task[u]
    BY <1>1, <1>4 DEF LoadExisting, TaskRecord
  <2>2. ReadInv(t)' /\ WriteInv(t)'
    BY <1>1, <2>1 DEF ReadInv, WriteInv
  <2>3. QED
    BY <1>1, <2>1, <2>2, QuietOneInv DEF Flight
<1>5. CASE Embed(t)
  <2>1. /\ task[t].at = "embedding" /\ task'[t].at = "writing"
        /\ task'[t].conn = task[t].conn /\ task'[t].saw = task[t].saw
        /\ task'[t].rows = task[t].rows
        /\ \A u \in Tasks \ {t} : task'[u] = task[u]
    BY <1>1, <1>5 DEF Embed, TaskRecord
  <2>2. ReadInv(t)' /\ WriteInv(t)'
    BY <1>1, <2>1 DEF ReadInv, WriteInv, OneInv
  <2>3. QED
    BY <1>1, <2>1, <2>2, QuietOneInv DEF Flight
<1>6. QED
  BY <1>2, <1>3, <1>4, <1>5

\* What the statements leave is what the bundle asks for: inserts fill the free names,
\* updates find the rows that were read, and the rest of the connection's rows go.
LEMMA WrittenFits ==
  ASSUME IInv, OneInv, workers = 1, NEW t \in Tasks, task[t].at = "writing",
         task[t].conn \in live, NEW k \in Tables
  PROVE  Fits(Written(t)[k], task[t].conn, task[t].saw[k])
<1>1. /\ task[t].conn \in Conns /\ task[t].conn # "nobody"
      /\ NoRow.owner = "nobody"
  BY Parts, IndexAssumption DEF IInv, NoRow
<1>2. /\ task[t].rows[k] = IF index[k].owner = task[t].conn THEN index[k] ELSE NoRow
      /\ index[k] \in Rows
  BY DEF OneInv, ReadInv, IInv, TypeOK
<1>3. CASE k \in Inserts(t)
  <2>1. Written(t)[k] = [owner |-> task[t].conn, hash |-> task[t].saw[k], by |-> t]
    BY <1>3 DEF Written
  <2>2. QED
    BY <1>3, <2>1 DEF Fits, Inserts
<1>4. CASE k \notin Inserts(t) /\ Updated(t, k)
  <2>1. Written(t)[k] = [index[k] EXCEPT !.hash = task[t].saw[k]]
    BY <1>4 DEF Written
  <2>2. index[k].owner = task[t].conn /\ index[k] \in Row /\ task[t].saw[k] # 0
    BY <1>1, <1>2, <1>4, RowFacts DEF Updated, Updates
  <2>3. QED
    BY <2>1, <2>2 DEF Fits, Row
<1>5. CASE k \notin Inserts(t) /\ ~Updated(t, k)
  <2>1. Written(t)[k] = IF Orphan(t, k) THEN NoRow ELSE index[k]
    BY <1>5 DEF Written
  <2>2. CASE task[t].saw[k] = 0
    BY <1>1, <2>1, <2>2 DEF Fits, Orphan
  <2>3. CASE task[t].saw[k] # 0
    <3>1. Written(t)[k] = index[k] /\ task[t].rows[k] # NoRow
      BY <1>5, <2>1, <2>3 DEF Orphan, Inserts
    <3>2. index[k].owner = task[t].conn /\ task[t].rows[k] = index[k]
      BY <1>2, <3>1
    <3>3. index[k].hash = task[t].saw[k]
      BY <1>5, <2>3, <3>1, <3>2 DEF Updated, Updates
    <3>4. QED
      BY <2>3, <3>1, <3>2, <3>3 DEF Fits
  <2>4. QED
    BY <2>2, <2>3
<1>6. QED
  BY <1>3, <1>4, <1>5

LEMMA WriteOneInv ==
  ASSUME IInv, OneInv, workers = 1, NEW t \in Tasks, Write(t)
  PROVE  OneInv'
<1>1. /\ task[t].at = "writing" /\ task[t] \in TaskRecord
      /\ task \in [Tasks -> TaskRecord] /\ task[t].tries \in 0 .. MaxRetries
      /\ UNCHANGED <<workers, live, bundle, index>>
  BY Parts DEF Write, IInv, TypeOK
<1>2. CASE Conflict(t)
  BY <1>1, <1>2, EndsOneInv DEF Write
<1>3. CASE ~Conflict(t)
  <2>1. /\ task'[t].at = "committing"
        /\ task'[t].conn = task[t].conn /\ task'[t].saw = task[t].saw
        /\ task'[t].rows = Written(t) /\ task'[t].dirty = Touched(t)
        /\ \A u \in Tasks \ {t} : task'[u] = task[u]
    BY <1>1, <1>3 DEF Write, TaskRecord
  <2>2. ReadInv(t)'
    BY <2>1 DEF ReadInv
  <2>3. WriteInv(t)'
    <3> SUFFICES ASSUME task[t].conn \in live, NEW k \in Tables
                 PROVE  Fits(IF k \in Touched(t) THEN Written(t)[k] ELSE index[k],
                             task[t].conn, task[t].saw[k])
      BY <1>1, <2>1 DEF WriteInv, Fits
    <3>1. Fits(Written(t)[k], task[t].conn, task[t].saw[k])
      BY <1>1, WrittenFits
    <3>2. k \notin Touched(t) => Written(t)[k] = index[k]
      BY DEF Touched
    <3>3. QED
      BY <3>1, <3>2
  <2>4. QED
    BY <1>1, <2>1, <2>2, <2>3, QuietOneInv DEF Flight
<1>4. QED
  BY <1>2, <1>3

\* A commit brings the index of its connection to the bundle the task read, and
\* leaves those of the others alone.
LEMMA CommitOneInv ==
  ASSUME IInv, OneInv, workers = 1, NEW t \in Tasks, Commit(t)
  PROVE  OneInv'
<1> DEFINE d == task[t].conn
<1>1. /\ task[t].at = "committing" /\ Flight(t) /\ d \in Conns
      /\ UNCHANGED <<workers, live, bundle>>
      /\ index' = [k \in Tables |->
                     IF k \in task[t].dirty THEN task[t].rows[k] ELSE index[k]]
      /\ task[t].tries \in 0 .. MaxRetries /\ Ends(t, "done", task[t].tries)
  BY Parts DEF Commit, Flight, IInv
<1>2. "done" \in Stages \ {"idle", "committing"}
  BY DEF Stages
<1>3. /\ \A u \in Tasks \ {t} : task'[u] = task[u]
      /\ task'[t].at = "done" /\ task'[t].conn = d
  BY <1>1, <1>2, EndsTyped DEF IInv
<1>4. \A u \in Tasks \ {t} : ~Flight(u)
  BY <1>1 DEF OneInv
<1>5. \A u \in Tasks : ~Flight(u)'
  BY <1>3, <1>4 DEF Flight
<1>6. \A u \in Tasks : ReadInv(u)' /\ WriteInv(u)'
  BY <1>5 DEF Flight, ReadInv, WriteInv
<1>7. ASSUME NEW c \in live, Good(c)'
      PROVE  UpToDate(c)'
  <2>1. Good(c)
    BY <1>1, <1>3, <1>7 DEF Good
  <2>2. UpToDate(c)
    BY <2>1 DEF OneInv
  <2>3. CASE \E u \in Tasks : task[u].conn = c /\ Waits(u)
    <3>1. PICK u \in Tasks : task[u].conn = c /\ Waits(u)
      BY <2>3
    <3>2. u # t
      BY <1>1, <3>1 DEF Waits
    <3>3. QED
      BY <1>3, <3>1, <3>2 DEF UpToDate, Waits
  <2>4. CASE \E u \in Tasks : task[u].conn = c /\ Flight(u) /\ task[u].saw = bundle[c]
    <3>1. d = c /\ task[t].saw = bundle[c]
      BY <1>4, <2>4
    <3>2. \A k \in Tables : Fits(index'[k], c, bundle[c][k])
      BY <1>1, <3>1 DEF OneInv, WriteInv
    <3>3. QED
      BY <1>1, <1>5, <3>2 DEF UpToDate, Fits
  <2>5. CASE /\ \A u \in Tasks : task[u].conn = c => ~Flight(u)
             /\ \A k \in Tables : Fits(index[k], c, bundle[c][k])
    <3>1. d # c /\ c \in Conns /\ c # "nobody"
      BY <1>1, <2>5, IndexAssumption DEF IInv, TypeOK
    <3>2. ASSUME NEW k \in Tables PROVE Fits(index'[k], c, bundle[c][k])
      <4>1. CASE k \notin task[t].dirty
        BY <1>1, <2>5, <4>1 DEF Fits
      <4>2. CASE k \in task[t].dirty
        <5>1. /\ index[k].owner \in {"nobody", d}
              /\ task[t].rows[k] = NoRow \/ InsertedFor(task[t].rows[k], d)
          BY <4>2 DEF IInv, HeldInv
        <5>2. task[t].rows[k].owner \in {"nobody", d}
          BY <5>1, AbsentRow DEF InsertedFor
        <5>3. bundle[c][k] = 0
          BY <2>5, <3>1, <5>1 DEF Fits
        <5>4. QED
          BY <1>1, <3>1, <4>2, <5>2, <5>3 DEF Fits
      <4>3. QED
        BY <4>1, <4>2
    <3>3. QED
      BY <1>1, <1>5, <3>2 DEF UpToDate, Fits
  <2>6. QED
    BY <2>2, <2>3, <2>4, <2>5 DEF UpToDate
<1>8. QED
  BY <1>1, <1>5, <1>6, <1>7 DEF OneInv

\* A new bundle comes with a task that will read it.
LEMMA StoreOneInv ==
  ASSUME IInv, OneInv, workers = 1, NEW t \in Tasks, NEW c \in Conns,
         StoreBundle(t, c)
  PROVE  OneInv'
<1>1. /\ task[t].at = "idle" /\ task \in [Tasks -> TaskRecord]
      /\ UNCHANGED <<workers, live, index>>
      /\ \A e \in Conns \ {c} : bundle'[e] = bundle[e]
  BY DEF StoreBundle, Fresh, IInv, TypeOK
<1>2. /\ task'[t].at = "stored" /\ task'[t].conn = c
      /\ \A u \in Tasks \ {t} : task'[u] = task[u]
  BY <1>1 DEF StoreBundle, TaskRecord
<1>3. \A u \in Tasks : /\ Flight(u)' <=> Flight(u)
                       /\ ReadInv(u)' /\ WriteInv(u)'
  <2>1. ~Flight(t) /\ ~Flight(t)' /\ ReadInv(t)' /\ WriteInv(t)'
    BY <1>1, <1>2 DEF Flight, ReadInv, WriteInv
  <2>2. ASSUME NEW u \in Tasks, u # t
        PROVE  (Flight(u)' <=> Flight(u)) /\ ReadInv(u)' /\ WriteInv(u)'
    <3>1. ReadInv(u) /\ WriteInv(u) /\ task'[u] = task[u]
      BY <1>2, <2>2 DEF OneInv
    <3>2. QED
      BY <1>1, <3>1 DEF Flight, ReadInv, WriteInv, Fits
  <2>3. QED
    BY <2>1, <2>2
<1>4. ASSUME NEW e \in live, Good(e)'
      PROVE  UpToDate(e)'
  <2>1. CASE e = c
    BY <1>2, <2>1 DEF UpToDate, Waits
  <2>2. CASE e # c
    <3>1. Good(e) /\ bundle'[e] = bundle[e]
      BY <1>1, <1>2, <1>4, <2>2 DEF Good, IInv, TypeOK
    <3>2. UpToDate(e)
      BY <3>1 DEF OneInv
    <3>3. \A u \in Tasks : Waits(u) \/ Flight(u) => u # t /\ task'[u] = task[u]
      BY <1>1, <1>2 DEF Waits, Flight
    <3>4. \A u \in Tasks : task'[u].conn = e => u # t /\ task[u].conn = e
      BY <1>2, <2>2
    <3>5. CASE \E u \in Tasks : task[u].conn = e /\ Waits(u)
      BY <3>3, <3>5 DEF UpToDate, Waits
    <3>6. CASE \E u \in Tasks : task[u].conn = e /\ Flight(u) /\ task[u].saw = bundle[e]
      BY <1>3, <3>1, <3>3, <3>6 DEF UpToDate
    <3>7. CASE /\ \A u \in Tasks : task[u].conn = e => ~Flight(u)
               /\ \A k \in Tables : Fits(index[k], e, bundle[e][k])
      BY <1>1, <1>3, <3>1, <3>4, <3>7 DEF UpToDate, Fits
    <3>8. QED
      BY <3>2, <3>5, <3>6, <3>7 DEF UpToDate
  <2>3. QED
    BY <2>1, <2>2
<1>5. QED
  BY <1>1, <1>3, <1>4 DEF OneInv

\* A deletion takes rows that the others neither compare nor ask for.
LEMMA DeleteOneInv ==
  ASSUME IInv, OneInv, workers = 1, NEW c \in Conns, DeleteConnection(c)
  PROVE  OneInv'
<1>1. /\ live' = live \ {c}
      /\ \A e \in Conns \ {c} : bundle'[e] = bundle[e]
      /\ index' = [k \in Tables |->
                     IF index[k].owner = c THEN NoRow ELSE index[k]]
      /\ UNCHANGED <<workers, task>>
  BY DEF DeleteConnection, IInv, TypeOK
<1>2. NoRow.owner = "nobody" /\ live \subseteq Conns /\ "nobody" \notin Conns
  BY IndexAssumption DEF NoRow, IInv, TypeOK
<1>3. ASSUME NEW e \in live', NEW k \in Tables
      PROVE  /\ index'[k].owner = e <=> index[k].owner = e
             /\ index[k].owner = e => index'[k] = index[k]
  BY <1>1, <1>2, <1>3
<1>4. \A t \in Tasks : Flight(t)' <=> Flight(t)
  BY <1>1 DEF Flight
<1>5. ASSUME NEW t \in Tasks PROVE ReadInv(t)' /\ WriteInv(t)'
  <2>1. ReadInv(t) /\ WriteInv(t) /\ task'[t] = task[t]
    BY <1>1 DEF OneInv
  <2>2. ReadInv(t)'
    <3> SUFFICES ASSUME task[t].at \in {"embedding", "writing"},
                        task[t].conn \in live', NEW k \in Tables
                 PROVE  task[t].rows[k] =
                          IF index'[k].owner = task[t].conn THEN index'[k] ELSE NoRow
      BY <2>1 DEF ReadInv
    <3>1. task[t].rows[k] = IF index[k].owner = task[t].conn THEN index[k] ELSE NoRow
      BY <1>1, <2>1 DEF ReadInv
    <3>2. QED
      BY <1>3, <3>1
  <2>3. WriteInv(t)'
    <3> SUFFICES ASSUME task[t].at = "committing", task[t].conn \in live',
                        NEW k \in Tables
                 PROVE  Fits(IF k \in task[t].dirty THEN task[t].rows[k] ELSE index'[k],
                             task[t].conn, task[t].saw[k])
      BY <2>1 DEF WriteInv, Fits
    <3>1. Fits(IF k \in task[t].dirty THEN task[t].rows[k] ELSE index[k],
               task[t].conn, task[t].saw[k])
      BY <1>1, <2>1 DEF WriteInv
    <3>2. QED
      BY <1>3, <3>1 DEF Fits
  <2>4. QED
    BY <2>2, <2>3
<1>6. ASSUME NEW e \in live', Good(e)'
      PROVE  UpToDate(e)'
  <2>1. /\ e \in live /\ e # c /\ bundle'[e] = bundle[e] /\ Good(e)
    BY <1>1, <1>2, <1>6 DEF Good
  <2>2. UpToDate(e)
    BY <2>1 DEF OneInv
  <2>3. (\A k \in Tables : Fits(index[k], e, bundle[e][k]))
          => \A k \in Tables : Fits(index'[k], e, bundle[e][k])
    BY <1>3 DEF Fits
  <2>4. QED
    BY <1>1, <2>1, <2>2, <2>3 DEF UpToDate, Flight, Waits, Fits
<1>7. QED
  BY <1>1, <1>4, <1>5, <1>6 DEF OneInv

LEMMA NextOneInv == IInv /\ OneInv /\ [Next]_vars => OneInv'
<1> SUFFICES ASSUME IInv, OneInv, [Next]_vars, workers' = 1 PROVE OneInv'
  BY DEF OneInv
<1>1. workers = 1
  BY DEF Next, vars, IndexStep, RequestIndex, LoadBundle, LoadExisting, Embed,
         TritonFails, Write, Commit, Crash, StoreBundle, DeleteConnection
<1>2. ASSUME NEW t \in Tasks, TritonFails(t) \/ Crash(t)
      PROVE  OneInv'
  <2>1. /\ task[t].tries \in 0 .. MaxRetries
        /\ task[t].at \notin {"failed", "lost"}
        /\ UNCHANGED <<workers, live, bundle, index>>
    BY <1>2, Parts DEF IInv, TritonFails, Crash
  <2>2. \/ Ends(t, "queued", task[t].tries + 1) /\ task[t].tries < MaxRetries
        \/ Ends(t, "failed", task[t].tries)
        \/ Ends(t, "lost", task[t].tries)
    BY <1>2 DEF TritonFails, Crash
  <2>3. task[t].tries < MaxRetries => task[t].tries + 1 \in 0 .. MaxRetries
    BY <2>1, IndexAssumption
  <2>4. QED
    BY <1>1, <2>1, <2>2, <2>3, EndsOneInv
<1>3. CASE UNCHANGED vars
  BY <1>3 DEF vars, OneInv, Flight, ReadInv, WriteInv, Good, UpToDate, Waits, Fits
<1>4. QED
  BY <1>1, <1>2, <1>3, LoadsOneInv, WriteOneInv, CommitOneInv, StoreOneInv,
     DeleteOneInv DEF Next, IndexStep

\* With one worker process, whatever tasks of whichever connections come in between,
\* the index of a connection is its bundle when no task of it is left and none failed.
THEOREM IndexIsTheBundle == Spec => []IndexFollowsBundle
<1>1. IInv /\ OneInv => IndexFollowsBundle
  <2> SUFFICES ASSUME IInv, OneInv, workers = 1, NEW c \in live, Settled(c)
               PROVE  IndexIsBundle(c)
    BY DEF IndexFollowsBundle
  <2>1. Good(c) /\ \A t \in Tasks : task[t].conn = c => ~Waits(t) /\ ~Flight(t)
    BY DEF Settled, Good, Waits, Flight
  <2>2. \A k \in Tables : Fits(index[k], c, bundle[c][k])
    BY <2>1 DEF OneInv, UpToDate
  <2>3. QED
    BY <2>2 DEF IndexIsBundle, Fits
<1>2. QED
  BY <1>1, Invariance, InitOneInv, NextOneInv, InitIInv, NextIInv, PTL DEF Spec
=============================================================================
