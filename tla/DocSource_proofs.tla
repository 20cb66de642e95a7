--------------------------- MODULE DocSource_proofs ---------------------------
(***************************************************************************)
(* Proofs about DocSource for every number of sources, files, messages,    *)
(* retries and crashes.  With one worker process the promises about a      *)
(* source's chunks rest on the harvest that is under way: it is the only   *)
(* one, its source waits for it, and what it has deleted is all there is.  *)
(* And proofs about DocCrawl, for every source: what a crawl has handed on *)
(* and what it has ahead of it are things apart.                           *)
(***************************************************************************)
EXTENDS DocSource, DocCrawl, SequenceLemmas, FiniteSetTheorems, WellFoundedInduction, TLAPS

RunRecord == [at : Stages, source : Sources, tries : 0 .. MaxRetries,
              saw : Versions, got : SUBSET Names, victims : SUBSET Row]
SourceRecord == [status : Statuses, docs : 0 .. Cardinality(Names)]
ReloadRecord == [at : {"idle", "begun", "loaded"}, wanted : SUBSET Sources]

UnderWay(t) == run[t].at \notin {"free", "queued"}

\* The bounds, and the sources the history variable names.
BoundsOK ==
  /\ crashes \in Nat /\ skips \in Nat /\ crashes + skips <= Faults
  /\ unread \subseteq Sources

\* One worker process has one harvest under way.
SoleInv ==
  workers = 1 => \A t, u \in Runs : UnderWay(t) /\ UnderWay(u) => t = u

\* Its source waits for it unless it is gone; its DELETE took every chunk of the
\* source, and what it has stored is what the source has.
HarvestInv(t) ==
  workers = 1 =>
    /\ UnderWay(t) => src[run[t].source].status \in Gone \cup {"harvesting"}
    /\ run[t].at \in {"waiting", "wiped"} => rows[run[t].source] \subseteq run[t].victims
    /\ run[t].at = "stored" /\ Exists(run[t].source) =>
         rows[run[t].source] = NewRows(t)

\* Where reloads come one at a time, what is watched or about to be watched exists, or
\* went after the sources were read.
WatchInv ==
  MaxReloads = 1 =>
    /\ reload[1].at # "loaded" => \A s \in watched : Exists(s) \/ s \in unread
    /\ reload[1].at = "loaded" =>
         \A s \in reload[1].wanted : Exists(s) \/ s \in unread

IInv ==
  /\ TypeOK /\ OneCrawl /\ ReadyCount /\ WatchInv /\ SoleInv
  /\ \A t \in Runs : HarvestInv(t)

-----------------------------------------------------------------------------
(* Facts about runs, sources and rows *)

LEMMA StartFacts ==
  ASSUME NEW s \in Sources
  PROVE  /\ Idle(s) \in RunRecord /\ Idle(s).at = "free" /\ Idle(s).victims = {}
         /\ Idle(s).source = s
BY DocSourceAssumption DEF Idle, RunRecord, Stages, Versions

\* A harvest that fails keeps its source and its tries.
LEMMA FailFacts ==
  ASSUME TypeOK, NEW t \in Runs, NEW stage \in Stages, Aborts(t, stage)
  PROVE  \E r \in RunRecord :
           /\ run' = [run EXCEPT ![t] = r] /\ r.source = run[t].source
           /\ r.at = stage /\ r.victims = {}
<1> DEFINE free == Idle(run[t].source)
           r == [free EXCEPT !.at = stage, !.tries = run[t].tries]
<1>1. /\ free \in RunRecord /\ free.victims = {} /\ free.source = run[t].source
      /\ run[t].tries \in 0 .. MaxRetries
  BY StartFacts DEF TypeOK
<1>2. run' = [run EXCEPT ![t] = r]
  BY DEF Aborts
<1> HIDE DEF free
<1>3. r \in RunRecord /\ r.source = run[t].source /\ r.at = stage /\ r.victims = {}
  BY <1>1 DEF RunRecord
<1>4. QED BY <1>2, <1>3

\* Replacing the record of a run leaves the others.
LEMMA RunSet ==
  ASSUME TypeOK, NEW t \in Runs, NEW r \in RunRecord,
         r.at \notin {"waiting", "wiped"} => r.victims = {},
         run' = [run EXCEPT ![t] = r]
  PROVE  /\ run' \in [Runs -> RunRecord]
         /\ run'[t] = r
         /\ \A u \in Runs \ {t} : run'[u] = run[u]
         /\ \A u \in Runs : run'[u].at \notin {"waiting", "wiped"} =>
                             run'[u].victims = {}
BY DEF TypeOK, RunRecord

LEMMA SourceSet ==
  ASSUME TypeOK, NEW s \in Sources, NEW e \in SourceRecord,
         src' = [src EXCEPT ![s] = e]
  PROVE  /\ src' \in [Sources -> SourceRecord]
         /\ src'[s] = e
         /\ \A x \in Sources \ {s} : src'[x] = src[x]
BY DEF TypeOK, SourceRecord

\* A step leaves source x, or gives it that status if it exists.
Marked(x, status) ==
  src'[x] # src[x] => Exists(x) /\ src'[x].status = status

LEMMA TypedSources == TypeOK => src \in [Sources -> SourceRecord]
BY DEF TypeOK, SourceRecord

\* So does marking a source as harvesting or in error.
LEMMA StatusSet ==
  ASSUME TypeOK, NEW s \in Sources, NEW status \in Statuses,
         src' = [src EXCEPT ![s].status = status]
  PROVE  /\ src' \in [Sources -> SourceRecord]
         /\ src'[s].status = status
         /\ \A x \in Sources \ {s} : src'[x] = src[x]
<1> DEFINE e == [src[s] EXCEPT !.status = status]
<1>1. e \in SourceRecord /\ e.status = status
  BY DEF TypeOK, SourceRecord
<1>2. src' = [src EXCEPT ![s] = e]
  OBVIOUS
<1> HIDE DEF e
<1>3. QED BY <1>1, <1>2, SourceSet

LEMMA NoneMarked == ASSUME src' = src, NEW status
                    PROVE  \A x \in Sources : Marked(x, status)
BY DEF Marked

LEMMA OneMarked ==
  ASSUME NEW s \in Sources, Exists(s), NEW status, src'[s].status = status,
         \A x \in Sources \ {s} : src'[x] = src[x]
  PROVE  \A x \in Sources : Marked(x, status)
<1> SUFFICES ASSUME NEW x \in Sources, src'[x] # src[x]
             PROVE  Exists(x) /\ src'[x].status = status
  BY DEF Marked
<1>1. x = s
  OBVIOUS
<1>2. QED BY <1>1

LEMMA HarvestingSet ==
  ASSUME TypeOK, NEW s \in Sources, Exists(s),
         src' = [src EXCEPT ![s].status = "harvesting"]
  PROVE  /\ src' \in [Sources -> SourceRecord]
         /\ \A x \in Sources : Marked(x, "harvesting")
         /\ src'[s].status = "harvesting"
<1>1. "harvesting" \in Statuses
  BY DEF Statuses
<1>2. /\ src' \in [Sources -> SourceRecord]
      /\ src'[s].status = "harvesting"
      /\ \A x \in Sources \ {s} : src'[x] = src[x]
  BY <1>1, StatusSet
<1>3. QED BY <1>2, OneMarked

\* The names of a version's files are finitely many.
LEMMA FilesFinite ==
  ASSUME TypeOK, NEW t \in Runs
  PROVE  /\ Files(t) \subseteq Names /\ IsFiniteSet(Files(t))
         /\ Cardinality(Files(t)) \in 0 .. Cardinality(Names)
<1>1. Files(t) \subseteq Names
  BY DocSourceAssumption DEF Files, TypeOK, Versions
<1>2. IsFiniteSet(Files(t)) /\ Cardinality(Files(t)) <= Cardinality(Names)
  BY <1>1, FS_Subset, DocSourceAssumption
<1>3. Cardinality(Files(t)) \in Nat /\ Cardinality(Names) \in Nat
  BY <1>2, FS_CardinalityType, DocSourceAssumption
<1>4. QED BY <1>1, <1>2, <1>3

\* A harvest stores one row for each file.
LEMMA RowForEachFile ==
  ASSUME TypeOK, NEW t \in Runs
  PROVE  NewRows(t) \subseteq Row /\ Cardinality(NewRows(t)) = Cardinality(Files(t))
<1> DEFINE f == [n \in Files(t) |-> [name |-> n, version |-> run[t].saw, by |-> t]]
<1>1. run[t].saw \in Versions
  BY DEF TypeOK
<1>2. NewRows(t) \subseteq Row
  BY <1>1, FilesFinite DEF NewRows, Row
<1>3. f \in Bijection(Files(t), NewRows(t))
  <2>1. f \in [Files(t) -> NewRows(t)]
    BY DEF NewRows
  <2>2. \A a, b \in Files(t) : f[a] = f[b] => a = b
    OBVIOUS
  <2>3. \A y \in NewRows(t) : \E a \in Files(t) : f[a] = y
    BY DEF NewRows
  <2> HIDE DEF f
  <2>4. QED BY <2>1, <2>2, <2>3 DEF Bijection, Injection, Surjection, IsInjective
<1>4. ExistsBijection(Files(t), NewRows(t))
  BY <1>3 DEF ExistsBijection
<1>5. QED BY <1>2, <1>4, FilesFinite, FS_Bijection

-----------------------------------------------------------------------------
(* What most steps leave alone *)

\* Chunks that stay keep what the row and the chunks say of each other, if no source
\* becomes ready.
LEMMA ChunksKept ==
  ASSUME IInv, workers' = workers, rows' = rows,
         \A s \in Sources : src'[s] = src[s] \/ src'[s].status # "ready"
  PROVE  OneCrawl' /\ ReadyCount'
BY DEF IInv, OneCrawl, ReadyCount

\* A reload is not disturbed while no source is deleted.
LEMMA WatchKept ==
  ASSUME IInv, watched' = watched, reload' = reload, unread' = unread,
         \A s \in Sources : Exists(s) => Exists(s)'
  PROVE  WatchInv'
<1>1. /\ watched \subseteq Sources
      /\ MaxReloads = 1 => reload[1].wanted \subseteq Sources
  BY DEF IInv, TypeOK, WatcherTypeOK, Reloads
<1>2. QED BY <1>1 DEF IInv, WatchInv

\* A message that is sent, or not, and a source that is marked as harvesting, leave
\* every harvest as it is.
LEMMA SendKeepsHarvests ==
  ASSUME IInv, workers' = workers, rows' = rows, NEW s \in Sources,
         run' = run \/ (\E t \in Runs : Enqueues(t, s)),
         \A x \in Sources : Marked(x, "harvesting")
  PROVE  /\ run' \in [Runs -> RunRecord]
         /\ \A u \in Runs : run'[u].at \notin {"waiting", "wiped"} =>
                             run'[u].victims = {}
         /\ SoleInv' /\ \A u \in Runs : HarvestInv(u)'
<1>1. /\ run' \in [Runs -> RunRecord]
      /\ \A u \in Runs : run'[u].at \notin {"waiting", "wiped"} =>
                          run'[u].victims = {}
      /\ \A u \in Runs : run'[u] = run[u] \/ run'[u].at = "queued"
  <2>1. CASE run' = run
    BY <2>1 DEF IInv, TypeOK, RunRecord
  <2>2. CASE \E t \in Runs : Enqueues(t, s)
    <3>1. PICK t \in Runs : Enqueues(t, s)
      BY <2>2
    <3> DEFINE r == [Idle(s) EXCEPT !.at = "queued"]
    <3>2. r \in RunRecord /\ r.at = "queued" /\ r.victims = {}
      BY StartFacts DEF RunRecord, Stages
    <3>3. run' = [run EXCEPT ![t] = r]
      BY <3>1 DEF Enqueues
    <3> HIDE DEF r
    <3>4. QED BY <3>2, <3>3, RunSet DEF IInv
  <2>3. QED BY <2>1, <2>2
<1>2. \A u \in Runs : UnderWay(u)' => UnderWay(u) /\ run'[u] = run[u]
  BY <1>1 DEF UnderWay
<1>3. SoleInv'
  BY <1>2 DEF IInv, SoleInv
<1>4. ASSUME NEW u \in Runs PROVE HarvestInv(u)'
  <2>1. CASE UnderWay(u)'
    <3>1. run'[u] = run[u] /\ UnderWay(u) /\ run[u].source \in Sources
      BY <1>2, <2>1 DEF IInv, TypeOK
    <3>2. Exists(run[u].source)' => Exists(run[u].source)
      BY <3>1 DEF Exists, Marked, Gone
    <3>3. NewRows(u)' = NewRows(u)
      BY <3>1 DEF NewRows, Files
    <3>4. QED BY <3>1, <3>2, <3>3 DEF IInv, HarvestInv, Marked
  <2>2. CASE ~UnderWay(u)'
    BY <2>2 DEF HarvestInv, UnderWay
  <2>3. QED BY <2>1, <2>2
<1>5. QED BY <1>1, <1>3, <1>4

\* A step of one harvest is the step of the only one.
LEMMA OneHarvest ==
  ASSUME IInv, workers' = workers, NEW t \in Runs,
         \A u \in Runs \ {t} : run'[u] = run[u],
         workers = 1 => \A u \in Runs \ {t} : ~UnderWay(u),
         HarvestInv(t)'
  PROVE  SoleInv' /\ \A u \in Runs : HarvestInv(u)'
<1>1. SoleInv'
  BY DEF SoleInv, UnderWay
<1>2. ASSUME NEW u \in Runs, u # t PROVE HarvestInv(u)'
  BY <1>2 DEF HarvestInv, UnderWay
<1>3. QED BY <1>1, <1>2

LEMMA AloneUnderWay ==
  ASSUME IInv, NEW t \in Runs, UnderWay(t)
  PROVE  workers = 1 => \A u \in Runs \ {t} : ~UnderWay(u)
BY DEF IInv, SoleInv

\* A worker is free when no harvest is under way.
LEMMA FreeWorker ==
  ASSUME IInv, Busy < workers, workers = 1
  PROVE  \A u \in Runs : ~UnderWay(u)
<1> DEFINE B == {t \in Runs : run[t].at \notin {"free", "queued"}}
<1>1. IsFiniteSet(Runs)
  BY FS_Interval, DocSourceAssumption DEF Runs
<1>2. IsFiniteSet(B) /\ Cardinality(B) \in Nat
  BY <1>1, FS_Subset, FS_CardinalityType
<1>3. Cardinality(B) = 0
  BY <1>2 DEF Busy
<1>4. B = {}
  BY <1>2, <1>3, FS_EmptySet
<1>5. QED BY <1>4 DEF UnderWay

LEMMA InitIInv == Init => IInv
<1> SUFFICES ASSUME Init PROVE IInv
  OBVIOUS
<1> DEFINE first == CHOOSE s \in Sources : TRUE
<1>1. first \in Sources
  BY WatcherAssumption
<1>2. /\ Idle(first) \in RunRecord /\ Idle(first).at = "free" /\ Idle(first).victims = {}
  BY <1>1, StartFacts
<1>3. run = [t \in Runs |-> Idle(first)]
  BY DEF Init
<1> HIDE DEF first
<1>4. WatcherTypeOK
  BY WatcherAssumption
  DEF Init, WatcherInit, WatcherTypeOK, NoReload, TimerStates, Reloads
<1>5. Cardinality(Names) \in Nat
  BY FS_CardinalityType, DocSourceAssumption
<1>6. TypeOK
  BY <1>2, <1>3, <1>4, <1>5, DocSourceAssumption
  DEF Init, TypeOK, Statuses, Gone, Versions, RunRecord
<1>7. OneCrawl /\ ReadyCount
  BY DEF Init, OneCrawl, ReadyCount
<1>8. WatchInv
  BY DEF Init, WatcherInit, WatchInv, NoReload, Reloads
<1>9. SoleInv /\ \A t \in Runs : HarvestInv(t)
  BY <1>2, <1>3 DEF SoleInv, HarvestInv, UnderWay
<1>10. QED BY <1>6, <1>7, <1>8, <1>9 DEF IInv

-----------------------------------------------------------------------------
(* One harvest *)

\* A step of a harvest that writes its run's record only.
LEMMA QuietHarvest ==
  ASSUME IInv, NEW t \in Runs, NEW r \in RunRecord, UnderWay(t),
         UNCHANGED <<watcherVars, workers, src, folder, rows, unread>>, BoundsOK',
         run' = [run EXCEPT ![t] = r],
         r.at \notin {"waiting", "wiped"} => r.victims = {},
         HarvestInv(t)'
  PROVE  IInv'
<1>1. /\ run' \in [Runs -> RunRecord] /\ run'[t] = r
      /\ \A u \in Runs \ {t} : run'[u] = run[u]
      /\ \A u \in Runs : run'[u].at \notin {"waiting", "wiped"} =>
                          run'[u].victims = {}
  BY RunSet DEF IInv
<1>2. /\ watched' = watched /\ timer' = timer /\ stray' = stray /\ reload' = reload
      /\ workers' = workers /\ src' = src /\ folder' = folder /\ rows' = rows
      /\ unread' = unread
  BY DEF watcherVars
<1>3. TypeOK'
  BY <1>1, <1>2 DEF IInv, TypeOK, WatcherTypeOK, RunRecord, BoundsOK
<1>4. OneCrawl' /\ ReadyCount'
  BY <1>2, ChunksKept
<1>5. WatchInv'
  BY <1>2, WatchKept DEF Exists
<1>6. SoleInv' /\ \A u \in Runs : HarvestInv(u)'
  BY <1>1, <1>2, AloneUnderWay, OneHarvest
<1>7. QED BY <1>3, <1>4, <1>5, <1>6 DEF IInv

\* A step of a harvest to a stage where nothing is promised of its chunks.
LEMMA StageOnly ==
  ASSUME IInv, NEW t \in Runs, NEW r \in RunRecord, UnderWay(t),
         UNCHANGED <<watcherVars, workers, src, folder, rows, unread>>, BoundsOK',
         run' = [run EXCEPT ![t] = r], r.source = run[t].source,
         r.at \in {"free", "marked", "crawled", "failing", "retrying"}, r.victims = {}
  PROVE  IInv'
<1>1. run'[t] = r /\ src' = src /\ rows' = rows /\ workers' = workers
  BY RunSet DEF IInv
<1>2. HarvestInv(t)'
  BY <1>1 DEF IInv, HarvestInv, UnderWay
<1>3. QED BY <1>2, QuietHarvest

LEMMA StartHarvestKeepsIInv ==
  ASSUME IInv, NEW t \in Runs, StartHarvest(t)
  PROVE  IInv'
<1> DEFINE s == run[t].source
<1>1. /\ run[t].at = "queued" /\ Busy < workers /\ s \in Sources
      /\ run[t] \in RunRecord /\ run[t].victims = {}
      /\ watched' = watched /\ timer' = timer /\ stray' = stray /\ reload' = reload
      /\ workers' = workers /\ folder' = folder /\ rows' = rows /\ BoundsOK'
      /\ unread' = unread
  BY DEF StartHarvest, watcherVars, IInv, TypeOK, RunRecord, BoundsOK
<1>2. PICK r \in RunRecord :
        /\ run' = [run EXCEPT ![t] = r] /\ r.victims = {} /\ r.source = s
        /\ \/ r.at = "free" /\ src' = src
           \/ /\ r.at = "marked" /\ Exists(s)
              /\ src' = [src EXCEPT ![s].status = "harvesting"]
  <2>1. CASE Exists(s)
    <3> DEFINE r == [run[t] EXCEPT !.at = "marked"]
    <3>1. r \in RunRecord /\ r.victims = {} /\ r.source = s /\ r.at = "marked"
      BY <1>1 DEF RunRecord, Stages
    <3>2. run' = [run EXCEPT ![t] = r] /\ src' = [src EXCEPT ![s].status = "harvesting"]
      BY <2>1 DEF StartHarvest, Moves
    <3>3. QED BY <2>1, <3>1, <3>2
  <2>2. CASE ~Exists(s)
    <3>1. Idle(s) \in RunRecord /\ Idle(s).victims = {} /\ Idle(s).source = s
          /\ Idle(s).at = "free"
      BY <1>1, StartFacts
    <3>2. run' = [run EXCEPT ![t] = Idle(s)] /\ src' = src
      BY <2>2 DEF StartHarvest, Frees
    <3>3. QED BY <3>1, <3>2
  <2>3. QED BY <2>1, <2>2
<1>3. /\ run' \in [Runs -> RunRecord] /\ run'[t] = r
      /\ \A u \in Runs \ {t} : run'[u] = run[u]
      /\ \A u \in Runs : run'[u].at \notin {"waiting", "wiped"} =>
                          run'[u].victims = {}
  BY <1>2, RunSet DEF IInv
<1>4. /\ src' \in [Sources -> SourceRecord]
      /\ \A x \in Sources : Marked(x, "harvesting")
      /\ r.at = "marked" => src'[s].status = "harvesting"
  <2>1. CASE r.at = "free" /\ src' = src
    BY <2>1, TypedSources, NoneMarked DEF IInv
  <2>2. CASE Exists(s) /\ src' = [src EXCEPT ![s].status = "harvesting"]
    BY <1>1, <2>2, HarvestingSet DEF IInv
  <2>3. QED BY <1>2, <2>1, <2>2
<1>5. TypeOK'
  BY <1>1, <1>3, <1>4 DEF IInv, TypeOK, WatcherTypeOK, RunRecord, SourceRecord, BoundsOK
<1>6. OneCrawl' /\ ReadyCount'
  BY <1>1, <1>4, ChunksKept DEF Marked
<1>7. WatchInv'
  <2>1. \A x \in Sources : Exists(x) => Exists(x)'
    BY <1>4 DEF Exists, Marked, Gone
  <2>2. QED BY <1>1, <2>1, WatchKept
<1>8. HarvestInv(t)'
  BY <1>1, <1>2, <1>3, <1>4 DEF HarvestInv, UnderWay
<1>9. workers = 1 => \A u \in Runs \ {t} : ~UnderWay(u)
  BY <1>1, FreeWorker
<1>10. SoleInv' /\ \A u \in Runs : HarvestInv(u)'
  BY <1>1, <1>3, <1>8, <1>9, OneHarvest
<1>11. QED BY <1>5, <1>6, <1>7, <1>10 DEF IInv

LEMMA CrawlKeepsIInv ==
  ASSUME IInv, NEW t \in Runs, Crawl(t) \/ CrawlFails(t) \/ EmbedFails(t)
  PROVE  IInv'
<1>1. /\ run[t] \in RunRecord /\ UnderWay(t) /\ run[t].at \in {"marked", "wiped"}
      /\ run[t].at = "marked" => run[t].victims = {}
      /\ folder[run[t].source] \in Versions
      /\ UNCHANGED <<watcherVars, workers, src, folder, rows, unread>>
  BY DEF Crawl, CrawlFails, EmbedFails, UnderWay, IInv, TypeOK, RunRecord
<1>2. BoundsOK'
  <2>1. CASE Crawl(t)
    <3>1. (skips' = skips \/ skips' = skips + 1) /\ crashes + skips' <= Faults
          /\ crashes' = crashes
      BY <2>1 DEF Crawl
    <3>2. QED BY <1>1, <3>1 DEF IInv, TypeOK, BoundsOK
  <2>2. CASE CrawlFails(t) \/ EmbedFails(t)
    BY <1>1, <2>2 DEF CrawlFails, EmbedFails, IInv, TypeOK, BoundsOK
  <2>3. QED BY <2>1, <2>2
<1>3. PICK r \in RunRecord :
        /\ run' = [run EXCEPT ![t] = r] /\ r.source = run[t].source
        /\ r.at \in {"crawled", "failing", "retrying"} /\ r.victims = {}
  <2>1. CASE Crawl(t)
    <3>1. PICK got \in SUBSET Contents[folder[run[t].source]] :
            run' = [run EXCEPT ![t].at = "crawled", ![t].got = got,
                              ![t].saw = folder[run[t].source]]
      BY <2>1 DEF Crawl
    <3> DEFINE r == [run[t] EXCEPT !.at = "crawled", !.got = got,
                                   !.saw = folder[run[t].source]]
    <3>2. got \subseteq Names
      BY <1>1, DocSourceAssumption DEF Versions
    <3>3. r \in RunRecord /\ r.victims = {} /\ r.source = run[t].source /\ r.at = "crawled"
      BY <1>1, <2>1, <3>2 DEF RunRecord, Stages, Crawl
    <3>4. run' = [run EXCEPT ![t] = r]
      BY <3>1 DEF IInv, TypeOK
    <3>5. QED BY <3>3, <3>4
  <2>2. CASE CrawlFails(t) \/ EmbedFails(t)
    <3>1. PICK stage \in {"failing", "retrying"} : Aborts(t, stage)
      BY <2>2 DEF CrawlFails, EmbedFails
    <3>2. stage \in Stages
      BY DEF Stages
    <3>3. QED BY <3>1, <3>2, FailFacts DEF IInv
  <2>3. QED BY <2>1, <2>2
<1>4. QED BY <1>1, <1>2, <1>3, StageOnly

LEMMA CrashKeepsIInv ==
  ASSUME IInv, NEW t \in Runs, Crash(t)
  PROVE  IInv'
<1>1. /\ UnderWay(t) /\ BoundsOK' /\ run[t].source \in Sources
      /\ UNCHANGED <<watcherVars, workers, src, folder, rows, unread>>
      /\ run' = [run EXCEPT ![t] = Idle(run[t].source)]
  BY DocSourceAssumption DEF Crash, UnderWay, Frees, IInv, TypeOK, BoundsOK
<1>2. QED BY <1>1, StartFacts, StageOnly

\* The DELETE takes what is there, and waits with it for other transactions.
LEMMA WipeKeepsIInv ==
  ASSUME IInv, NEW t \in Runs, Wipe(t) \/ Locks(t)
  PROVE  IInv'
<1>1. /\ run[t] \in RunRecord /\ UnderWay(t) /\ rows[run[t].source] \in SUBSET Row
      /\ BoundsOK'
      /\ UNCHANGED <<watcherVars, workers, src, folder, rows, unread>>
  BY DEF Wipe, Locks, UnderWay, IInv, TypeOK, RunRecord, BoundsOK
<1>2. PICK r \in RunRecord :
        /\ run' = [run EXCEPT ![t] = r] /\ r.source = run[t].source
        /\ r.at \in {"waiting", "wiped"}
        /\ workers = 1 => rows[r.source] \subseteq r.victims
  <2>1. CASE Wipe(t)
    <3> DEFINE r == [run[t] EXCEPT !.at = "waiting", !.victims = Victims(t)]
    <3>1. /\ r \in RunRecord /\ r.source = run[t].source /\ r.at = "waiting"
          /\ rows[r.source] \subseteq r.victims
      BY <1>1 DEF RunRecord, Stages, Victims
    <3>2. run' = [run EXCEPT ![t] = r]
      BY <2>1 DEF Wipe, IInv, TypeOK
    <3>3. QED BY <3>1, <3>2
  <2>2. CASE Locks(t)
    <3> DEFINE r == [run[t] EXCEPT !.at = "wiped"]
    <3>1. /\ r \in RunRecord /\ r.source = run[t].source /\ r.at = "wiped"
          /\ r.victims = run[t].victims
      BY <1>1 DEF RunRecord, Stages
    <3>2. workers = 1 => rows[run[t].source] \subseteq run[t].victims
      BY <2>2 DEF Locks, IInv, HarvestInv
    <3>3. run' = [run EXCEPT ![t] = r]
      BY <2>2 DEF Locks, Moves
    <3>4. QED BY <3>1, <3>2, <3>3
  <2>3. QED BY <2>1, <2>2
<1>3. run'[t] = r /\ src' = src /\ rows' = rows /\ workers' = workers
  BY <1>1, <1>2, RunSet DEF IInv
<1>4. HarvestInv(t)'
  BY <1>1, <1>2, <1>3 DEF IInv, HarvestInv, UnderWay
<1>5. QED BY <1>1, <1>2, <1>4, QuietHarvest

\* With one worker process nothing survives the DELETE, so what is stored is one crawl.
LEMMA StoreKeepsIInv ==
  ASSUME IInv, NEW t \in Runs, Store(t)
  PROVE  IInv'
<1> DEFINE s == run[t].source
<1>1. /\ run[t].at = "wiped" /\ run[t] \in RunRecord /\ UnderWay(t) /\ s \in Sources
      /\ watched' = watched /\ timer' = timer /\ stray' = stray /\ reload' = reload
      /\ workers' = workers /\ src' = src /\ folder' = folder /\ unread' = unread
      /\ BoundsOK'
  BY DEF Store, UnderWay, IInv, TypeOK, RunRecord, watcherVars, BoundsOK
<1>2. CASE Refused(t)
  <2>1. Aborts(t, "failing") /\ rows' = rows /\ "failing" \in Stages
    BY <1>2 DEF Store, Stages
  <2>2. PICK r \in RunRecord :
          /\ run' = [run EXCEPT ![t] = r] /\ r.source = s
          /\ r.at = "failing" /\ r.victims = {}
    BY <2>1, FailFacts DEF IInv
  <2>3. QED BY <1>1, <2>1, <2>2, StageOnly DEF watcherVars
<1>3. CASE ~Refused(t)
  <2> DEFINE r == [run[t] EXCEPT !.at = "stored", !.victims = {}]
  <2>1. /\ r \in RunRecord /\ r.source = s /\ r.at = "stored" /\ r.saw = run[t].saw
        /\ r.got = run[t].got /\ r.victims = {}
    BY <1>1 DEF RunRecord, Stages
  <2>2. /\ run' = [run EXCEPT ![t] = r]
        /\ rows' = [rows EXCEPT ![s] = Survivors(t) \cup NewRows(t)]
    BY <1>3 DEF Store, IInv, TypeOK
  <2> HIDE DEF r
  <2>3. /\ run' \in [Runs -> RunRecord] /\ run'[t] = r
        /\ \A u \in Runs \ {t} : run'[u] = run[u]
        /\ \A u \in Runs : run'[u].at \notin {"waiting", "wiped"} =>
                            run'[u].victims = {}
    BY <2>1, <2>2, RunSet DEF IInv
  <2>4. NewRows(t) \subseteq Row /\ Survivors(t) \subseteq Row
    BY <1>1, RowForEachFile DEF IInv, Survivors, TypeOK
  <2>5. /\ rows' \in [Sources -> SUBSET Row]
        /\ rows'[s] = Survivors(t) \cup NewRows(t)
        /\ \A x \in Sources \ {s} : rows'[x] = rows[x]
    BY <1>1, <2>2, <2>4 DEF IInv, TypeOK
  <2>6. workers = 1 => rows'[s] = NewRows(t)
    BY <1>1, <2>5 DEF Survivors, IInv, HarvestInv
  <2>7. TypeOK'
    BY <1>1, <2>3, <2>5 DEF IInv, TypeOK, WatcherTypeOK, RunRecord, BoundsOK
  <2>8. OneCrawl'
    BY <1>1, <2>5, <2>6 DEF IInv, OneCrawl, NewRows
  <2>9. ReadyCount'
    <3>1. workers = 1 => src[s].status # "ready"
      BY <1>1 DEF IInv, HarvestInv, Gone
    <3>2. QED BY <1>1, <2>5, <3>1 DEF IInv, ReadyCount
  <2>10. WatchInv'
    BY <1>1, WatchKept DEF Exists
  <2>11. NewRows(t)' = NewRows(t)
    BY <2>1, <2>3 DEF NewRows, Files
  <2>12. HarvestInv(t)'
    BY <1>1, <2>1, <2>3, <2>6, <2>11 DEF IInv, HarvestInv, UnderWay
  <2>13. SoleInv' /\ \A u \in Runs : HarvestInv(u)'
    BY <1>1, <2>3, <2>12, AloneUnderWay, OneHarvest
  <2>14. QED BY <2>7, <2>8, <2>9, <2>10, <2>13 DEF IInv
<1>4. QED BY <1>2, <1>3

\* A harvest that ends marks its source, and frees its slot or asks for another try.
LEMMA MarkReadyKeepsIInv ==
  ASSUME IInv, NEW t \in Runs, MarkReady(t)
  PROVE  IInv'
<1> DEFINE s == run[t].source
           r == Idle(s)
           e == IF Exists(s) THEN [status |-> "ready", docs |-> Cardinality(Files(t))]
                ELSE src[s]
<1>1. /\ run[t].at = "stored" /\ UnderWay(t) /\ s \in Sources
      /\ watched' = watched /\ timer' = timer /\ stray' = stray /\ reload' = reload
      /\ workers' = workers /\ folder' = folder /\ rows' = rows /\ BoundsOK'
      /\ unread' = unread
      /\ src' = [src EXCEPT ![s] = e] /\ run' = [run EXCEPT ![t] = r]
  BY DEF MarkReady, Frees, UnderWay, IInv, TypeOK, watcherVars, BoundsOK
<1>2. e \in SourceRecord
  BY <1>1, FilesFinite DEF IInv, TypeOK, SourceRecord, Statuses
<1>3. /\ Exists(s) => e.status = "ready" /\ e.docs = Cardinality(Files(t))
      /\ ~Exists(s) => e = src[s]
  OBVIOUS
<1> HIDE DEF e
<1>4. /\ src' \in [Sources -> SourceRecord] /\ src'[s] = e
      /\ \A x \in Sources \ {s} : src'[x] = src[x]
  BY <1>1, <1>2, SourceSet DEF IInv
<1>5. r \in RunRecord /\ r.at = "free" /\ r.victims = {}
  BY <1>1, StartFacts
<1> HIDE DEF r
<1>6. /\ run' \in [Runs -> RunRecord] /\ run'[t] = r
      /\ \A u \in Runs \ {t} : run'[u] = run[u]
      /\ \A u \in Runs : run'[u].at \notin {"waiting", "wiped"} =>
                          run'[u].victims = {}
  BY <1>1, <1>5, RunSet DEF IInv
<1>7. TypeOK'
  BY <1>1, <1>4, <1>6 DEF IInv, TypeOK, WatcherTypeOK, RunRecord, SourceRecord, BoundsOK
<1>8. OneCrawl'
  BY <1>1 DEF IInv, OneCrawl
<1>9. ReadyCount'
  <2>1. workers = 1 /\ Exists(s) => rows[s] = NewRows(t)
    BY <1>1 DEF IInv, HarvestInv
  <2>2. workers = 1 /\ Exists(s) => e.docs = Cardinality(rows[s])
    BY <1>3, <2>1, RowForEachFile DEF IInv
  <2>3. QED BY <1>1, <1>3, <1>4, <2>2 DEF IInv, ReadyCount
<1>10. WatchInv'
  <2>1. \A x \in Sources : Exists(x) => Exists(x)'
    BY <1>3, <1>4 DEF Exists, Marked, Gone
  <2>2. QED BY <1>1, <2>1, WatchKept
<1>11. HarvestInv(t)'
  BY <1>5, <1>6 DEF HarvestInv, UnderWay
<1>12. SoleInv' /\ \A u \in Runs : HarvestInv(u)'
  BY <1>1, <1>6, <1>11, AloneUnderWay, OneHarvest
<1>13. QED BY <1>7, <1>8, <1>9, <1>10, <1>12 DEF IInv

LEMMA MarkErrorKeepsIInv ==
  ASSUME IInv, NEW t \in Runs, MarkError(t)
  PROVE  IInv'
<1> DEFINE s == run[t].source
<1>1. /\ run[t].at \in {"failing", "retrying"} /\ UnderWay(t) /\ s \in Sources
      /\ run[t].tries \in 0 .. MaxRetries
      /\ watched' = watched /\ timer' = timer /\ stray' = stray /\ reload' = reload
      /\ workers' = workers /\ folder' = folder /\ rows' = rows /\ BoundsOK'
      /\ unread' = unread
  BY DEF MarkError, UnderWay, IInv, TypeOK, watcherVars, BoundsOK
<1>2. /\ src' \in [Sources -> SourceRecord]
      /\ \A x \in Sources : Marked(x, "error")
  <2>1. CASE Exists(s)
    <3>1. src' = [src EXCEPT ![s].status = "error"] /\ "error" \in Statuses
      BY <2>1 DEF MarkError, Statuses
    <3>2. /\ src' \in [Sources -> SourceRecord] /\ src'[s].status = "error"
          /\ \A x \in Sources \ {s} : src'[x] = src[x]
      BY <1>1, <3>1, StatusSet DEF IInv
    <3>3. QED BY <1>1, <2>1, <3>2, OneMarked
  <2>2. CASE ~Exists(s)
    <3>1. src' = src
      BY <1>1, <2>2 DEF MarkError, IInv, TypeOK
    <3>2. QED BY <3>1, TypedSources, NoneMarked DEF IInv
  <2>3. QED BY <2>1, <2>2
<1>3. PICK r \in RunRecord :
        run' = [run EXCEPT ![t] = r] /\ r.at \in {"free", "queued"} /\ r.victims = {}
  <2>1. CASE run[t].at = "retrying" /\ run[t].tries < MaxRetries
    <3> DEFINE r == [Idle(s) EXCEPT !.at = "queued", !.tries = run[t].tries + 1]
    <3>1. run[t].tries + 1 \in 0 .. MaxRetries
      BY <1>1, <2>1, DocSourceAssumption
    <3>2. r \in RunRecord /\ r.at = "queued" /\ r.victims = {}
      <4> DEFINE free == Idle(s)
      <4>1. free \in RunRecord /\ free.victims = {}
        BY <1>1, StartFacts
      <4> HIDE DEF free
      <4> DEFINE again == [free EXCEPT !.at = "queued", !.tries = run[t].tries + 1]
      <4>2. again \in RunRecord /\ again.at = "queued" /\ again.victims = {}
        BY <3>1, <4>1 DEF RunRecord, Stages
      <4>3. again = r
        BY DEF free
      <4>4. QED BY <4>2, <4>3
    <3>3. run' = [run EXCEPT ![t] = r]
      BY <2>1 DEF MarkError, Ends
    <3>4. QED BY <3>2, <3>3
  <2>2. CASE ~(run[t].at = "retrying" /\ run[t].tries < MaxRetries)
    <3>1. run' = [run EXCEPT ![t] = Idle(s)]
      BY <2>2 DEF MarkError, Ends, Frees
    <3>2. QED BY <1>1, <3>1, StartFacts
  <2>3. QED BY <2>1, <2>2
<1>4. /\ run' \in [Runs -> RunRecord] /\ run'[t] = r
      /\ \A u \in Runs \ {t} : run'[u] = run[u]
      /\ \A u \in Runs : run'[u].at \notin {"waiting", "wiped"} =>
                          run'[u].victims = {}
  BY <1>3, RunSet DEF IInv
<1>5. TypeOK'
  BY <1>1, <1>2, <1>4 DEF IInv, TypeOK, WatcherTypeOK, RunRecord, SourceRecord, BoundsOK
<1>6. OneCrawl' /\ ReadyCount'
  BY <1>1, <1>2, ChunksKept DEF Marked
<1>7. WatchInv'
  <2>1. \A x \in Sources : Exists(x) => Exists(x)'
    BY <1>2 DEF Exists, Marked, Gone
  <2>2. QED BY <1>1, <2>1, WatchKept
<1>8. HarvestInv(t)'
  BY <1>3, <1>4 DEF HarvestInv, UnderWay
<1>9. SoleInv' /\ \A u \in Runs : HarvestInv(u)'
  BY <1>1, <1>4, <1>8, AloneUnderWay, OneHarvest
<1>10. QED BY <1>5, <1>6, <1>7, <1>9 DEF IInv

-----------------------------------------------------------------------------
(* The API, the recrawl and the watcher *)

\* Steps that send a message, mark a source as harvesting, or do neither.
LEMMA SendKeepsIInv ==
  ASSUME IInv, workers' = workers, rows' = rows, NEW s \in Sources,
         run' = run \/ (\E t \in Runs : Enqueues(t, s)),
         src' = src \/ (Exists(s) /\ src' = [src EXCEPT ![s].status = "harvesting"]),
         WatcherTypeOK', folder' \in [Sources -> Versions], BoundsOK',
         (watched' = watched /\ reload' = reload /\ unread' = unread) \/ WatchInv'
  PROVE  IInv'
<1>1. /\ src' \in [Sources -> SourceRecord]
      /\ \A x \in Sources : Marked(x, "harvesting")
  <2>1. CASE src' = src
    BY <2>1, TypedSources, NoneMarked DEF IInv
  <2>2. CASE Exists(s) /\ src' = [src EXCEPT ![s].status = "harvesting"]
    BY <2>2, HarvestingSet DEF IInv
  <2>3. QED BY <2>1, <2>2
<1>2. /\ run' \in [Runs -> RunRecord]
      /\ \A u \in Runs : run'[u].at \notin {"waiting", "wiped"} =>
                          run'[u].victims = {}
      /\ SoleInv' /\ \A u \in Runs : HarvestInv(u)'
  BY <1>1, SendKeepsHarvests
<1>3. TypeOK'
  BY <1>1, <1>2 DEF IInv, TypeOK, RunRecord, SourceRecord, BoundsOK
<1>4. OneCrawl' /\ ReadyCount'
  BY <1>1, ChunksKept DEF Marked
<1>5. WatchInv'
  <2>1. \A x \in Sources : Exists(x) => Exists(x)'
    BY <1>1 DEF Exists, Marked, Gone
  <2>2. QED BY <2>1, WatchKept
<1>6. QED BY <1>2, <1>3, <1>4, <1>5 DEF IInv

LEMMA LostFacts ==
  ASSUME TypeOK, UNCHANGED <<skips, unread>>, Lost \/ crashes' = crashes
  PROVE  BoundsOK' /\ (Lost => run' = run)
BY DocSourceAssumption DEF Lost, TypeOK, BoundsOK

LEMMA CrawlNowKeepsIInv ==
  ASSUME IInv, NEW s \in Sources, CrawlNow(s) \/ Recrawl(s)
  PROVE  IInv'
<1>1. /\ watched' = watched /\ timer' = timer /\ stray' = stray /\ reload' = reload
      /\ workers' = workers /\ rows' = rows /\ folder' = folder
      /\ skips' = skips /\ unread' = unread
      /\ src' = src \/ (Exists(s) /\ src' = [src EXCEPT ![s].status = "harvesting"])
  BY DEF CrawlNow, Recrawl, watcherVars
<1>2. /\ run' = run \/ (\E t \in Runs : Enqueues(t, s))
      /\ BoundsOK'
  BY <1>1, LostFacts DEF CrawlNow, Recrawl, IInv
<1>3. WatcherTypeOK' /\ folder' \in [Sources -> Versions]
  BY <1>1 DEF IInv, TypeOK, WatcherTypeOK
<1>4. QED BY <1>1, <1>2, <1>3, SendKeepsIInv

\* The timer of a handler, while it has one, runs through its states.
LEMMA TimerSet ==
  ASSUME WatcherTypeOK, NEW s \in Sources, NEW state \in TimerStates,
         timer' = [timer EXCEPT ![s] = state], state # "off" => s \in watched,
         watched' = watched, reload' = reload, stray' \subseteq Sources
  PROVE  WatcherTypeOK'
BY DEF WatcherTypeOK, Reloads

LEMMA FireKeepsIInv ==
  ASSUME IInv, NEW s \in Sources, Fire(s) \/ StrayFire(s)
  PROVE  IInv'
<1>1. /\ watched' = watched /\ reload' = reload
      /\ workers' = workers /\ rows' = rows /\ folder' = folder /\ src' = src
      /\ skips' = skips /\ unread' = unread
  BY DEF Fire, StrayFire, FireSends, StrayFireSends
<1>2. Sends(s)
  BY DEF Fire, StrayFire
<1>3. /\ run' = run \/ (\E t \in Runs : Enqueues(t, s))
      /\ BoundsOK'
  BY <1>1, <1>2, LostFacts DEF Sends, IInv
<1>4. WatcherTypeOK'
  <2>1. CASE Fire(s)
    <3>1. /\ timer' = [timer EXCEPT ![s] = "ending"] /\ timer[s] # "off" /\ stray' = stray
          /\ s \in watched
      BY <2>1 DEF Fire, FireSends, IInv, TypeOK, WatcherTypeOK
    <3>2. "ending" \in TimerStates /\ stray' \subseteq Sources
      BY <3>1 DEF TimerStates, IInv, TypeOK, WatcherTypeOK
    <3>3. QED BY <1>1, <3>1, <3>2, TimerSet DEF IInv, TypeOK
  <2>2. CASE StrayFire(s)
    <3>1. timer' = timer /\ stray' = stray \ {s}
      BY <2>2 DEF StrayFire, StrayFireSends
    <3>2. QED BY <1>1, <3>1 DEF IInv, TypeOK, WatcherTypeOK, Reloads
  <2>3. QED BY <2>1, <2>2
<1>5. folder' \in [Sources -> Versions]
  BY <1>1 DEF IInv, TypeOK
<1>6. QED BY <1>1, <1>3, <1>4, <1>5, SendKeepsIInv

LEMMA FolderChangesKeepsIInv ==
  ASSUME IInv, NEW s \in Sources, FolderChanges(s)
  PROVE  IInv'
<1>1. /\ watched' = watched /\ reload' = reload /\ stray' = stray
      /\ workers' = workers /\ rows' = rows /\ src' = src /\ run' = run
      /\ BoundsOK' /\ folder' \in [Sources -> Versions] /\ unread' = unread
  BY DEF FolderChanges, IInv, TypeOK, BoundsOK
<1>2. WatcherTypeOK'
  <2> DEFINE state == IF s \in watched /\ timer[s] = "off" THEN "armed" ELSE timer[s]
  <2>1. timer' = [timer EXCEPT ![s] = state]
    BY DEF FolderChanges, Event
  <2>2. state \in TimerStates /\ (state # "off" => s \in watched) /\ stray' \subseteq Sources
    BY <1>1 DEF IInv, TypeOK, WatcherTypeOK, TimerStates
  <2> HIDE DEF state
  <2>3. QED BY <1>1, <2>1, <2>2, TimerSet DEF IInv, TypeOK
<1>3. QED BY <1>1, <1>2, SendKeepsIInv

LEMMA ThreadKeepsIInv ==
  ASSUME IInv, NEW s \in Sources, Thread(s)
  PROVE  IInv'
<1>1. /\ watched' = watched /\ reload' = reload /\ stray' = stray
      /\ workers' = workers /\ rows' = rows /\ src' = src /\ run' = run
      /\ BoundsOK' /\ folder' \in [Sources -> Versions] /\ unread' = unread
  BY DEF Thread, TimerExpires, ThreadEnds, docVars, IInv, TypeOK, BoundsOK
<1>2. PICK state \in {"firing", "off"} :
        timer' = [timer EXCEPT ![s] = state] /\ timer[s] # "off"
  BY DEF Thread, TimerExpires, ThreadEnds
<1>3. /\ state \in TimerStates /\ s \in watched /\ stray' \subseteq Sources
  BY <1>1, <1>2 DEF TimerStates, IInv, TypeOK, WatcherTypeOK
<1>4. WatcherTypeOK'
  BY <1>1, <1>2, <1>3, TimerSet DEF IInv, TypeOK
<1>5. QED BY <1>1, <1>4, SendKeepsIInv

\* What a reload applies is what it read, and no source went in between.
LEMMA ReloadKeepsIInv ==
  ASSUME IInv, NEW r \in Reloads, Reload(r)
  PROVE  IInv'
<1>1. /\ workers' = workers /\ rows' = rows /\ src' = src /\ run' = run
      /\ BoundsOK' /\ folder' \in [Sources -> Versions]
  BY DEF Reload, IInv, TypeOK, BoundsOK
<1>2. /\ reload \in [Reloads -> ReloadRecord] /\ (MaxReloads = 1 => r = 1)
      /\ watched \subseteq Sources /\ stray \subseteq Sources
      /\ timer \in [Sources -> TimerStates]
      /\ \A s \in Sources : timer[s] # "off" => s \in watched
  BY DEF IInv, TypeOK, WatcherTypeOK, Reloads, ReloadRecord
<1>3. CASE ReloadReads(r, Active)
  <2> DEFINE read == [at |-> "loaded", wanted |-> Active]
  <2>1. /\ reload' = [reload EXCEPT ![r] = read]
        /\ watched' = watched /\ timer' = timer /\ stray' = stray
        /\ Active \subseteq Sources /\ \A s \in Active : Exists(s)
    BY <1>3 DEF ReloadReads, Active
  <2>2. read \in ReloadRecord /\ read.wanted = Active /\ read.at = "loaded"
    BY <2>1 DEF ReloadRecord
  <2>3. \A s \in Sources : Exists(s)' = Exists(s)
    BY <1>1 DEF Exists
  <2> HIDE DEF read
  <2>4. reload' \in [Reloads -> ReloadRecord] /\ reload'[r] = read
    BY <1>2, <2>1, <2>2
  <2>5. WatcherTypeOK'
    BY <1>2, <2>1, <2>4 DEF WatcherTypeOK, ReloadRecord
  <2>6. WatchInv'
    BY <1>2, <2>1, <2>2, <2>3, <2>4 DEF WatchInv
  <2>7. QED BY <1>1, <2>5, <2>6, WatcherAssumption, SendKeepsIInv
<1>4. CASE ReloadApplies(r) /\ unread' = unread
  <2> DEFINE wanted == reload[r].wanted
  <2>1. /\ reload' = [reload EXCEPT ![r] = NoReload] /\ reload[r].at = "loaded"
        /\ watched' \subseteq wanted /\ watched \cap wanted \subseteq watched'
        /\ timer' = [s \in Sources |-> IF s \in watched \ wanted
                                       THEN "off" ELSE timer[s]]
        /\ stray' \subseteq Sources /\ wanted \subseteq Sources
    BY <1>2, <1>4 DEF ReloadApplies, ReloadRecord
  <2>2. NoReload \in ReloadRecord /\ NoReload.at = "idle"
    BY DEF ReloadRecord, NoReload
  <2>3. reload' \in [Reloads -> ReloadRecord] /\ reload'[r] = NoReload
    BY <1>2, <2>1, <2>2
  <2>4. MaxReloads = 1 => \A s \in wanted : Exists(s) \/ s \in unread
    BY <1>2, <2>1 DEF IInv, WatchInv
  <2>5. \A s \in Sources : Exists(s)' = Exists(s)
    BY <1>1 DEF Exists
  <2> HIDE DEF wanted
  <2>6. timer' \in [Sources -> TimerStates]
    BY <1>2, <2>1 DEF TimerStates
  <2>7. \A s \in Sources : timer'[s] # "off" => s \in watched'
    BY <1>2, <2>1
  <2>8. WatcherTypeOK'
    BY <2>1, <2>3, <2>6, <2>7 DEF WatcherTypeOK, ReloadRecord
  <2>9. WatchInv'
    BY <1>2, <1>4, <2>1, <2>2, <2>3, <2>4, <2>5 DEF WatchInv
  <2>10. QED BY <1>1, <2>8, <2>9, WatcherAssumption, SendKeepsIInv
<1>5. CASE ReloadFails(r) /\ unread' = unread
  <2>1. /\ reload' = [reload EXCEPT ![r] = NoReload] /\ reload[r].at = "begun"
        /\ watched' = watched /\ timer' = timer /\ stray' = stray
    BY <1>5 DEF ReloadFails
  <2>2. NoReload \in ReloadRecord /\ NoReload.at = "idle"
    BY DEF ReloadRecord, NoReload
  <2>3. reload' \in [Reloads -> ReloadRecord] /\ reload'[r] = NoReload
    BY <1>2, <2>1, <2>2
  <2>4. WatcherTypeOK'
    BY <1>2, <2>1, <2>3 DEF WatcherTypeOK, ReloadRecord
  <2>5. \A s \in Sources : Exists(s)' = Exists(s)
    BY <1>1 DEF Exists
  <2>6. WatchInv'
    BY <1>2, <1>5, <2>1, <2>2, <2>3, <2>5 DEF IInv, WatchInv
  <2>7. QED BY <1>1, <2>4, <2>6, WatcherAssumption, SendKeepsIInv
<1>6. QED BY <1>3, <1>4, <1>5 DEF Reload

LEMMA RestartKeepsIInv ==
  ASSUME IInv, RestartApi
  PROVE  IInv'
<1>1. /\ workers' = workers /\ rows' = rows /\ src' = src /\ run' = run
      /\ BoundsOK' /\ folder' \in [Sources -> Versions]
  BY DocSourceAssumption DEF RestartApi, IInv, TypeOK, BoundsOK
<1>2. /\ watched' = {} /\ stray' = {} /\ timer' = [s \in Sources |-> "off"]
      /\ reload' = [r \in Reloads |-> IF r = 1 THEN ReloadBegun ELSE NoReload]
  BY DEF RestartApi, Restart
<1>3. WatcherTypeOK'
  BY <1>2 DEF WatcherTypeOK, ReloadBegun, NoReload, TimerStates, Reloads
<1>4. WatchInv'
  BY <1>2 DEF WatchInv, ReloadBegun, Reloads
<1>5. QED BY <1>1, <1>3, <1>4, WatcherAssumption, SendKeepsIInv

\* A request that creates or deletes a source begins a reload, and has it to itself
\* where reloads come one at a time.
LEMMA ApiKeepsIInv ==
  ASSUME IInv, NEW s \in Sources, NEW r \in Reloads,
         CreateSource(s, r) \/ DeleteSource(s, r)
  PROVE  IInv'
<1>1. /\ watched' = watched /\ timer' = timer /\ stray' = stray
      /\ workers' = workers /\ folder' = folder /\ run' = run /\ BoundsOK'
      /\ reload' = [reload EXCEPT ![r] = ReloadBegun] /\ reload[r].at = "idle"
      /\ watched \subseteq Sources
  BY DEF CreateSource, DeleteSource, BeginReload, Unread, IInv, TypeOK, WatcherTypeOK, BoundsOK
<1>2. WatcherTypeOK'
  BY <1>1 DEF IInv, TypeOK, WatcherTypeOK, ReloadBegun, Reloads
<1>3. WatchInv'
  <2> SUFFICES ASSUME MaxReloads = 1, NEW x \in watched
               PROVE  Exists(x)' \/ x \in unread'
    BY <1>1 DEF WatchInv, ReloadBegun, IInv, TypeOK, WatcherTypeOK, Reloads
  <2>1. r = 1 /\ x \in Sources /\ (Exists(x) \/ x \in unread)
    BY <1>1 DEF WatchInv, IInv, Reloads
  <2>2. CASE CreateSource(s, r)
    BY <2>1, <2>2 DEF CreateSource, Exists, Gone, IInv, TypeOK
  <2>3. CASE DeleteSource(s, r)
    BY <2>1, <2>3 DEF DeleteSource, Unread, Exists, IInv, TypeOK
  <2>4. QED BY <2>2, <2>3
<1>4. PICK e \in SourceRecord :
        /\ src' = [src EXCEPT ![s] = e]
        /\ \/ e.status = "idle" /\ src[s].status = "unborn" /\ rows' = rows
           \/ e.status = "deleted" /\ rows' = [rows EXCEPT ![s] = {}]
  <2>1. CASE CreateSource(s, r)
    <3> DEFINE e == [src[s] EXCEPT !.status = "idle"]
    <3>1. e \in SourceRecord /\ e.status = "idle"
      BY DEF IInv, TypeOK, SourceRecord, Statuses
    <3>2. src' = [src EXCEPT ![s] = e] /\ src[s].status = "unborn" /\ rows' = rows
      BY <2>1 DEF CreateSource
    <3>3. QED BY <3>1, <3>2
  <2>2. CASE DeleteSource(s, r)
    <3> DEFINE e == [status |-> "deleted", docs |-> 0]
    <3>1. Cardinality(Names) \in Nat
      BY FS_CardinalityType, DocSourceAssumption
    <3>2. e \in SourceRecord /\ e.status = "deleted"
      BY <3>1 DEF SourceRecord, Statuses, Gone
    <3>3. src' = [src EXCEPT ![s] = e] /\ rows' = [rows EXCEPT ![s] = {}]
      BY <2>2 DEF DeleteSource
    <3>4. QED BY <3>2, <3>3
  <2>3. QED BY <2>1, <2>2
<1>5. /\ src' \in [Sources -> SourceRecord] /\ src'[s] = e
      /\ \A x \in Sources \ {s} : src'[x] = src[x]
  BY <1>4, SourceSet DEF IInv
<1>6. /\ rows' \in [Sources -> SUBSET Row]
      /\ \A x \in Sources \ {s} : rows'[x] = rows[x]
      /\ rows'[s] = rows[s] \/ rows'[s] = {}
      /\ e.status = "deleted" => rows'[s] = {}
  BY <1>4 DEF IInv, TypeOK
<1>7. TypeOK'
  BY <1>1, <1>2, <1>5, <1>6 DEF IInv, TypeOK, SourceRecord, RunRecord, BoundsOK
<1>8. OneCrawl'
  BY <1>1, <1>6 DEF IInv, OneCrawl
<1>9. ReadyCount'
  BY <1>1, <1>4, <1>5, <1>6 DEF IInv, ReadyCount
<1>10. SoleInv'
  BY <1>1 DEF IInv, SoleInv, UnderWay
<1>11. ASSUME NEW t \in Runs PROVE HarvestInv(t)'
  <2> SUFFICES ASSUME workers = 1, UnderWay(t) PROVE HarvestInv(t)'
    BY <1>1 DEF HarvestInv, UnderWay
  <2> DEFINE x == run[t].source
  <2>1. x \in Sources /\ src[x].status \in Gone \cup {"harvesting"}
    BY DEF IInv, TypeOK, HarvestInv
  <2>2. NewRows(t)' = NewRows(t)
    BY <1>1 DEF NewRows, Files
  <2>3. CASE x = s
    <3>1. src'[x].status = "deleted" /\ rows'[x] = {}
      BY <1>4, <1>5, <1>6, <2>1, <2>3 DEF Gone
    <3>2. QED BY <1>1, <3>1 DEF HarvestInv, Exists, Gone
  <2>4. CASE x # s
    <3>1. src'[x] = src[x] /\ rows'[x] = rows[x]
      BY <1>5, <1>6, <2>1, <2>4
    <3>2. QED BY <1>1, <2>2, <3>1 DEF IInv, HarvestInv, Exists, UnderWay
  <2>5. QED BY <2>3, <2>4
<1>12. QED BY <1>3, <1>7, <1>8, <1>9, <1>10, <1>11 DEF IInv

\* A workspace takes its sources and their chunks; harvests of them find out later.
LEMMA WorkspaceKeepsIInv ==
  ASSUME IInv, NEW w \in Workspaces, DeleteWorkspace(w)
  PROVE  IInv'
<1> DEFINE W == {s \in Sources : WorkspaceOf[s] = w}
           gone == [status |-> "dropped", docs |-> 0]
<1>1. /\ watched' = watched /\ timer' = timer /\ stray' = stray /\ reload' = reload
      /\ workers' = workers /\ folder' = folder /\ run' = run /\ BoundsOK'
  BY DEF DeleteWorkspace, watcherVars, Unread, IInv, TypeOK, BoundsOK
<1>2. /\ src' = [s \in Sources |-> IF WorkspaceOf[s] = w THEN gone ELSE src[s]]
      /\ rows' = [s \in Sources |-> IF WorkspaceOf[s] = w THEN {} ELSE rows[s]]
      /\ unread' = unread \cup (W \cap (watched \cup UNION {reload[r].wanted : r \in Reloads}))
  BY DEF DeleteWorkspace, Unread
<1>3. gone \in SourceRecord /\ gone.status = "dropped"
  BY FS_CardinalityType, DocSourceAssumption DEF SourceRecord, Statuses, Gone
<1> HIDE DEF gone, W
<1>4. /\ \A s \in W : src'[s] = gone /\ rows'[s] = {}
      /\ \A s \in Sources \ W : src'[s] = src[s] /\ rows'[s] = rows[s]
      /\ src' \in [Sources -> SourceRecord] /\ rows' \in [Sources -> SUBSET Row]
      /\ W \subseteq Sources
  BY <1>2, <1>3, TypedSources DEF W, IInv, TypeOK
<1>5. TypeOK'
  BY <1>1, <1>4 DEF IInv, TypeOK, WatcherTypeOK, RunRecord, SourceRecord, BoundsOK
<1>6. OneCrawl' /\ ReadyCount'
  BY <1>1, <1>3, <1>4 DEF IInv, OneCrawl, ReadyCount
<1>7. WatchInv'
  <2>1. \A s \in Sources : Exists(s) => Exists(s)' \/ s \in W
    BY <1>4 DEF Exists
  <2>2. watched \subseteq Sources /\ \A r \in Reloads : reload[r].wanted \subseteq Sources
    BY DEF IInv, TypeOK, WatcherTypeOK
  <2>3. \A s \in watched : s \in W => s \in unread'
    BY <1>2
  <2>4. \A r \in Reloads : \A s \in reload[r].wanted : s \in W => s \in unread'
    BY <1>2
  <2>5. unread \subseteq unread'
    BY <1>2
  <2>6. MaxReloads = 1 => 1 \in Reloads
    BY DEF Reloads
  <2>7. QED BY <1>1, <2>1, <2>2, <2>3, <2>4, <2>5, <2>6 DEF IInv, WatchInv
<1>8. SoleInv'
  BY <1>1 DEF IInv, SoleInv, UnderWay
<1>9. ASSUME NEW t \in Runs PROVE HarvestInv(t)'
  <2> DEFINE x == run[t].source
  <2>1. x \in Sources
    BY DEF IInv, TypeOK
  <2>2. NewRows(t)' = NewRows(t)
    BY <1>1 DEF NewRows, Files
  <2>3. CASE x \in W
    <3>1. src'[x].status = "dropped" /\ rows'[x] = {}
      BY <1>3, <1>4, <2>3
    <3>2. QED BY <1>1, <3>1 DEF HarvestInv, Exists, Gone
  <2>4. CASE x \notin W
    <3>1. src'[x] = src[x] /\ rows'[x] = rows[x]
      BY <1>4, <2>1, <2>4
    <3>2. QED BY <1>1, <2>2, <3>1 DEF IInv, HarvestInv, Exists, UnderWay
  <2>5. QED BY <2>3, <2>4
<1>10. QED BY <1>5, <1>6, <1>7, <1>8, <1>9 DEF IInv

LEMMA StutterKeepsIInv ==
  ASSUME IInv, UNCHANGED vars
  PROVE  IInv'
<1>1. /\ watched' = watched /\ timer' = timer /\ stray' = stray /\ reload' = reload
      /\ workers' = workers /\ rows' = rows /\ src' = src /\ run' = run
      /\ crashes' = crashes /\ skips' = skips /\ unread' = unread /\ folder' = folder
  BY DEF vars, watcherVars, docVars
<1>2. WatcherTypeOK' /\ BoundsOK' /\ folder' \in [Sources -> Versions]
  BY <1>1 DEF IInv, TypeOK, WatcherTypeOK, BoundsOK
<1>3. QED BY <1>1, <1>2, WatcherAssumption, SendKeepsIInv

-----------------------------------------------------------------------------
(* Theorems *)

LEMMA NextKeepsIInv == ASSUME IInv, [Next]_vars PROVE IInv'
<1>1. ASSUME NEW s \in Sources, NEW r \in Reloads,
             CreateSource(s, r) \/ DeleteSource(s, r)
      PROVE  IInv'
  BY <1>1, ApiKeepsIInv
<1>2. ASSUME NEW t \in Runs, HarvestStep(t) \/ Crash(t) PROVE IInv'
  <2>1. CASE StartHarvest(t)
    BY <2>1, StartHarvestKeepsIInv
  <2>2. CASE Crawl(t) \/ CrawlFails(t) \/ EmbedFails(t)
    BY <2>2, CrawlKeepsIInv
  <2>3. CASE Wipe(t) \/ Locks(t)
    BY <2>3, WipeKeepsIInv
  <2>4. CASE Store(t)
    BY <2>4, StoreKeepsIInv
  <2>5. CASE MarkReady(t)
    BY <2>5, MarkReadyKeepsIInv
  <2>6. CASE MarkError(t)
    BY <2>6, MarkErrorKeepsIInv
  <2>7. CASE Crash(t)
    BY <2>7, CrashKeepsIInv
  <2>8. QED BY <1>2, <2>1, <2>2, <2>3, <2>4, <2>5, <2>6, <2>7 DEF HarvestStep
<1>3. ASSUME NEW s \in Sources, CrawlNow(s) \/ Recrawl(s) \/ FolderChanges(s)
      PROVE  IInv'
  BY <1>3, CrawlNowKeepsIInv, FolderChangesKeepsIInv
<1>4. ASSUME NEW s \in Sources, Fire(s) \/ StrayFire(s) \/ Thread(s)
      PROVE  IInv'
  BY <1>4, FireKeepsIInv, ThreadKeepsIInv
<1>5. ASSUME NEW r \in Reloads, Reload(r) PROVE IInv'
  BY <1>5, ReloadKeepsIInv
<1>6. CASE RestartApi
  BY <1>6, RestartKeepsIInv
<1>7. CASE UNCHANGED vars
  BY <1>7, StutterKeepsIInv
<1>8. ASSUME NEW w \in Workspaces, DeleteWorkspace(w) PROVE IInv'
  BY <1>8, WorkspaceKeepsIInv
<1>9. QED BY <1>1, <1>2, <1>3, <1>4, <1>5, <1>6, <1>7, <1>8 DEF Next

\* IInv is an invariant of every run.
THEOREM Invariance == Spec => []IInv
<1>1. QED BY InitIInv, NextKeepsIInv, PTL DEF Spec

\* The chunks of a source are those of one crawl and its doc_count counts them, where
\* one worker process harvests; where reloads come one at a time, what the watcher
\* watches exists, or went since a reload last read the sources: a reload that failed
\* or a workspace's deletion leaves it behind (harvest_task.py, doc_sources.py:231-244,
\* file_watcher.py, workspaces.py:306-314).
THEOREM SourcesAgree == Spec => []SourcesSound
<1>1. IInv => WatchedExist
  <2> SUFFICES ASSUME IInv, MaxReloads = 1, \A r \in Reloads : reload[r].at = "idle",
                      NEW s \in watched
               PROVE  Exists(s) \/ s \in unread
    BY DEF WatchedExist
  <2>1. 1 \in Reloads
    BY DEF Reloads
  <2>2. QED BY <2>1 DEF IInv, WatchInv
<1>2. IInv => SourcesSound
  BY <1>1 DEF IInv, SourcesSound
<1>3. QED BY <1>2, Invariance, PTL

\* Whatever a crawl could not read and whatever fails: a chunk goes only with its
\* source or its workspace, or in the commit of a harvest that has wiped it and puts
\* everything it has read in its place (indexer.py:184-227).
THEOREM ChunksSurviveFailures == Spec => ChunksReplaced
<1> DEFINE Kept ==
             \A s \in Sources : \A x \in rows[s] \ rows'[s] :
               \/ src'[s].status \in Gone
               \/ \E t \in Runs : /\ run[t].source = s /\ run[t].at = "wiped"
                                  /\ run'[t].at = "stored"
                                  /\ x \in run[t].victims /\ NewRows(t) \subseteq rows'[s]
<1>1. IInv /\ [Next]_vars => [Kept]_vars
  <2> DEFINE Committed(t, s, x) ==
               /\ run[t].source = s /\ run[t].at = "wiped" /\ run'[t].at = "stored"
               /\ x \in run[t].victims /\ NewRows(t) \subseteq rows'[s]
  <2> SUFFICES ASSUME IInv, Next, NEW s \in Sources, NEW x \in rows[s] \ rows'[s]
               PROVE  src'[s].status \in Gone \/ \E t \in Runs : Committed(t, s, x)
    OBVIOUS
  <2>1. rows' # rows
    OBVIOUS
  <2>2. \/ \E y \in Sources, r \in Reloads : DeleteSource(y, r)
        \/ \E w \in Workspaces : DeleteWorkspace(w)
        \/ \E t \in Runs : Store(t)
    BY <2>1 DEF Next, CreateSource, HarvestStep, StartHarvest, Crawl, CrawlFails, Wipe,
       Locks, EmbedFails, MarkReady, MarkError, Crash, CrawlNow, Recrawl, FolderChanges,
       Fire, StrayFire, Thread, Reload, RestartApi, docVars
  <2>3. CASE \E y \in Sources, r \in Reloads : DeleteSource(y, r)
    <3>1. PICK y \in Sources, r \in Reloads : DeleteSource(y, r)
      BY <2>3
    <3>2. y = s
      BY <3>1 DEF DeleteSource, IInv, TypeOK
    <3>3. QED BY <3>1, <3>2 DEF DeleteSource, IInv, TypeOK, Gone
  <2>4. CASE \E w \in Workspaces : DeleteWorkspace(w)
    BY <2>4 DEF DeleteWorkspace, Gone
  <2>5. CASE \E t \in Runs : Store(t)
    <3>1. PICK t \in Runs : Store(t)
      BY <2>5
    <3>2. /\ rows' = [rows EXCEPT ![run[t].source] = Survivors(t) \cup NewRows(t)]
          /\ run' = [run EXCEPT ![t].at = "stored", ![t].victims = {}]
          /\ run[t].at = "wiped"
      BY <2>1, <3>1 DEF Store
    <3>3. run[t].source = s /\ rows'[s] = Survivors(t) \cup NewRows(t)
      BY <3>2 DEF IInv, TypeOK
    <3>4. x \in run[t].victims
      BY <3>3 DEF Survivors
    <3>5. run'[t].at = "stored"
      BY <3>2 DEF IInv, TypeOK
    <3>6. Committed(t, s, x)
      BY <3>2, <3>3, <3>4, <3>5
    <3>7. QED BY <3>6
  <2>6. QED BY <2>2, <2>3, <2>4, <2>5
<1>2. QED BY <1>1, Invariance, PTL DEF Spec, ChunksReplaced

-----------------------------------------------------------------------------
(* What a source holds *)

\* A container has a page, and a page is a sequence of things.
LEMMA PageFacts ==
  ASSUME NEW w \in Worlds, NEW c \in DOMAIN w.pages
  PROVE  /\ IsSeq(w.pages[c]) /\ Len(w.pages[c]) \in Nat \ {0}
         /\ DOMAIN w.pages[c] = 1 .. Len(w.pages[c])
         /\ \A k \in DOMAIN w.pages[c] :
              /\ w.pages[c][k] \in Seq(Things(w)) /\ IsSeq(w.pages[c][k])
              /\ ToSet(w.pages[c][k]) \subseteq Things(w)
              /\ ToSet(w.pages[c][k]) \subseteq ItemsOf(w, c)
<1>1. w.pages[c] \in Seq(Seq(Things(w))) /\ w.pages[c] # <<>>
  BY CrawlWorldsAssumption DEF Typed
<1> DEFINE p == w.pages[c]
           T == Things(w)
<1>2. IsSeq(p) /\ DOMAIN p = 1 .. Len(p) /\ Len(p) \in Nat
  BY <1>1, SeqIsSeq, Zenon
<1>3. p # <<>>
  BY <1>1
<1>4. ASSUME NEW k \in DOMAIN p
      PROVE  /\ p[k] \in Seq(T) /\ IsSeq(p[k]) /\ ToSet(p[k]) \subseteq T
             /\ ToSet(p[k]) \subseteq ItemsOf(w, c)
  <2>1. p[k] \in Seq(T)
    <3>1. p \in Seq(Seq(T))
      BY <1>1
    <3> HIDE DEF p, T
    <3>q. QED  BY <3>1
  <2>2. ToSet(p[k]) \in {ToSet(w.pages[c][l]) : l \in DOMAIN w.pages[c]}
    OBVIOUS
  <2>3. ToSet(p[k]) \subseteq ItemsOf(w, c)
    BY <2>2, Zenon DEF ItemsOf
  <2> HIDE DEF p, T
  <2>q. QED  BY <2>1, <2>3, SeqIsSeq, Zenon
<1> HIDE DEF p
<1>5. Len(p) # 0
  BY <1>2, <1>3, SeqFacts
<1>q. QED  BY <1>2, <1>4, <1>5 DEF p, T

\* An item on a page has a place.
LEMMA PlaceFacts ==
  ASSUME NEW w \in Worlds, NEW c \in DOMAIN w.pages, NEW k \in DOMAIN w.pages[c],
         NEW i \in DOMAIN w.pages[c][k]
  PROVE  /\ <<c, k, i>> \in Places(w)
         /\ ItemAt(w, <<c, k, i>>) = w.pages[c][k][i]
         /\ w.pages[c][k][i] \in Things(w)
<1>1. <<c, k, i>> \in {<<c, k, j>> : j \in DOMAIN w.pages[c][k]}
  OBVIOUS
<1>2. <<c, k, i>> \in UNION {{<<c, l, j>> : j \in DOMAIN w.pages[c][l]} : l \in DOMAIN w.pages[c]}
  <2> DEFINE P(l) == {<<c, l, j>> : j \in DOMAIN w.pages[c][l]}
  <2>1. <<c, k, i>> \in P(k)
    BY <1>1
  <2> HIDE DEF P
  <2>2. <<c, k, i>> \in UNION {P(l) : l \in DOMAIN w.pages[c]}
    BY <2>1, Zenon
  <2>q. QED  BY <2>2 DEF P
<1>3. <<c, k, i>> \in Places(w)
  <2> DEFINE P(d) == UNION {{<<d, l, j>> : j \in DOMAIN w.pages[d][l]} : l \in DOMAIN w.pages[d]}
  <2>1. <<c, k, i>> \in P(c)
    BY <1>2
  <2> HIDE DEF P
  <2>2. <<c, k, i>> \in UNION {P(d) : d \in DOMAIN w.pages}
    BY <2>1, Zenon
  <2>q. QED  BY <2>2 DEF P, Places
<1>4. w.pages[c][k][i] \in ToSet(w.pages[c][k])
  BY DEF ToSet
<1>5. w.pages[c][k][i] \in Things(w)
  BY <1>4, PageFacts, Zenon
<1>q. QED  BY <1>3, <1>5 DEF ItemAt

\* Items of different places have nothing in common.
LEMMA ItemsApart ==
  ASSUME NEW w \in Worlds, NEW p \in Places(w), NEW q \in Places(w), p # q
  PROVE  IdsOf(ItemAt(w, p)) \cap IdsOf(ItemAt(w, q)) = {}
<1>1. PlacedOnce(w)
  BY CrawlWorldsAssumption
<1>q. QED  BY <1>1 DEF PlacedOnce

\* The same, place by place; and no two ways lead to one folder.
LEMMA PlacesApart ==
  ASSUME NEW w \in Worlds,
         NEW c \in DOMAIN w.pages, NEW k \in DOMAIN w.pages[c], NEW i \in DOMAIN w.pages[c][k],
         NEW d \in DOMAIN w.pages, NEW l \in DOMAIN w.pages[d], NEW j \in DOMAIN w.pages[d][l],
         c # d \/ k # l \/ i # j
  PROVE  /\ IdsOf(w.pages[c][k][i]) \cap IdsOf(w.pages[d][l][j]) = {}
         /\ w.kind \notin {"gdrive", "onedrive"} /\ w.pages[c][k][i].what = "dir"
              /\ w.pages[d][l][j].what = "dir" =>
              w.pages[c][k][i].to # w.pages[d][l][j].to
<1> DEFINE p == <<c, k, i>>
           q == <<d, l, j>>
<1>1. p # q
  OBVIOUS
<1>2. p \in Places(w) /\ ItemAt(w, p) = w.pages[c][k][i]
  BY PlaceFacts
<1>3. q \in Places(w) /\ ItemAt(w, q) = w.pages[d][l][j]
  BY PlaceFacts
<1> HIDE DEF p, q
<1>4. OneWay(w)
  BY CrawlWorldsAssumption
<1>5. IdsOf(ItemAt(w, p)) \cap IdsOf(ItemAt(w, q)) = {}
  BY <1>1, <1>2, <1>3, ItemsApart
<1>6. w.kind \notin {"gdrive", "onedrive"} /\ ItemAt(w, p).what = "dir" /\ ItemAt(w, q).what = "dir"
        => ItemAt(w, p).to # ItemAt(w, q).to
  BY <1>1, <1>2, <1>3, <1>4, Zenon DEF OneWay
<1>q. QED  BY <1>2, <1>3, <1>5, <1>6

\* What the sources define holds of every thing.
LEMMA ThingFacts ==
  ASSUME NEW w \in Worlds, NEW x \in Things(w)
  PROVE  /\ IsSeq(x.files) /\ x.group \in Nat
         /\ x.what = "dir" => w.kind \in {"folder", "gdrive", "onedrive", "smb"}
                              /\ x.to \in DOMAIN w.pages /\ x.to # None
         /\ \A i, j \in DOMAIN x.files :
              x.files[i].id # x.id /\ (x.files[i].id = x.files[j].id => i = j)
         /\ w.kind \notin {"gdrive", "onedrive"} /\ x.what = "dir" => x.to # Root
<1>1. Typed(w) /\ PlacedOnce(w)
  BY CrawlWorldsAssumption
<1>2. /\ x.files \in Seq(ToSet(x.files)) /\ x.group \in Nat
      /\ x.what = "dir" => w.kind \in {"folder", "gdrive", "onedrive", "smb"}
                           /\ x.to \in DOMAIN w.pages
      /\ None \notin DOMAIN w.pages
  BY <1>1, Zenon DEF Typed
<1>3. \A i, j \in DOMAIN x.files :
        x.files[i].id # x.id /\ (x.files[i].id = x.files[j].id => i = j)
  BY <1>1, Zenon DEF PlacedOnce
<1>4. \E c \in DOMAIN w.pages : \E k \in DOMAIN w.pages[c] : \E i \in DOMAIN w.pages[c][k] :
        x = w.pages[c][k][i]
  <2>1. PICK c \in DOMAIN w.pages : x \in ItemsOf(w, c)
    BY DEF Things
  <2>2. PICK k \in DOMAIN w.pages[c] : x \in ToSet(w.pages[c][k])
    BY <2>1 DEF ItemsOf
  <2>q. QED  BY <2>2 DEF ToSet
<1>5. w.kind \notin {"gdrive", "onedrive"} /\ x.what = "dir" => x.to # Root
  <2>1. PICK c \in DOMAIN w.pages : \E k \in DOMAIN w.pages[c] : \E i \in DOMAIN w.pages[c][k] :
          x = w.pages[c][k][i]
    BY <1>4
  <2>2. PICK k \in DOMAIN w.pages[c] : \E i \in DOMAIN w.pages[c][k] : x = w.pages[c][k][i]
    BY <2>1
  <2>3. PICK i \in DOMAIN w.pages[c][k] : x = w.pages[c][k][i]
    BY <2>2
  <2>4. <<c, k, i>> \in Places(w) /\ ItemAt(w, <<c, k, i>>) = x
    BY <2>3, PlaceFacts
  <2>5. OneWay(w)
    BY CrawlWorldsAssumption
  <2>q. QED  BY <2>4, <2>5, Zenon DEF OneWay
<1>q. QED  BY <1>2, <1>3, <1>5 DEF IsSeq

-----------------------------------------------------------------------------
(* What a listing makes of a page *)

\* What the documents of a unit are made of.
From(u) == UNION {u.docs[m].from : m \in DOMAIN u.docs}

\* One of the items it is made of is a link.
LinkDoc(w, d) == \E x \in Things(w) : x.what = "link" /\ x.id \in d.from
\* Where files have names of their own, a document is named for what it is made of.
OwnPath(w, d) ==
  \/ w.kind \notin {"folder", "gdrive", "smb"} \/ d.from = {d.name}
  \/ w.kind = "folder" /\ LinkDoc(w, d)

\* A document of items of container c, which names what it is made of where its kind
\* has names of its own.
DocOf(w, c, items, d) ==
  /\ d.from # {} /\ d.from \subseteq UNION {IdsOf(x) : x \in items}
  /\ OwnPath(w, d)
  /\ w.kind = "slack" =>
       \E g : d.name = <<c, g>> /\ d.from = {x.id : x \in {y \in items : Said(y) /\ y.group = g}}
  /\ w.kind = "telegram" =>
       d.from = {x.id : x \in {y \in items : Said(y) /\ y.group = d.name}}

\* No two documents are made of one thing.
Apart(docs) == \A m, n \in DOMAIN docs : m # n => docs[m].from \cap docs[n].from = {}

\* What a listing of these items may leave to be read.
UnitOf(w, c, items, u) ==
  /\ IsSeq(u.docs) /\ Apart(u.docs)
  /\ u.into # None => u.docs = <<>> /\ \E x \in items : x.what = "dir" /\ u.into = x.to
  /\ \A m \in DOMAIN u.docs : DocOf(w, c, items, u.docs[m])

\* A listing leaves each thing once, all that is documented, and every folder.
Listed(w, c, items, left) ==
  /\ IsSeq(left)
  /\ \A i \in DOMAIN left : UnitOf(w, c, ToSet(items), left[i])
  /\ \A i, j \in DOMAIN left : i # j =>
       /\ From(left[i]) \cap From(left[j]) = {}
       /\ w.kind \notin {"gdrive", "onedrive"} /\ left[i].into = left[j].into =>
            left[i].into = None
  /\ \A x \in Offered(w, items) : Documented(w, x) => \E i \in DOMAIN left : x.id \in From(left[i])
  /\ \A x \in ToSet(items) : x.what = "dir" => \E i \in DOMAIN left : left[i].into = x.to

\* The kinds whose documents are made of several items.
Archives == {"slack", "telegram"}

\* One item is at most one document.
LEMMA SingleFacts ==
  ASSUME NEW take, NEW name, NEW x, x.what # "dir"
  PROVE  LET s == Single(take, name, x)
         IN /\ IsSeq(s) /\ Apart(s)
            /\ \A e \in ToSet(s) : e.from = {x.id} /\ e.name = name /\ {x.id} \subseteq IdsOf(x)
            /\ s # <<>> => \E e \in ToSet(s) : x.id \in e.from
<1> DEFINE d == Doc(name, {x.id}, x.text)
           s == Single(take, name, x)
<1>1. x.id \in IdsOf(x)
  BY DEF IdsOf
<1>2. d.from = {x.id} /\ d.name = name
  BY DEF Doc
<1>3. s = <<>> \/ s = <<d>>
  BY DEF Single
<1> HIDE DEF d, s
<1>4. CASE s = <<>>
  <2>1. IsSeq(s) /\ DOMAIN s = {}
    BY <1>4 DEF IsSeq
  <2>q. QED  BY <1>4, <2>1 DEF Apart, ToSet, s
<1>5. CASE s = <<d>>
  <2>1. DOMAIN s = {1} /\ s[1] = d /\ s \in Seq({d})
    BY <1>5
  <2>2. IsSeq(s)
    BY <2>1, SeqIsSeq
  <2>q. QED  BY <1>1, <1>2, <2>1, <2>2 DEF Apart, ToSet, s
<1>q. QED  BY <1>3, <1>4, <1>5

\* Documents of two makes, one after the other.
LEMMA JoinedDocs ==
  ASSUME NEW a, NEW b, IsSeq(a), IsSeq(b), Apart(a), Apart(b),
         \A m \in DOMAIN a : \A n \in DOMAIN b : a[m].from \cap b[n].from = {}
  PROVE  /\ IsSeq(a \o b) /\ Apart(a \o b) /\ ToSet(a \o b) = ToSet(a) \cup ToSet(b)
<1> DEFINE s == a \o b
<1>1. /\ IsSeq(s) /\ ToSet(s) = ToSet(a) \cup ToSet(b)
      /\ \A i \in DOMAIN a : i \in DOMAIN s /\ s[i] = a[i]
      /\ \A i \in DOMAIN b : s[Len(a) + i] = b[i]
      /\ \A i \in DOMAIN s : i \in DOMAIN a \/ \E j \in DOMAIN b : i = Len(a) + j
  BY JoinedFacts, Z3
<1> HIDE DEF s
<1>2. ASSUME NEW m \in DOMAIN s, NEW n \in DOMAIN s, m # n
      PROVE  s[m].from \cap s[n].from = {}
  <2>1. CASE m \in DOMAIN a /\ n \in DOMAIN a
    BY <1>1, <1>2, <2>1 DEF Apart
  <2>2. CASE m \in DOMAIN a /\ n \notin DOMAIN a
    BY <1>1, <2>2
  <2>3. CASE m \notin DOMAIN a /\ n \in DOMAIN a
    BY <1>1, <2>3
  <2>4. CASE m \notin DOMAIN a /\ n \notin DOMAIN a
    <3>1. PICK i \in DOMAIN b : m = Len(a) + i
      BY <1>1, <2>4
    <3>2. PICK j \in DOMAIN b : n = Len(a) + j
      BY <1>1, <2>4
    <3>3. i # j
      BY <1>2, <3>1, <3>2
    <3>q. QED  BY <1>1, <3>1, <3>2, <3>3 DEF Apart
  <2>q. QED  BY <2>1, <2>2, <2>3, <2>4
<1>3. Apart(s)
  BY <1>2 DEF Apart
<1>q. QED  BY <1>1, <1>3 DEF s

\* The attachments of a message that fit, one document each.
LEMMA AttachedFacts ==
  ASSUME NEW fs, NEW f, NEW I, IsSeq(fs), I \subseteq DOMAIN f, Picks(fs, f, I),
         \A i, j \in DOMAIN f : f[i].id = f[j].id => i = j
  PROVE  LET t == [i \in DOMAIN fs |-> Doc(fs[i].name, {fs[i].id}, fs[i].text)]
         IN IsSeq(t) /\ Apart(t) /\ \A d \in ToSet(t) : \E i \in DOMAIN f : d.from = {f[i].id}
<1> DEFINE t == [i \in DOMAIN fs |-> Doc(fs[i].name, {fs[i].id}, fs[i].text)]
<1>1. Len(fs) \in Nat /\ DOMAIN fs = 1 .. Len(fs)
  BY SeqFacts
<1>2. DOMAIN t = 1 .. Len(fs) /\ t = [i \in 1 .. Len(fs) |-> t[i]]
  BY <1>1
<1>3. PICK p \in [DOMAIN fs -> I] :
        /\ \A n \in DOMAIN fs : fs[n] = f[p[n]]
        /\ \A m, n \in DOMAIN fs : p[m] = p[n] => m = n
  BY DEF Picks
<1>4. \A n \in DOMAIN t : t[n].from = {f[p[n]].id} /\ p[n] \in DOMAIN f
  BY <1>3 DEF Doc
<1>5. DOMAIN t = DOMAIN fs
  OBVIOUS
<1> HIDE DEF t
<1>6. IsSeq(t)
  BY <1>1, <1>2, MadeSeq
<1>7. Apart(t)
  BY <1>3, <1>4, <1>5 DEF Apart
<1>8. \A d \in ToSet(t) : \E i \in DOMAIN f : d.from = {f[i].id}
  BY <1>4 DEF ToSet
<1>q. QED  BY <1>6, <1>7, <1>8 DEF t

\* A message and its attachments are different documents.
LEMMA MailFacts ==
  ASSUME NEW x, IsSeq(x.files), x.what # "dir",
         \A i, j \in DOMAIN x.files : x.files[i].id # x.id /\ (x.files[i].id = x.files[j].id => i = j)
  PROVE  LET s == MailDocs(x)
         IN /\ IsSeq(s) /\ Apart(s)
            /\ \A d \in ToSet(s) : d.from # {} /\ d.from \subseteq IdsOf(x)
            /\ x.fits => \E d \in ToSet(s) : x.id \in d.from
<1> DEFINE d == Doc(x.name, {x.id}, TRUE)
           hd == IF x.fits THEN <<d>> ELSE <<>>
           J == {i \in DOMAIN x.files : x.files[i].fits}
           fs == InOrder(x.files, J)
           tl == [i \in DOMAIN fs |-> Doc(fs[i].name, {fs[i].id}, fs[i].text)]
<1>1. MailDocs(x) = hd \o tl
  BY DEF MailDocs
<1>2. d.from = {x.id}
  BY DEF Doc
<1>3. J \subseteq DOMAIN x.files
  OBVIOUS
<1> HIDE DEF J
<1>4. IsSeq(fs) /\ Picks(fs, x.files, J)
  BY <1>3, InOrderFacts
<1> HIDE DEF fs
<1>5. /\ IsSeq(tl) /\ Apart(tl)
      /\ \A e \in ToSet(tl) : \E i \in DOMAIN x.files : e.from = {x.files[i].id}
  <2>1. \A i, j \in DOMAIN x.files : x.files[i].id = x.files[j].id => i = j
    OBVIOUS
  <2>q. QED  BY <1>3, <1>4, <2>1, AttachedFacts, Zenon
<1> HIDE DEF tl, d
<1>6. /\ IsSeq(hd) /\ Apart(hd) /\ \A e \in ToSet(hd) : e = d
      /\ x.fits => d \in ToSet(hd)
  <2>1. /\ <<d>> \in Seq({d}) /\ <<>> \in Seq({d}) /\ DOMAIN <<d>> = {1} /\ <<d>>[1] = d
        /\ DOMAIN <<>> = {}
    OBVIOUS
  <2>2. IsSeq(<<d>>) /\ IsSeq(<<>>)
    BY <2>1, SeqIsSeq
  <2>3. CASE x.fits
    <3>1. hd = <<d>>
      BY <2>3
    <3> HIDE DEF hd
    <3>q. QED  BY <2>1, <2>2, <3>1 DEF Apart, ToSet
  <2>4. CASE ~x.fits
    <3>1. hd = <<>>
      BY <2>4
    <3> HIDE DEF hd
    <3>q. QED  BY <2>1, <2>2, <2>4, <3>1 DEF Apart, ToSet
  <2>q. QED  BY <2>3, <2>4
<1> HIDE DEF hd
<1>7. \A m \in DOMAIN hd : \A n \in DOMAIN tl : hd[m].from \cap tl[n].from = {}
  <2>1. TAKE m \in DOMAIN hd
  <2>2. TAKE n \in DOMAIN tl
  <2>3. hd[m] = d /\ tl[n] \in ToSet(tl)
    BY <1>6 DEF ToSet
  <2>q. QED  BY <1>2, <1>5, <2>3
<1>8. /\ IsSeq(hd \o tl) /\ Apart(hd \o tl) /\ ToSet(hd \o tl) = ToSet(hd) \cup ToSet(tl)
  BY <1>5, <1>6, <1>7, JoinedDocs
<1>9. /\ x.id \in IdsOf(x)
      /\ \A i \in DOMAIN x.files : x.files[i].id \in IdsOf(x)
  BY DEF IdsOf
<1>10. \A e \in ToSet(hd) \cup ToSet(tl) : e.from # {} /\ e.from \subseteq IdsOf(x)
  BY <1>2, <1>5, <1>6, <1>9
<1>11. x.fits => \E e \in ToSet(hd) \cup ToSet(tl) : x.id \in e.from
  BY <1>2, <1>6
<1>q. QED  BY <1>1, <1>8, <1>10, <1>11

\* What there is of one item.
LEMMA DocsOfFacts ==
  ASSUME NEW w \in Worlds, NEW x \in Things(w), x.what # "dir", w.kind \notin Archives
  PROVE  LET s == DocsOf(w, x)
         IN /\ IsSeq(s) /\ Apart(s)
            /\ \A d \in ToSet(s) : d.from # {} /\ d.from \subseteq IdsOf(x)
            /\ \A d \in ToSet(s) : OwnPath(w, d)
            /\ Documented(w, x) => \E d \in ToSet(s) : x.id \in d.from
<1>1. w.kind \in Kinds
  BY CrawlWorldsAssumption, Zenon DEF Typed
<1> DEFINE s == DocsOf(w, x)
<1>2. CASE w.kind = "imap"
  <2>1. s = MailDocs(x)
    BY <1>2 DEF DocsOf
  <2>2. Documented(w, x) => x.fits
    BY <1>2 DEF Documented
  <2> HIDE DEF s
  <2>3. \A d : OwnPath(w, d)
    BY <1>2 DEF OwnPath
  <2>q. QED  BY <1>2, <2>1, <2>2, <2>3, ThingFacts, MailFacts DEF s
<1>3. CASE w.kind # "imap"
  <2> DEFINE Own(name) == \/ w.kind \notin {"folder", "gdrive", "smb"} \/ name = x.id
                          \/ w.kind = "folder" /\ x.what = "link"
  <2>1. \E take, name : s = Single(take, name, x) /\ Own(name)
    <3>1. CASE w.kind = "folder"
      <4>1. s = Single(FolderTakes(w, x), FolderName(x), x)
        BY <3>1 DEF DocsOf
      <4>2. Own(FolderName(x))
        BY <3>1 DEF FolderName
      <4> HIDE DEF s, Own
      <4>q. QED  BY <4>1, <4>2, Zenon
    <3>2. CASE w.kind = "url_list"
      BY <3>2, Zenon DEF DocsOf
    <3>3. CASE w.kind = "db_column"
      BY <3>3, Zenon DEF DocsOf
    <3>4. CASE w.kind = "gdrive"
      BY <3>4, Zenon DEF DocsOf, GdriveName
    <3>5. CASE w.kind = "onedrive"
      BY <3>5, Zenon DEF DocsOf
    <3>6. CASE w.kind = "smb"
      BY <3>6, Zenon DEF DocsOf, ShareName
    <3>q. QED  BY <1>1, <1>3, <3>1, <3>2, <3>3, <3>4, <3>5, <3>6 DEF Kinds, Archives
  <2>2. Documented(w, x) => s # <<>>
    BY DEF Documented, Archives
  <2> HIDE DEF s
  <2>3. PICK take, name : s = Single(take, name, x) /\ Own(name)
    BY <2>1
  <2>4. /\ IsSeq(s) /\ Apart(s)
        /\ \A e \in ToSet(s) : e.from = {x.id} /\ e.name = name /\ {x.id} \subseteq IdsOf(x)
        /\ s # <<>> => \E e \in ToSet(s) : x.id \in e.from
    BY <2>3, SingleFacts
  <2>5. ASSUME NEW d \in ToSet(s)  PROVE OwnPath(w, d)
    <3>1. d.from = {x.id} /\ d.name = name
      BY <2>4
    <3>2. w.kind = "folder" /\ x.what = "link" => LinkDoc(w, d)
      BY <3>1 DEF LinkDoc
    <3>q. QED  BY <2>3, <3>1, <3>2 DEF OwnPath
  <2>q. QED  BY <2>2, <2>4, <2>5 DEF s
<1>q. QED  BY <1>2, <1>3

\* There is no document of a folder.
LEMMA FoldersApart ==
  ASSUME NEW w \in Worlds, NEW x \in Things(w), x.what = "dir", w.kind \notin Archives
  PROVE  ~Documented(w, x)
<1>1. w.kind \in {"folder", "gdrive", "onedrive", "smb"}
  BY ThingFacts
<1>2. DocsOf(w, x) = <<>>
  <2>1. CASE w.kind = "folder"
    <3>1. DocsOf(w, x) = Single(FolderTakes(w, x), FolderName(x), x)
      BY <2>1 DEF DocsOf
    <3>q. QED  BY <3>1 DEF Single, FolderTakes
  <2>2. CASE w.kind = "gdrive"
    <3>1. DocsOf(w, x) = Single(GdriveTakes(w, x), GdriveName(x), x)
      BY <2>2 DEF DocsOf
    <3>q. QED  BY <3>1 DEF Single, GdriveTakes
  <2>3. CASE w.kind = "onedrive"
    <3>1. DocsOf(w, x) = Single(OneDriveTakes(w, x), OneDriveName(x), x)
      BY <2>3 DEF DocsOf
    <3>q. QED  BY <3>1 DEF Single, OneDriveTakes
  <2>4. CASE w.kind = "smb"
    <3>1. DocsOf(w, x) = Single(ShareTakes(w, x), ShareName(x), x)
      BY <2>4 DEF DocsOf
    <3>q. QED  BY <3>1 DEF Single, ShareTakes
  <2>q. QED  BY <1>1, <2>1, <2>2, <2>3, <2>4
<1>q. QED  BY <1>2 DEF Documented, Archives

\* One item, one unit.
LEMMA ItemUnitFacts ==
  ASSUME NEW w \in Worlds, NEW c, NEW x \in Things(w), w.kind \notin Archives,
         NEW items, x \in items,
         NEW u, u = IF x.what = "dir" THEN Unit(x.id, x.to, <<>>) ELSE Unit(x.id, None, DocsOf(w, x))
  PROVE  /\ UnitOf(w, c, items, u)
         /\ From(u) \subseteq IdsOf(x)
         /\ Documented(w, x) => x.id \in From(u)
         /\ x.what = "dir" => u.into = x.to
         /\ u.into # None => x.what = "dir" /\ u.into = x.to
<1>1. CASE x.what = "dir"
  <2>1. u.docs = <<>> /\ u.into = x.to
    BY <1>1 DEF Unit
  <2>2. IsSeq(<<>>) /\ DOMAIN <<>> = {}
    BY DEF IsSeq
  <2>3. UnitOf(w, c, items, u)
    BY <1>1, <2>1, <2>2 DEF UnitOf, Apart
  <2>4. From(u) = {}
    BY <2>1, <2>2 DEF From
  <2>q. QED  BY <1>1, <2>1, <2>3, <2>4, FoldersApart
<1>2. CASE x.what # "dir"
  <2> DEFINE s == DocsOf(w, x)
  <2>1. u.docs = s /\ u.into = None
    BY <1>2 DEF Unit
  <2>2. /\ IsSeq(s) /\ Apart(s)
        /\ \A d \in ToSet(s) : d.from # {} /\ d.from \subseteq IdsOf(x)
        /\ \A d \in ToSet(s) : OwnPath(w, d)
        /\ Documented(w, x) => \E d \in ToSet(s) : x.id \in d.from
    BY <1>2, DocsOfFacts
  <2> HIDE DEF s
  <2>3. \A m \in DOMAIN s : s[m] \in ToSet(s)
    BY DEF ToSet
  <2>4. IdsOf(x) \subseteq UNION {IdsOf(y) : y \in items}
    OBVIOUS
  <2>5. ASSUME NEW m \in DOMAIN s  PROVE DocOf(w, c, items, s[m])
    <3>1. s[m].from # {} /\ s[m].from \subseteq IdsOf(x)
      BY <2>2, <2>3
    <3>2. OwnPath(w, s[m])
      BY <2>2, <2>3
    <3>3. s[m].from \subseteq UNION {IdsOf(y) : y \in items}
      BY <2>4, <3>1, Zenon
    <3>q. QED  BY <3>1, <3>2, <3>3 DEF DocOf, Archives
  <2>6. UnitOf(w, c, items, u)
    BY <2>1, <2>2, <2>5, Zenon DEF UnitOf
  <2>7. From(u) = UNION {s[m].from : m \in DOMAIN s}
    BY <2>1 DEF From
  <2>8. From(u) \subseteq IdsOf(x)
    BY <2>2, <2>3, <2>7
  <2>9. Documented(w, x) => x.id \in From(u)
    BY <2>2, <2>7 DEF ToSet
  <2>q. QED  BY <1>2, <2>1, <2>6, <2>8, <2>9
<1>q. QED  BY <1>1, <1>2

\* Items that have nothing in common, one after the other.
Different(w, t) ==
  \A i, j \in DOMAIN t : i # j =>
    /\ IdsOf(t[i]) \cap IdsOf(t[j]) = {}
    /\ w.kind \notin {"gdrive", "onedrive"} /\ t[i].what = "dir" /\ t[j].what = "dir" =>
         t[i].to # t[j].to

\* The items of a page, each a unit of its own.
LEMMA ItemUnitsFacts ==
  ASSUME NEW w \in Worlds, NEW c, w.kind \notin Archives,
         NEW items, IsSeq(items), NEW t, IsSeq(t), ToSet(t) \subseteq ToSet(items),
         ToSet(items) \subseteq Things(w), Different(w, t),
         \A x \in Offered(w, items) : Documented(w, x) => x \in ToSet(t),
         \A x \in ToSet(items) : x.what = "dir" => x \in ToSet(t)
  PROVE  Listed(w, c, items, ItemUnits(w, t))
<1> DEFINE u(x) == IF x.what = "dir" THEN Unit(x.id, x.to, <<>>)
                   ELSE Unit(x.id, None, DocsOf(w, x))
           left == ItemUnits(w, t)
<1>1. left = [i \in DOMAIN t |-> u(t[i])]
  BY DEF ItemUnits
<1>2. Len(t) \in Nat /\ DOMAIN t = 1 .. Len(t) /\ \A i \in DOMAIN t : t[i] \in ToSet(t)
  BY SeqFacts
<1>3. DOMAIN left = DOMAIN t /\ \A i \in DOMAIN t : left[i] = u(t[i])
  BY <1>1
<1>4. IsSeq(left)
  <2>1. DOMAIN left = 1 .. Len(t) /\ left = [i \in 1 .. Len(t) |-> left[i]]
    BY <1>1, <1>2
  <2> HIDE DEF left
  <2>q. QED  BY <1>2, <2>1, MadeSeq
<1>5. ASSUME NEW i \in DOMAIN left
      PROVE  /\ UnitOf(w, c, ToSet(items), left[i])
             /\ From(left[i]) \subseteq IdsOf(t[i])
             /\ Documented(w, t[i]) => t[i].id \in From(left[i])
             /\ t[i].what = "dir" => left[i].into = t[i].to
             /\ left[i].into # None => t[i].what = "dir" /\ left[i].into = t[i].to
  <2>1. t[i] \in ToSet(items) /\ t[i] \in Things(w) /\ left[i] = u(t[i])
    BY <1>2, <1>3
  <2> HIDE DEF left
  <2>q. QED  BY <2>1, ItemUnitFacts, Zenon
<1> HIDE DEF left
<1>6. ASSUME NEW i \in DOMAIN left, NEW j \in DOMAIN left, i # j
      PROVE  /\ From(left[i]) \cap From(left[j]) = {}
             /\ w.kind \notin {"gdrive", "onedrive"} /\ left[i].into = left[j].into =>
                  left[i].into = None
  <2>1. /\ IdsOf(t[i]) \cap IdsOf(t[j]) = {}
        /\ w.kind \notin {"gdrive", "onedrive"} /\ t[i].what = "dir" /\ t[j].what = "dir" =>
             t[i].to # t[j].to
    BY <1>3, <1>6, Zenon DEF Different
  <2>2. From(left[i]) \subseteq IdsOf(t[i]) /\ From(left[j]) \subseteq IdsOf(t[j])
    BY <1>5
  <2>3. /\ left[i].into # None => t[i].what = "dir" /\ left[i].into = t[i].to
        /\ left[j].into # None => t[j].what = "dir" /\ left[j].into = t[j].to
    BY <1>5
  <2>q. QED  BY <2>1, <2>2, <2>3
<1>7. ASSUME NEW x \in ToSet(t)
      PROVE  /\ Documented(w, x) => \E i \in DOMAIN left : x.id \in From(left[i])
             /\ x.what = "dir" => \E i \in DOMAIN left : left[i].into = x.to
  <2>1. PICK i \in DOMAIN t : x = t[i]
    BY DEF ToSet
  <2>q. QED  BY <1>3, <1>5, <2>1
<1>8. \A x \in Offered(w, items) : Documented(w, x) => \E i \in DOMAIN left : x.id \in From(left[i])
  BY <1>7
<1>9. \A x \in ToSet(items) : x.what = "dir" => \E i \in DOMAIN left : left[i].into = x.to
  BY <1>7
<1>q. QED  BY <1>4, <1>5, <1>6, <1>8, <1>9, Zenon DEF Listed, left

\* What holds of two items of a page holds of two that are picked from it.
LEMMA PickedFacts ==
  ASSUME NEW w, NEW s, NEW I, I \subseteq DOMAIN s, NEW t, Picks(t, s, I)
  PROVE  /\ ToSet(t) = {s[i] : i \in I}
         /\ Different(w, s) => Different(w, t)
<1>1. PICK p \in [DOMAIN t -> I] :
        /\ \A n \in DOMAIN t : t[n] = s[p[n]]
        /\ \A i \in I : \E n \in DOMAIN t : p[n] = i
        /\ \A m, n \in DOMAIN t : p[m] = p[n] => m = n
  BY DEF Picks
<1>2. \A n \in DOMAIN t : p[n] \in I
  BY <1>1
<1>3. ToSet(t) = {s[i] : i \in I}
  <2>1. ToSet(t) \subseteq {s[i] : i \in I}
    BY <1>1, <1>2 DEF ToSet
  <2>2. ASSUME NEW i \in I  PROVE s[i] \in ToSet(t)
    <3>1. PICK n \in DOMAIN t : p[n] = i
      BY <1>1
    <3>q. QED  BY <1>1, <3>1 DEF ToSet
  <2>q. QED  BY <2>1, <2>2
<1>4. ASSUME Different(w, s), NEW m \in DOMAIN t, NEW n \in DOMAIN t, m # n
      PROVE  /\ IdsOf(t[m]) \cap IdsOf(t[n]) = {}
             /\ w.kind \notin {"gdrive", "onedrive"} /\ t[m].what = "dir" /\ t[n].what = "dir" =>
                  t[m].to # t[n].to
  <2>1. p[m] \in DOMAIN s /\ p[n] \in DOMAIN s /\ p[m] # p[n]
    BY <1>1, <1>2, <1>4
  <2>2. /\ IdsOf(s[p[m]]) \cap IdsOf(s[p[n]]) = {}
        /\ w.kind \notin {"gdrive", "onedrive"} /\ s[p[m]].what = "dir" /\ s[p[n]].what = "dir" =>
             s[p[m]].to # s[p[n]].to
    BY <1>4, <2>1, Zenon DEF Different
  <2>q. QED  BY <1>1, <2>2
<1>q. QED  BY <1>3, <1>4 DEF Different

\* The newest mails are mails of the page.
LEMMA NewestFacts ==
  ASSUME NEW w \in Worlds, NEW items, IsSeq(items), Different(w, items)
  PROVE  /\ IsSeq(NewestMails(w, items)) /\ Different(w, NewestMails(w, items))
         /\ ToSet(NewestMails(w, items)) \subseteq ToSet(items)
<1> DEFINE F == {i \in DOMAIN items : items[i].found}
           I == {i \in F : Cardinality({j \in F : i < j}) < w.limit}
           t == NewestMails(w, items)
<1>1. t = InOrder(items, I)
  BY DEF NewestMails
<1>2. I \subseteq DOMAIN items
  OBVIOUS
<1> HIDE DEF F, I, t
<1>3. IsSeq(t) /\ Picks(t, items, I)
  BY <1>1, <1>2, InOrderFacts
<1>4. ToSet(t) = {items[i] : i \in I} /\ Different(w, t)
  BY <1>2, <1>3, PickedFacts
<1>5. ToSet(t) \subseteq ToSet(items)
  BY <1>2, <1>4 DEF ToSet
<1>q. QED  BY <1>3, <1>4, <1>5 DEF t

\* Addresses and paths are the rows that are one or the other.
LEMMA RowFacts ==
  ASSUME NEW w \in Worlds, NEW items, IsSeq(items), Different(w, items)
  PROVE  /\ IsSeq(RowsInOrder(w, items)) /\ Different(w, RowsInOrder(w, items))
         /\ ToSet(RowsInOrder(w, items)) =
              {items[i] : i \in {j \in DOMAIN items :
                                   j <= w.limit /\ RowTarget(w, items[j]) \in {"url", "path"}}}
<1> DEFINE I(target) == {i \in DOMAIN items : i <= w.limit /\ RowTarget(w, items[i]) = target}
           a == RowsFor(w, items, "url")
           b == RowsFor(w, items, "path")
           t == RowsInOrder(w, items)
<1>1. ASSUME NEW target
      PROVE  LET r == RowsFor(w, items, target)
             IN /\ IsSeq(r) /\ Different(w, r)
                /\ ToSet(r) = {items[i] : i \in I(target)}
                /\ Picks(r, items, I(target))
  <2> DEFINE J == I(target)
             r == RowsFor(w, items, target)
  <2>1. r = InOrder(items, J) /\ J \subseteq DOMAIN items
    BY DEF RowsFor
  <2> HIDE DEF J, r
  <2>2. IsSeq(r) /\ Picks(r, items, J)
    BY <2>1, InOrderFacts
  <2>3. ToSet(r) = {items[i] : i \in J} /\ Different(w, r)
    BY <2>1, <2>2, PickedFacts
  <2>q. QED  BY <2>2, <2>3 DEF J, r
<1>2. t = a \o b
  BY DEF RowsInOrder
<1>3. /\ IsSeq(a) /\ Different(w, a) /\ ToSet(a) = {items[i] : i \in I("url")}
      /\ Picks(a, items, I("url"))
  BY <1>1
<1>4. /\ IsSeq(b) /\ Different(w, b) /\ ToSet(b) = {items[i] : i \in I("path")}
      /\ Picks(b, items, I("path"))
  BY <1>1
<1> HIDE DEF a, b, t
<1>5. /\ IsSeq(t) /\ ToSet(t) = ToSet(a) \cup ToSet(b)
      /\ \A i \in DOMAIN a : t[i] = a[i]
      /\ \A i \in DOMAIN b : t[Len(a) + i] = b[i]
      /\ \A i \in DOMAIN t : i \in DOMAIN a \/ \E j \in DOMAIN b : i = Len(a) + j
  BY <1>2, <1>3, <1>4, JoinedFacts, Z3
<1>6. ASSUME NEW m \in DOMAIN a, NEW n \in DOMAIN b
      PROVE  /\ IdsOf(a[m]) \cap IdsOf(b[n]) = {}
             /\ w.kind \notin {"gdrive", "onedrive"} /\ a[m].what = "dir" /\ b[n].what = "dir" =>
                  a[m].to # b[n].to
  <2>1. \E i \in I("url") : a[m] = items[i]
    BY <1>3 DEF ToSet
  <2>2. \E j \in I("path") : b[n] = items[j]
    BY <1>4 DEF ToSet
  <2>3. PICK i \in DOMAIN items : RowTarget(w, items[i]) = "url" /\ a[m] = items[i]
    BY <2>1
  <2>4. PICK j \in DOMAIN items : RowTarget(w, items[j]) = "path" /\ b[n] = items[j]
    BY <2>2
  <2>5. i # j
    BY <2>3, <2>4
  <2>6. /\ IdsOf(items[i]) \cap IdsOf(items[j]) = {}
        /\ w.kind \notin {"gdrive", "onedrive"} /\ items[i].what = "dir" /\ items[j].what = "dir" =>
             items[i].to # items[j].to
    BY <2>5, Zenon DEF Different
  <2>q. QED  BY <2>3, <2>4, <2>6
<1>7. ASSUME NEW m \in DOMAIN t, NEW n \in DOMAIN t, m # n
      PROVE  /\ IdsOf(t[m]) \cap IdsOf(t[n]) = {}
             /\ w.kind \notin {"gdrive", "onedrive"} /\ t[m].what = "dir" /\ t[n].what = "dir" =>
                  t[m].to # t[n].to
  <2>1. CASE m \in DOMAIN a /\ n \in DOMAIN a
    BY <1>3, <1>5, <1>7, <2>1 DEF Different
  <2>2. CASE m \in DOMAIN a /\ n \notin DOMAIN a
    <3>1. PICK j \in DOMAIN b : n = Len(a) + j
      BY <1>5, <2>2
    <3>q. QED  BY <1>5, <1>6, <2>2, <3>1
  <2>3. CASE m \notin DOMAIN a /\ n \in DOMAIN a
    <3>1. PICK j \in DOMAIN b : m = Len(a) + j
      BY <1>5, <2>3
    <3>q. QED  BY <1>5, <1>6, <2>3, <3>1
  <2>4. CASE m \notin DOMAIN a /\ n \notin DOMAIN a
    <3>1. PICK i \in DOMAIN b : m = Len(a) + i
      BY <1>5, <2>4
    <3>2. PICK j \in DOMAIN b : n = Len(a) + j
      BY <1>5, <2>4
    <3>3. i # j
      BY <1>7, <3>1, <3>2
    <3>q. QED  BY <1>4, <1>5, <3>1, <3>2, <3>3 DEF Different
  <2>q. QED  BY <2>1, <2>2, <2>3, <2>4
<1>8. Different(w, t)
  BY <1>7 DEF Different
<1>9. ToSet(t) = {items[i] : i \in {j \in DOMAIN items :
                                   j <= w.limit /\ RowTarget(w, items[j]) \in {"url", "path"}}}
  BY <1>3, <1>4, <1>5
<1>q. QED  BY <1>5, <1>8, <1>9 DEF t

\* A page of items.
LEMMA PageListed ==
  ASSUME NEW w \in Worlds, NEW c, w.kind \notin Archives, NEW items, IsSeq(items),
         ToSet(items) \subseteq Things(w), Different(w, items)
  PROVE  Listed(w, c, items, Units(w, c, items))
<1>1. CASE w.kind = "imap"
  <2> DEFINE t == NewestMails(w, items)
  <2>1. IsSeq(t) /\ Different(w, t) /\ ToSet(t) \subseteq ToSet(items)
    BY NewestFacts
  <2>2. Offered(w, items) = ToSet(t) /\ Units(w, c, items) = ItemUnits(w, t)
    BY <1>1 DEF Offered, Units
  <2>3. \A x \in ToSet(items) : x.what # "dir"
    BY <1>1, ThingFacts
  <2> HIDE DEF t
  <2>q. QED  BY <2>1, <2>2, <2>3, ItemUnitsFacts
<1>2. CASE w.kind = "db_column"
  <2> DEFINE t == RowsInOrder(w, items)
  <2>1. /\ IsSeq(t) /\ Different(w, t)
        /\ ToSet(t) = {items[i] : i \in {j \in DOMAIN items :
                         j <= w.limit /\ RowTarget(w, items[j]) \in {"url", "path"}}}
    BY RowFacts
  <2>2. /\ Offered(w, items) = {items[i] : i \in {j \in DOMAIN items : j <= w.limit}}
        /\ Units(w, c, items) = ItemUnits(w, t)
    BY <1>2 DEF Offered, Units
  <2>3. \A x \in ToSet(items) : x.what # "dir"
    BY <1>2, ThingFacts
  <2> HIDE DEF t
  <2>4. ASSUME NEW x, Documented(w, x)  PROVE RowTarget(w, x) \in {"url", "path"}
    <3>1. DocsOf(w, x) # <<>>
      BY <1>2, <2>4 DEF Documented
    <3>2. DocsOf(w, x) = Single(RowTakes(w, x), UrlName(x), x)
      BY <1>2 DEF DocsOf
    <3>3. RowTakes(w, x)
      BY <3>1, <3>2 DEF Single
    <3>q. QED  BY <3>3 DEF RowTakes, RowTarget
  <2>5. \A x \in Offered(w, items) : Documented(w, x) => x \in ToSet(t)
    BY <2>1, <2>2, <2>4
  <2>6. ToSet(t) \subseteq ToSet(items)
    BY <2>1 DEF ToSet
  <2>q. QED  BY <2>1, <2>2, <2>3, <2>5, <2>6, ItemUnitsFacts
<1>3. CASE w.kind \notin {"imap", "db_column"}
  <2>1. Offered(w, items) = ToSet(items) /\ Units(w, c, items) = ItemUnits(w, items)
    BY <1>3 DEF Offered, Units, Archives
  <2>q. QED  BY <2>1, ItemUnitsFacts
<1>q. QED  BY <1>1, <1>2, <1>3

\* Two things have nothing in common.
LEMMA ThingsApart ==
  ASSUME NEW w \in Worlds, NEW x \in Things(w), NEW y \in Things(w), x # y
  PROVE  IdsOf(x) \cap IdsOf(y) = {}
<1>1. ASSUME NEW z \in Things(w)
      PROVE  \E p \in Places(w) : z = ItemAt(w, p)
  <2>1. PICK c \in DOMAIN w.pages : z \in ItemsOf(w, c)
    BY DEF Things
  <2>2. PICK k \in DOMAIN w.pages[c] : z \in ToSet(w.pages[c][k])
    BY <2>1 DEF ItemsOf
  <2>3. PICK i \in DOMAIN w.pages[c][k] : z = w.pages[c][k][i]
    BY <2>2 DEF ToSet
  <2>4. <<c, k, i>> \in Places(w) /\ ItemAt(w, <<c, k, i>>) = z
    BY <2>3, PlaceFacts
  <2>q. QED  BY <2>4
<1>2. PICK p \in Places(w) : x = ItemAt(w, p)
  BY <1>1
<1>3. PICK q \in Places(w) : y = ItemAt(w, q)
  BY <1>1
<1>4. PlacedOnce(w) /\ p # q
  BY <1>2, <1>3, CrawlWorldsAssumption
<1>q. QED  BY <1>2, <1>3, <1>4, Zenon DEF PlacedOnce

\* What is said in one thread, or on one day.
Grouped(items, g) == {x.id : x \in {y \in items : Said(y) /\ y.group = g}}

\* Two threads, or days, have nothing in common.
LEMMA GroupFacts ==
  ASSUME NEW w \in Worlds, NEW items, items \subseteq Things(w), NEW g
  PROVE  /\ \A h : g # h => Grouped(items, g) \cap Grouped(items, h) = {}
         /\ Grouped(items, g) \subseteq UNION {IdsOf(x) : x \in items}
         /\ \A x \in items : Said(x) /\ x.group = g => x.id \in Grouped(items, g)
<1>1. \A x \in items : Said(x) => x.id \in IdsOf(x)
  BY DEF Said, IdsOf
<1>2. ASSUME NEW h, g # h  PROVE Grouped(items, g) \cap Grouped(items, h) = {}
  <2>1. ASSUME NEW x \in items, NEW y \in items, Said(x), Said(y), x.group = g, y.group = h
        PROVE  x.id # y.id
    <3>1. x # y /\ x \in Things(w) /\ y \in Things(w)
      BY <1>2, <2>1
    <3>2. IdsOf(x) \cap IdsOf(y) = {}
      BY <3>1, ThingsApart
    <3>q. QED  BY <1>1, <2>1, <3>2
  <2>q. QED  BY <2>1 DEF Grouped
<1>3. Grouped(items, g) \subseteq UNION {IdsOf(x) : x \in items}
  BY <1>1 DEF Grouped
<1>4. \A x \in items : Said(x) /\ x.group = g => x.id \in Grouped(items, g)
  BY DEF Grouped
<1>q. QED  BY <1>2, <1>3, <1>4

\* One unit for each group of messages.
LEMMA GroupsListed ==
  ASSUME NEW w \in Worlds, w.kind \in Archives, NEW c, NEW items, IsSeq(items),
         ToSet(items) \subseteq Things(w),
         NEW docs, IsSeq(docs), NEW gs,
         \A m, n \in DOMAIN docs : gs[m] = gs[n] => m = n,
         \A n \in DOMAIN docs :
           /\ docs[n].from = Grouped(ToSet(items), gs[n])
           /\ \E x \in ToSet(items) : Said(x) /\ x.group = gs[n]
           /\ w.kind = "slack" => docs[n].name = <<c, gs[n]>>
           /\ w.kind = "telegram" => docs[n].name = gs[n],
         \A x \in ToSet(items) : Said(x) /\ x.text => \E n \in DOMAIN docs : gs[n] = x.group
  PROVE  Listed(w, c, items, DocUnits(docs))
<1> DEFINE left == DocUnits(docs)
           S == ToSet(items)
<1>1. Len(docs) \in Nat /\ DOMAIN docs = 1 .. Len(docs)
  BY SeqFacts
<1>2. left = [i \in DOMAIN docs |-> Unit(docs[i].name, None, <<docs[i]>>)]
  BY DEF DocUnits
<1>3. DOMAIN left = DOMAIN docs /\ IsSeq(left)
  <2>1. DOMAIN left = 1 .. Len(docs) /\ left = [i \in 1 .. Len(docs) |-> left[i]]
    BY <1>1, <1>2
  <2> HIDE DEF left
  <2>q. QED  BY <1>1, <2>1, MadeSeq
<1>4. \A i \in DOMAIN left : left[i].docs = <<docs[i]>> /\ left[i].into = None
  BY <1>2 DEF Unit
<1> HIDE DEF left
<1>5. ASSUME NEW i \in DOMAIN left
      PROVE  /\ UnitOf(w, c, S, left[i])
             /\ From(left[i]) = Grouped(S, gs[i])
  <2> DEFINE d == docs[i]
             s == <<d>>
  <2>1. /\ d.from = Grouped(S, gs[i])
        /\ \E x \in S : Said(x) /\ x.group = gs[i]
        /\ w.kind = "slack" => d.name = <<c, gs[i]>>
        /\ w.kind = "telegram" => d.name = gs[i]
    BY <1>3
  <2> HIDE DEF d
  <2>2. s \in Seq({d}) /\ DOMAIN s = {1} /\ s[1] = d
    OBVIOUS
  <2>3. left[i].docs = s /\ left[i].into = None
    BY <1>4 DEF d
  <2> HIDE DEF s
  <2>4. IsSeq(s) /\ Apart(s)
    BY <2>2, SeqIsSeq DEF Apart
  <2>5. DocOf(w, c, S, d)
    <3>1. d.from # {} /\ d.from \subseteq UNION {IdsOf(x) : x \in S}
      BY <2>1, GroupFacts
    <3>2. OwnPath(w, d)
      BY DEF OwnPath, Archives
    <3>3. w.kind = "slack" =>
            \E g : d.name = <<c, g>> /\ d.from = {x.id : x \in {y \in S : Said(y) /\ y.group = g}}
      BY <2>1, Zenon DEF Grouped
    <3>4. w.kind = "telegram" =>
            d.from = {x.id : x \in {y \in S : Said(y) /\ y.group = d.name}}
      BY <2>1 DEF Grouped
    <3>q. QED  BY <3>1, <3>2, <3>3, <3>4, Zenon DEF DocOf
  <2>6. UnitOf(w, c, S, left[i])
    BY <2>2, <2>3, <2>4, <2>5 DEF UnitOf
  <2>7. From(left[i]) = d.from
    BY <2>2, <2>3 DEF From
  <2>q. QED  BY <2>1, <2>6, <2>7
<1>6. ASSUME NEW i \in DOMAIN left, NEW j \in DOMAIN left, i # j
      PROVE  From(left[i]) \cap From(left[j]) = {} /\ left[i].into = None
  <2>1. gs[i] # gs[j]
    BY <1>3, <1>6
  <2>2. S \subseteq Things(w)
    OBVIOUS
  <2> HIDE DEF S
  <2>3. Grouped(S, gs[i]) \cap Grouped(S, gs[j]) = {}
    BY <2>1, <2>2, GroupFacts
  <2>q. QED  BY <1>4, <1>5, <2>3
<1>7. \A x \in Offered(w, items) : Documented(w, x) => \E i \in DOMAIN left : x.id \in From(left[i])
  <2>1. Offered(w, items) = S
    BY DEF Offered, Archives
  <2>2. ASSUME NEW x \in S, Documented(w, x)
        PROVE  \E i \in DOMAIN left : x.id \in From(left[i])
    <3>1. Said(x) /\ x.text
      BY <2>2 DEF Documented, Archives
    <3>2. PICK n \in DOMAIN docs : gs[n] = x.group
      BY <3>1
    <3>3. x.id \in Grouped(S, gs[n])
      BY <3>1, <3>2, GroupFacts
    <3>q. QED  BY <1>3, <1>5, <3>3
  <2>q. QED  BY <2>1, <2>2
<1>8. \A x \in S : x.what # "dir"
  BY ThingFacts DEF Archives
<1>q. QED  BY <1>3, <1>5, <1>6, <1>7, <1>8, Zenon DEF Listed, left

\* The threads of a channel.
LEMMA ThreadsListed ==
  ASSUME NEW w \in Worlds, w.kind = "slack", NEW c, NEW items, IsSeq(items),
         ToSet(items) \subseteq Things(w)
  PROVE  Listed(w, c, items, Units(w, c, items))
<1> DEFINE I == Firsts(items)
           fs == InOrder(items, I)
           docs == ThreadDocs(w, c, items)
           gs == [n \in DOMAIN fs |-> fs[n].group]
<1>1. DOMAIN items = 1 .. Len(items) /\ Len(items) \in Nat
  BY SeqFacts
<1>2. I \subseteq DOMAIN items
  BY DEF Firsts
<1>3. \A i \in I : /\ Said(items[i])
                   /\ \A j \in 1 .. (i - 1) : items[j] \notin InGroup(items, items[i].group)
  BY DEF Firsts
<1>4. docs = [i \in DOMAIN fs |-> Doc(<<c, fs[i].group>>, Grouped(ToSet(items), fs[i].group), TRUE)]
  BY DEF ThreadDocs, InGroup, Grouped
<1>5. Units(w, c, items) = DocUnits(docs)
  BY DEF Units
<1>6. \A x \in ToSet(items) : Said(x) => \E i \in I : items[i].group = x.group
  <2>1. TAKE x \in ToSet(items)
  <2>2. HAVE Said(x)
  <2> DEFINE G == {i \in DOMAIN items : Said(items[i]) /\ items[i].group = x.group}
  <2>3. PICK k \in DOMAIN items : x = items[k]
    BY DEF ToSet
  <2>4. k \in G
    BY <2>2, <2>3
  <2>5. G \in SUBSET Nat
    BY <1>1
  <2>6. PICK i \in G : \A j \in G : i <= j
    <3> HIDE DEF G
    <3>q. QED  BY <2>4, <2>5, LeastOne
  <2>7. i \in DOMAIN items /\ Said(items[i]) /\ items[i].group = x.group
    OBVIOUS
  <2>8. ASSUME NEW j \in 1 .. (i - 1)  PROVE items[j] \notin InGroup(items, items[i].group)
    <3>1. j \in DOMAIN items /\ ~(i <= j)
      BY <1>1, <2>7, <2>8
    <3>2. j \notin G
      <4> HIDE DEF G
      <4>q. QED  BY <2>6, <3>1
    <3>q. QED  BY <2>7, <3>1, <3>2 DEF InGroup
  <2>9. i \in I
    BY <2>7, <2>8 DEF Firsts
  <2>q. QED  BY <2>7, <2>9
<1>7. \A i, j \in I : items[i].group = items[j].group => i = j
  <2>1. TAKE i, j \in I
  <2>2. HAVE items[i].group = items[j].group
  <2>3. i \in DOMAIN items /\ j \in DOMAIN items
    BY <1>2
  <2>4. items[i] \in InGroup(items, items[j].group) /\ items[j] \in InGroup(items, items[i].group)
    BY <1>3, <2>2, <2>3 DEF InGroup, ToSet
  <2>5. i \notin 1 .. (j - 1) /\ j \notin 1 .. (i - 1)
    BY <1>3, <2>4
  <2>q. QED  BY <1>1, <2>3, <2>5
<1> HIDE DEF I
<1>8. IsSeq(fs) /\ Picks(fs, items, I)
  BY <1>2, InOrderFacts
<1> HIDE DEF fs
<1>9. PICK p \in [DOMAIN fs -> I] :
        /\ \A n \in DOMAIN fs : fs[n] = items[p[n]]
        /\ \A i \in I : \E n \in DOMAIN fs : p[n] = i
        /\ \A m, n \in DOMAIN fs : p[m] = p[n] => m = n
  BY <1>8 DEF Picks
<1>10. \A n \in DOMAIN fs : p[n] \in I /\ p[n] \in DOMAIN items
  BY <1>2, <1>9
<1>11. IsSeq(docs) /\ DOMAIN docs = DOMAIN fs
  <2>1. Len(fs) \in Nat /\ DOMAIN fs = 1 .. Len(fs)
    BY <1>8, SeqFacts
  <2>2. DOMAIN docs = 1 .. Len(fs) /\ docs = [i \in 1 .. Len(fs) |-> docs[i]]
    BY <1>4, <2>1
  <2> HIDE DEF docs
  <2>q. QED  BY <2>1, <2>2, MadeSeq
<1>12. \A n \in DOMAIN docs : docs[n].from = Grouped(ToSet(items), gs[n]) /\ docs[n].name = <<c, gs[n]>>
  BY <1>4 DEF Doc
<1> HIDE DEF docs
<1>13. \A n \in DOMAIN fs : gs[n] = items[p[n]].group
  BY <1>9
<1> HIDE DEF gs
<1>14. \A m, n \in DOMAIN docs : gs[m] = gs[n] => m = n
  BY <1>7, <1>9, <1>10, <1>11, <1>13
<1>15. ASSUME NEW n \in DOMAIN docs  PROVE \E x \in ToSet(items) : Said(x) /\ x.group = gs[n]
  <2>1. items[p[n]] \in ToSet(items) /\ Said(items[p[n]]) /\ items[p[n]].group = gs[n]
    BY <1>3, <1>10, <1>11, <1>13 DEF ToSet
  <2>q. QED  BY <2>1
<1>16. ASSUME NEW x \in ToSet(items), Said(x)  PROVE \E n \in DOMAIN docs : gs[n] = x.group
  <2>1. PICK i \in I : items[i].group = x.group
    BY <1>6, <1>16
  <2>2. PICK n \in DOMAIN fs : p[n] = i
    BY <1>9
  <2>q. QED  BY <1>11, <1>13, <2>1, <2>2
<1>17. w.kind \in Archives /\ w.kind # "telegram"
  BY DEF Archives
<1>18. \A n \in DOMAIN docs :
         /\ docs[n].from = Grouped(ToSet(items), gs[n])
         /\ \E x \in ToSet(items) : Said(x) /\ x.group = gs[n]
         /\ w.kind = "slack" => docs[n].name = <<c, gs[n]>>
         /\ w.kind = "telegram" => docs[n].name = gs[n]
  BY <1>12, <1>15, <1>17
<1>19. \A x \in ToSet(items) : Said(x) /\ x.text => \E n \in DOMAIN docs : gs[n] = x.group
  BY <1>16
<1>20. Listed(w, c, items, DocUnits(docs))
  BY <1>11, <1>14, <1>17, <1>18, <1>19, GroupsListed, Zenon
<1>q. QED  BY <1>5, <1>20

\* The days of a chat.
LEMMA DaysListed ==
  ASSUME NEW w \in Worlds, w.kind = "telegram", NEW c, NEW items, IsSeq(items),
         ToSet(items) \subseteq Things(w)
  PROVE  Listed(w, c, items, Units(w, c, items))
<1> DEFINE D == Days(items)
           gs == Ascending(D)
           docs == DayDocs(w, items)
<1>1. \A g : g \in D <=> \E x \in ToSet(items) : Said(x) /\ x.text /\ g = x.group
  BY DEF Days
<1>2. D \in SUBSET Nat /\ IsFiniteSet(D)
  <2> DEFINE I == {i \in DOMAIN items : Said(items[i]) /\ items[i].text}
             f == [i \in I |-> items[i].group]
  <2>1. IsFiniteSet(I)
    <3>1. DOMAIN items = 1 .. Len(items) /\ Len(items) \in Nat
      BY SeqFacts
    <3>2. I \in SUBSET Nat /\ \A i \in I : i <= Len(items)
      BY <3>1
    <3> HIDE DEF I
    <3>q. QED  BY <3>1, <3>2, FS_BoundedSetOfNaturals, Zenon
  <2>2. \A g \in D : \E i \in I : f[i] = g
    <3>1. TAKE g \in D
    <3>2. PICK x \in ToSet(items) : Said(x) /\ x.text /\ g = x.group
      BY <1>1
    <3>3. PICK i \in DOMAIN items : x = items[i]
      BY DEF ToSet
    <3>q. QED  BY <3>2, <3>3
  <2>3. \A i \in I : f[i] \in D
    <3>1. TAKE i \in I
    <3>2. items[i] \in ToSet(items)
      BY DEF ToSet
    <3> HIDE DEF D
    <3>q. QED  BY <1>1, <3>2
  <2>4. D \in SUBSET Nat
    <3> HIDE DEF D
    <3>q. QED  BY <1>1, ThingFacts
  <2> HIDE DEF D
  <2>5. f \in Surjection(I, D)
    BY <2>2, <2>3 DEF Surjection
  <2> HIDE DEF I, f
  <2>q. QED  BY <2>1, <2>4, <2>5, FS_Surjection, Zenon
<1> DEFINE N == Cardinality(D)
<1>3. /\ N \in Nat /\ gs \in [1 .. N -> D]
      /\ \A g \in D : \E n \in 1 .. N : gs[n] = g
      /\ \A m, n \in 1 .. N : gs[m] = gs[n] => m = n
  <2> HIDE DEF D
  <2>q. QED  BY <1>2, AscendingFacts, Zenon
<1>4. docs = [i \in DOMAIN gs |-> Doc(gs[i], Grouped(ToSet(items), gs[i]), TRUE)]
  BY DEF DayDocs, InGroup, Grouped
<1>5. Units(w, c, items) = DocUnits(docs)
  BY DEF Units
<1> HIDE DEF D, N, gs
<1>6. IsSeq(docs) /\ DOMAIN docs = 1 .. N
  <2>1. DOMAIN docs = 1 .. N /\ docs = [i \in 1 .. N |-> docs[i]]
    BY <1>3, <1>4
  <2> HIDE DEF docs
  <2>q. QED  BY <1>3, <2>1, MadeSeq
<1>7. \A n \in DOMAIN docs : docs[n].from = Grouped(ToSet(items), gs[n]) /\ docs[n].name = gs[n]
  BY <1>4 DEF Doc
<1> HIDE DEF docs
<1>8. \A n \in DOMAIN docs : \E x \in ToSet(items) : Said(x) /\ x.group = gs[n]
  <2>1. TAKE n \in DOMAIN docs
  <2>2. gs[n] \in D
    BY <1>3, <1>6
  <2>q. QED  BY <1>1, <2>2
<1>9. \A x \in ToSet(items) : Said(x) /\ x.text => \E n \in DOMAIN docs : gs[n] = x.group
  BY <1>1, <1>3, <1>6
<1>10. w.kind \in Archives /\ w.kind # "slack"
  BY DEF Archives
<1>11. \A n \in DOMAIN docs :
         /\ docs[n].from = Grouped(ToSet(items), gs[n])
         /\ \E x \in ToSet(items) : Said(x) /\ x.group = gs[n]
         /\ w.kind = "slack" => docs[n].name = <<c, gs[n]>>
         /\ w.kind = "telegram" => docs[n].name = gs[n]
  BY <1>7, <1>8, <1>10
<1>12. \A m, n \in DOMAIN docs : gs[m] = gs[n] => m = n
  BY <1>3, <1>6
<1>13. Listed(w, c, items, DocUnits(docs))
  BY <1>6, <1>9, <1>10, <1>11, <1>12, GroupsListed, Zenon
<1>q. QED  BY <1>5, <1>13

\* A page of any kind but a channel's.
LEMMA PageUnits ==
  ASSUME NEW w \in Worlds, w.kind # "slack",
         NEW c \in DOMAIN w.pages, NEW k \in DOMAIN w.pages[c]
  PROVE  Listed(w, c, w.pages[c][k], Units(w, c, w.pages[c][k]))
<1> DEFINE items == w.pages[c][k]
<1>1. IsSeq(items) /\ ToSet(items) \subseteq Things(w)
  BY PageFacts
<1>2. Different(w, items)
  <2>1. ASSUME NEW i \in DOMAIN items, NEW j \in DOMAIN items, i # j
        PROVE  /\ IdsOf(items[i]) \cap IdsOf(items[j]) = {}
               /\ w.kind \notin {"gdrive", "onedrive"} /\ items[i].what = "dir"
                    /\ items[j].what = "dir" => items[i].to # items[j].to
    <3>1. c # c \/ k # k \/ i # j
      BY <2>1
    <3>2. i \in DOMAIN w.pages[c][k] /\ j \in DOMAIN w.pages[c][k]
      OBVIOUS
    <3>3. IdsOf(w.pages[c][k][i]) \cap IdsOf(w.pages[c][k][j]) = {}
      BY <3>1, <3>2, PlacesApart
    <3>4. w.kind \notin {"gdrive", "onedrive"} /\ w.pages[c][k][i].what = "dir"
            /\ w.pages[c][k][j].what = "dir" =>
            w.pages[c][k][i].to # w.pages[c][k][j].to
      BY <3>1, <3>2, PlacesApart
    <3>q. QED  BY <3>3, <3>4
  <2> HIDE DEF items
  <2>q. QED  BY <2>1 DEF Different
<1> HIDE DEF items
<1>3. CASE w.kind = "telegram"
  BY <1>1, <1>3, DaysListed DEF items
<1>4. CASE w.kind # "telegram"
  <2>1. w.kind \notin Archives
    BY <1>4 DEF Archives
  <2>q. QED  BY <1>1, <1>2, <2>1, PageListed DEF items
<1>q. QED  BY <1>3, <1>4

\* The days of a channel that could be read.
LEMMA ChannelUnits ==
  ASSUME NEW w \in Worlds, w.kind = "slack", NEW c \in DOMAIN w.pages,
         NEW bad \in SUBSET DOMAIN w.pages[c]
  PROVE  LET days == w.pages[c]
             items == FlattenSeq([i \in DOMAIN days |-> IF i \in bad THEN <<>> ELSE days[i]])
         IN /\ Listed(w, c, items, Units(w, c, items))
            /\ ToSet(items) = UNION {ToSet(days[i]) : i \in DOMAIN days \ bad}
<1> DEFINE days == w.pages[c]
           read == [i \in DOMAIN days |-> IF i \in bad THEN <<>> ELSE days[i]]
           items == FlattenSeq(read)
           T == Things(w)
<1>1. /\ DOMAIN days = 1 .. Len(days) /\ Len(days) \in Nat
      /\ \A i \in DOMAIN days : days[i] \in Seq(T)
  BY PageFacts
<1>2. read \in Seq(Seq(T))
  <2> HIDE DEF T, days
  <2>1. \A i \in 1 .. Len(days) : (IF i \in bad THEN <<>> ELSE days[i]) \in Seq(T)
    BY <1>1
  <2>q. QED  BY <1>1, <2>1
<1>3. /\ DOMAIN read = DOMAIN days
      /\ \A i \in DOMAIN days \ bad : read[i] = days[i]
      /\ \A i \in DOMAIN days \cap bad : read[i] = <<>>
  OBVIOUS
<1> HIDE DEF read, T
<1>4. items \in Seq(T) /\ ToSet(items) = UNION {ToSet(read[i]) : i \in DOMAIN read}
  BY <1>2, FlattenFacts
<1> HIDE DEF items, days
<1>5. IsSeq(items) /\ ToSet(items) \subseteq T
  BY <1>4, SeqIsSeq
<1>6. ToSet(items) = UNION {ToSet(days[i]) : i \in DOMAIN days \ bad}
  <2>1. ToSet(<<>>) = {}
    BY DEF ToSet
  <2>2. \A x : x \in ToSet(items) <=> \E i \in DOMAIN days : x \in ToSet(read[i])
    BY <1>3, <1>4
  <2>3. \A x : x \in ToSet(items) <=> \E i \in DOMAIN days \ bad : x \in ToSet(days[i])
    BY <1>3, <2>1, <2>2
  <2>q. QED  BY <2>3
<1>7. Listed(w, c, items, Units(w, c, items))
  BY <1>5, ThreadsListed DEF T
<1>q. QED  BY <1>6, <1>7 DEF items, read, days

-----------------------------------------------------------------------------
(* The inductive invariant *)

\* The kinds whose folders can be in several folders.
Drives == {"gdrive", "onedrive"}
\* A container is being listed or read.
Listing == phase \in {"list", "read", "denied"}

\* What the strategies keep, and where they are.
ShapeInv ==
  /\ IsSeq(stack) /\ ToSet(stack) \cup visited \subseteq DOMAIN world.pages
  /\ world.kind = "telegram" => ToSet(stack) \cup visited \subseteq {Root}
  /\ IsSeq(units) /\ IsSeq(out)
  /\ yielded \in 0 .. Cap
  /\ page = [here |-> page.here, next |-> page.next]
  /\ token.retried \/ ~token.alive => world.kind = "onedrive"
  /\ phase \in {"start", "open", "list", "denied"} => units = <<>>
  /\ Listing => page.here \in visited /\ page.next # 0
  /\ phase \in {"list", "denied"} =>
       /\ page.next <= Len(PagesOf(world, page.here))
       /\ world.kind = "slack" => page.next = 1
  /\ phase = "read" => units # <<>> /\ (world.kind = "slack" => page.next > Len(PagesOf(world, page.here)))
  /\ phase = "start" => stack = <<>> /\ visited = {} /\ out = <<>> /\ lost = {}
                        /\ ~token.retried /\ yielded = 0
  /\ phase \in {"crawled", "stored"} /\ ~Full => stack = <<>> /\ units = <<>>
  /\ phase = "denied" => ~token.alive /\ ~Full
  /\ ~token.retried => token.gen <= 1

\* The messages of one thread, but for those that failed.
ThreadOf(w, missing, d) ==
  \E c \in DOMAIN w.pages :
    d.from = {x.id : x \in {y \in ItemsOf(w, c) :
                             Said(y) /\ <<c, y.group>> = d.name /\ y.id \notin missing}}
\* Documents name what they are made of, in the kinds that have names of their own.
DocInv(d) ==
  /\ d.from # {}
  /\ OwnPath(world, d)
  /\ world.kind = "slack" => ThreadOf(world, lost, d)
  /\ world.kind = "telegram" =>
       d.from = {x.id : x \in {y \in ToSet(world.pages[Root][1]) : Said(y) /\ y.group = d.name}}

\* What is left of a page is documents like that, or a folder.
UnitInv(u) ==
  /\ IsSeq(u.docs) /\ Apart(u.docs)
  /\ u.into # None => u.docs = <<>> /\ u.into \in DOMAIN world.pages /\ world.kind # "telegram"
  /\ \A m \in DOMAIN u.docs : DocInv(u.docs[m])

\* All that was handed on, and all that is still to be.
DocsInv == (\A m \in DOMAIN out : DocInv(out[m])) /\ (\A m \in DOMAIN units : UnitInv(units[m]))

\* The pages that have not been listed since the crawl began.
Ahead(c, k) == c \notin visited \/ (Listing /\ c = page.here /\ page.next <= k)

\* What comes has nothing in common with what there is.
NothingAhead(x) ==
  /\ \A m \in DOMAIN out : IdsOf(x) \cap out[m].from = {}
  /\ \A m \in DOMAIN units : IdsOf(x) \cap From(units[m]) = {}
  /\ world.kind \notin Drives /\ x.what = "dir" =>
       x.to \notin visited \cup ToSet(stack) /\ \A m \in DOMAIN units : units[m].into # x.to
\* The pages that come share nothing with what was harvested, or is to be.
AheadInv ==
  \A c \in DOMAIN world.pages : \A k \in DOMAIN world.pages[c] :
    Ahead(c, k) => \A i \in DOMAIN world.pages[c][k] : NothingAhead(world.pages[c][k][i])
\* Nor do two documents, or two units, with one another.
OutInv ==
  /\ Apart(out)
  /\ \A m \in DOMAIN out : \A n \in DOMAIN units : out[m].from \cap From(units[n]) = {}
  /\ \A m, n \in DOMAIN units : m # n => From(units[m]) \cap From(units[n]) = {}
\* Outside the drives no container is met twice.
WayInv ==
  world.kind \notin Drives =>
    /\ \A m, n \in DOMAIN stack : stack[m] = stack[n] => m = n
    /\ ToSet(stack) \cap visited = {}
    /\ \A m \in DOMAIN units : units[m].into \notin visited \cup ToSet(stack)
    /\ \A m, n \in DOMAIN units : units[m].into = units[n].into /\ m # n => units[m].into = None
\* All of this until a token had to be replaced.
ApartInv == ~token.retried => AheadInv /\ OutInv /\ WayInv

\* What has been visited is there, has failed, or is still to come.
Pending(c, k) == Listing /\ c = page.here /\ page.next <= k
\* Every documented item of a page, and every folder.
PageAccounted(c, k) ==
  /\ \A x \in Offered(world, world.pages[c][k]) : Documented(world, x) =>
       x.id \in lost \cup Covered \/ \E m \in DOMAIN units : x.id \in From(units[m])
  /\ world.recursive => \A x \in ToSet(world.pages[c][k]) : x.what = "dir" =>
       x.to \in lost \cup visited \cup ToSet(stack) \/ \E m \in DOMAIN units : units[m].into = x.to
\* Until the cap is reached, every page of what was visited.
AccountInv ==
  phase \notin {"start", "failed"} /\ ~Full =>
    /\ ToSet(Begins(world)) \subseteq lost \cup visited \cup ToSet(stack)
    /\ \A c \in visited \ lost : \A k \in DOMAIN world.pages[c] :
         Pending(c, k) \/ PageAccounted(c, k)

\* What has not been listed of a channel is not what failed.
LostInv ==
  world.kind = "slack" /\ phase # "failed" =>
    \A c \in DOMAIN world.pages : \A k \in DOMAIN world.pages[c] :
      Ahead(c, k) => \A i \in DOMAIN world.pages[c][k] : world.pages[c][k][i].id \notin lost

\* The inductive invariant.
CrawlInv ==
  /\ CrawlTypeOK /\ ShapeInv /\ DocsInv /\ ApartInv /\ LostInv /\ AccountInv /\ OneFailureAborts

-----------------------------------------------------------------------------
(* Around the steps *)

\* The containers a crawl begins with are different ones.
LEMMA BeginsFacts ==
  ASSUME NEW w \in Worlds
  PROVE  /\ IsSeq(Begins(w)) /\ ToSet(Begins(w)) \subseteq DOMAIN w.pages
         /\ \A m, n \in DOMAIN Begins(w) : Begins(w)[m] = Begins(w)[n] => m = n
         /\ w.kind # "slack" => ToSet(Begins(w)) = {Root}
<1>1. Typed(w)
  BY CrawlWorldsAssumption
<1>2. CASE w.kind = "slack"
  <2> DEFINE S == DOMAIN w.pages \cap w.channels
             s == SetToSeq(S)
             n == Cardinality(S)
  <2>1. IsFiniteSet(S)
    BY <1>1, FS_Intersection DEF Typed
  <2>2. n \in Nat /\ \E f : f \in Bijection(1 .. n, S)
    <3> HIDE DEF S
    <3>q. QED  BY <2>1, FS_CardinalityType DEF ExistsBijection
  <2>3. s \in [1 .. n -> S] /\ IsInjective(s)
    <3> HIDE DEF S
    <3>1. PICK f : f \in Bijection(1 .. n, S)
      BY <2>2
    <3>2. f \in [1 .. n -> S] /\ IsInjective(f)
      BY <3>1 DEF Bijection, Injection
    <3>3. s = CHOOSE g \in [1 .. n -> S] : IsInjective(g)
      BY DEF SetToSeq
    <3>q. QED  BY <3>2, <3>3, Zenon
  <2>4. Begins(w) = s
    BY <1>2 DEF Begins
  <2>5. S \subseteq DOMAIN w.pages
    OBVIOUS
  <2> HIDE DEF s, S, n
  <2>6. s \in Seq(S) /\ DOMAIN s = 1 .. n
    BY <2>2, <2>3
  <2>7. IsSeq(s) /\ ToSet(s) \subseteq S
    BY <2>6, SeqIsSeq
  <2>8. \A i, j \in DOMAIN s : s[i] = s[j] => i = j
    BY <2>3 DEF IsInjective
  <2>q. QED  BY <1>2, <2>4, <2>5, <2>7, <2>8
<1>3. CASE w.kind # "slack"
  <2>1. Begins(w) = <<Root>> /\ Root \in DOMAIN w.pages
    BY <1>1, <1>3 DEF Begins, Typed
  <2>2. <<Root>> \in Seq({Root}) /\ DOMAIN <<Root>> = {1} /\ <<Root>>[1] = Root
    OBVIOUS
  <2>3. IsSeq(<<Root>>) /\ ToSet(<<Root>>) = {Root}
    <3>1. IsSeq(<<Root>>)
      BY <2>2, SeqIsSeq
    <3>2. ToSet(<<Root>>) = {Root}
      <4> DEFINE r == <<Root>>
      <4>1. DOMAIN r = {1} /\ r[1] = Root
        BY <2>2
      <4> HIDE DEF r
      <4>2. ToSet(r) = {Root}
        BY <4>1 DEF ToSet
      <4>q. QED  BY <4>2 DEF r
    <3>q. QED  BY <3>1, <3>2
  <2>q. QED  BY <2>1, <2>2, <2>3
<1>q. QED  BY <1>2, <1>3

\* After a page.
LEMMA OnwardFacts ==
  ASSUME ShapeInv, NEW left, NEW next \in Nat, Onward(left, next)
  PROVE  /\ units' = left /\ page' = [here |-> page.here, next |-> next]
         /\ page'.here = page.here /\ page'.next = next
         /\ phase' \in {"read", "list", "open"}
         /\ phase' = "read" <=> left # <<>>
         /\ phase' = "list" <=> left = <<>> /\ next <= Len(PagesOf(world, page.here))
<1>1. page = [here |-> page.here, next |-> page.next]
  BY DEF ShapeInv
<1>2. units' = left /\ page' = [page EXCEPT !.next = next]
      /\ phase' = IF left # <<>> THEN "read"
                  ELSE IF next <= Len(PagesOf(world, page.here)) THEN "list" ELSE "open"
  BY DEF Onward
<1>3. page' = [here |-> page.here, next |-> next]
  BY <1>1, <1>2
<1>4. page'.here = page.here /\ page'.next = next
  BY <1>3
<1>q. QED  BY <1>2, <1>3, <1>4

\* No more names than documents.
LEMMA NamesBounded ==
  ASSUME NEW s, IsSeq(s)
  PROVE  IsFiniteSet(Named(s)) /\ Cardinality(Named(s)) \in Nat /\ Cardinality(Named(s)) <= Len(s)
<1> DEFINE f == [i \in DOMAIN s |-> s[i].name]
           N == Named(s)
<1>1. Len(s) \in Nat /\ DOMAIN s = 1 .. Len(s)
  BY SeqFacts
<1>2. N = {s[i].name : i \in DOMAIN s}
  BY DEF Named
<1>3. f \in Surjection(DOMAIN s, N)
  <2>1. \A i \in DOMAIN s : f[i] = s[i].name
    OBVIOUS
  <2>2. f \in [DOMAIN s -> N]
    BY <1>2
  <2> HIDE DEF f, N
  <2>q. QED  BY <1>2, <2>1, <2>2 DEF Surjection
<1> HIDE DEF f, N
<1>4. IsFiniteSet(DOMAIN s) /\ Cardinality(DOMAIN s) = Len(s)
  <2>1. 1 \in Int /\ Len(s) \in Int
    BY <1>1
  <2>2. IsFiniteSet(1 .. Len(s))
        /\ Cardinality(1 .. Len(s)) = IF 1 > Len(s) THEN 0 ELSE Len(s) - 1 + 1
    BY <2>1, FS_Interval, Zenon
  <2>q. QED  BY <1>1, <2>2
<1>5. IsFiniteSet(N) /\ Cardinality(N) <= Cardinality(DOMAIN s)
  BY <1>3, <1>4, FS_Surjection, Zenon
<1>6. Cardinality(N) \in Nat
  BY <1>5, FS_CardinalityType, Zenon
<1>q. QED  BY <1>4, <1>5, <1>6 DEF N

\* What reaches the index fails only for its names.
LEMMA IndexedFacts ==
  ASSUME IsSeq(out)
  PROVE  Cardinality(Named(Indexed)) # Len(Indexed) => Cardinality(Named(Indexed)) < Len(Indexed)
<1> DEFINE I == {i \in DOMAIN out : out[i].text}
<1>1. Indexed = InOrder(out, I) /\ I \subseteq DOMAIN out
  BY DEF Indexed
<1> HIDE DEF I
<1>2. IsSeq(Indexed)
  BY <1>1, InOrderFacts
<1>3. /\ Cardinality(Named(Indexed)) \in Nat /\ Cardinality(Named(Indexed)) <= Len(Indexed)
      /\ Len(Indexed) \in Nat
  BY <1>2, NamesBounded, SeqFacts
<1>q. QED  BY <1>3

-----------------------------------------------------------------------------
(* Steps that move nothing *)

\* What says that nothing moved.
Still == world' = world /\ stack' = stack /\ visited' = visited /\ page' = page
         /\ units' = units /\ yielded' = yielded /\ out' = out

\* A step leaves the crawl where it is.
LEMMA StillFacts ==
  ASSUME UNCHANGED <<world, treeVars, yielded, out>>
  PROVE  Still
BY DEF treeVars, Still

\* Such a step keeps what the documents are made of.
LEMMA StillApart ==
  ASSUME ShapeInv, DocsInv, ApartInv, Still, token'.retried = token.retried,
         Listing' => Listing, phase = "start" \/ (world.kind = "slack" => lost' = lost)
  PROVE  DocsInv' /\ ApartInv'
<1>1. DocsInv'
  <2>1. CASE phase = "start"
    <3>1. units = <<>> /\ out = <<>>
      BY <2>1 DEF ShapeInv
    <3>q. QED  BY <3>1 DEF DocsInv, Still
  <2>2. CASE world.kind = "slack" => lost' = lost
    <3>1. \A d : DocInv(d) => DocInv(d)'
      BY <2>2 DEF DocInv, Still
    <3>2. \A u : UnitInv(u) => UnitInv(u)'
      BY <3>1 DEF UnitInv, Still
    <3>q. QED  BY <3>1, <3>2 DEF DocsInv, Still
  <2>q. QED  BY <2>1, <2>2
<1>2. AheadInv => AheadInv'
  <2>1. \A c, k : Ahead(c, k)' => Ahead(c, k)
    BY DEF Ahead, Still
  <2>2. \A x : NothingAhead(x) => NothingAhead(x)'
    BY DEF NothingAhead, Still
  <2>q. QED  BY <2>1, <2>2 DEF AheadInv, Still
<1>3. OutInv => OutInv'
  BY DEF OutInv, Still
<1>4. WayInv => WayInv'
  BY DEF WayInv, Still
<1>q. QED  BY <1>1, <1>2, <1>3, <1>4 DEF ApartInv

\* It keeps what a channel has not lost.
LEMMA StillLost ==
  ASSUME LostInv, Still, Listing' => Listing,
         world.kind = "slack" => phase' = "failed" \/ (lost' = lost /\ phase # "failed")
  PROVE  LostInv'
<1>1. \A c, k : Ahead(c, k)' => Ahead(c, k)
  BY DEF Ahead, Still
<1>2. SUFFICES ASSUME world.kind = "slack", phase' # "failed"
               PROVE  LostInv'
  BY DEF LostInv, Still
<1>q. QED  BY <1>1, <1>2 DEF LostInv, Still

\* It keeps the account, if the container at hand goes on or is lost.
LEMMA StillAccounted ==
  ASSUME ShapeInv, AccountInv, Still, lost \subseteq lost',
         phase' \notin {"start", "failed"} /\ ~Full => phase \notin {"start", "failed"},
         ~Full => \/ page.here \in lost' \/ ~Listing \/ Listing'
  PROVE  AccountInv'
<1> SUFFICES ASSUME phase' \notin {"start", "failed"}, ~Full'
             PROVE  AccountInv'
  BY DEF AccountInv
<1>1. ~Full /\ Full' = Full
  BY DEF Full, Still
<1>2. /\ ToSet(Begins(world)) \subseteq lost \cup visited \cup ToSet(stack)
      /\ \A c \in visited \ lost : \A k \in DOMAIN world.pages[c] :
           Pending(c, k) \/ PageAccounted(c, k)
  BY <1>1 DEF AccountInv
<1>3. \A c \in visited \ lost' : \A k \in DOMAIN world.pages[c] :
        Pending(c, k) => Pending(c, k)'
  BY <1>1 DEF Pending, Still
<1>4. \A c, k : PageAccounted(c, k) => PageAccounted(c, k)'
  BY DEF PageAccounted, Still, Covered
<1>q. QED  BY <1>2, <1>3, <1>4 DEF AccountInv, Still

\* The parts of the invariant that a still step keeps with little more.
LEMMA StillKept ==
  ASSUME CrawlInv, Still, token'.retried = token.retried, token'.gen = token.gen,
         token'.alive = token.alive \/ world.kind = "onedrive",
         token' \in [alive : BOOLEAN, expiring : BOOLEAN, retried : BOOLEAN,
                     gen : 0 .. 2, stored : 0 .. 2],
         token'.stored <= token'.gen,
         faults' \in 0 .. MaxFaults,
         world.kind = "slack" => phase' = "failed" \/ lost' = lost,
         phase = "start" \/ (world.kind = "slack" => lost' = lost), phase # "failed",
         phase' \in CrawlStages \ {"start"},
         phase' \in {"open", "list", "read", "denied"} => 
            phase' = phase \/ (phase = "list" /\ phase' \in {"open", "denied"}),
         phase' \in {"crawled", "stored"} /\ ~Full => stack = <<>> /\ units = <<>>,
         phase' = "denied" => ~token'.alive /\ ~Full,
         AccountInv', OneFailureAborts'
  PROVE  CrawlInv'
<1> USE DEF CrawlInv
<1>0. Listing' => Listing
  BY DEF Listing
<1>1. DocsInv' /\ ApartInv'
  BY <1>0, StillApart
<1>2. LostInv'
  BY <1>0, StillLost
<1>3. CrawlTypeOK'
  BY DEF CrawlTypeOK, Still
<1>4. ShapeInv'
  BY DEF ShapeInv, Still, Listing, Full, PagesOf
<1>q. QED  BY <1>1, <1>2, <1>3, <1>4

\* A failure counts, and is written down.
LEMMA FailsFacts ==
  ASSUME CrawlTypeOK, NEW what, Fails(what)
  PROVE  faults' \in 0 .. MaxFaults /\ lost' = lost \cup what
BY DocCrawlAssumption DEF CrawlTypeOK, Fails

\* A step without a failure.
LEMMA NoFaultFacts ==
  ASSUME CrawlTypeOK, NoFault
  PROVE  faults' \in 0 .. MaxFaults /\ lost' = lost
BY DEF CrawlTypeOK, NoFault

\* What the type invariant says of the token.
LEMMA TokenFacts ==
  ASSUME CrawlTypeOK
  PROVE  /\ token \in [alive : BOOLEAN, expiring : BOOLEAN, retried : BOOLEAN,
                       gen : 0 .. 2, stored : 0 .. 2]
         /\ token.stored <= token.gen
BY DEF CrawlTypeOK

\* A crawl that cannot begin: only a mailbox goes on, with nothing.
LEMMA BeginFailsKeeps == ASSUME CrawlInv, BeginFails PROVE CrawlInv'
<1>1. Still /\ token' = token
  BY StillFacts DEF BeginFails
<1>2. phase = "start" /\ phase' = (IF world.kind = "imap" THEN "crawled" ELSE "failed") /\ Fails({Root})
  BY DEF BeginFails
<1>3. faults' \in 0 .. MaxFaults /\ lost' = lost \cup {Root}
  BY <1>2, FailsFacts DEF CrawlInv
<1>4. OneFailureAborts'
  BY <1>3 DEF OneFailureAborts
<1>5. stack = <<>> /\ units = <<>> /\ yielded = 0 /\ visited = {}
  BY <1>2 DEF CrawlInv, ShapeInv
<1>6. AccountInv'
  <2> SUFFICES ASSUME world.kind = "imap"
               PROVE  AccountInv'
    BY <1>2 DEF AccountInv
  <2>1. world \in Worlds
    BY DEF CrawlInv, CrawlTypeOK
  <2>2. ToSet(Begins(world)) = {Root}
    BY <2>1, BeginsFacts
  <2>q. QED  BY <1>1, <1>3, <1>5, <2>2 DEF AccountInv, Still
<1>7. phase' \in {"crawled", "failed"}
  BY <1>2
<1>8. CrawlTypeOK
  BY DEF CrawlInv
<1>q. QED  BY <1>1, <1>2, <1>3, <1>4, <1>5, <1>6, <1>7, <1>8, TokenFacts, StillKept DEF CrawlStages

\* A still step in the middle of a crawl, of which the listing goes on or is lost.
LEMMA MiddleKept ==
  ASSUME CrawlInv, Still, token'.retried = token.retried, token'.gen = token.gen,
         token'.alive = token.alive \/ world.kind = "onedrive",
         token' \in [alive : BOOLEAN, expiring : BOOLEAN, retried : BOOLEAN,
                     gen : 0 .. 2, stored : 0 .. 2],
         token'.stored <= token'.gen,
         faults' \in 0 .. MaxFaults,
         lost \subseteq lost', world.kind = "slack" => lost' = lost,
         phase \in {"open", "list", "read", "denied", "crawled"},
         phase' \in CrawlStages \ {"start"},
         phase' \in {"open", "list", "read", "denied"} => 
            phase' = phase \/ (phase = "list" /\ phase' \in {"open", "denied"}),
         phase' = "open" /\ phase = "list" => page.here \in lost',
         phase' \in {"crawled", "stored"} => phase = "crawled" \/ Full,
         phase' = "denied" => ~token'.alive /\ ~Full,
         OneFailureAborts'
  PROVE  CrawlInv'
<1>1. AccountInv'
  <2>1. ~Full => page.here \in lost' \/ ~Listing \/ Listing' \/ phase' \in {"start", "failed"}
    BY DEF Listing, CrawlStages
  <2>2. CASE phase' \in {"start", "failed"}
    BY <2>2 DEF AccountInv
  <2>3. CASE phase' \notin {"start", "failed"}
    BY <2>1, <2>3, StillAccounted DEF CrawlInv
  <2>q. QED  BY <2>2, <2>3
<1>2. phase' \in {"crawled", "stored"} /\ ~Full => stack = <<>> /\ units = <<>>
  BY DEF CrawlInv, ShapeInv
<1>q. QED  BY <1>1, <1>2, StillKept

\* A container that cannot be listed is lost.
LEMMA ListFailsKeeps == ASSUME CrawlInv, ListFails PROVE CrawlInv'
<1>1. Still /\ token' = token
  BY StillFacts DEF ListFails
<1>2. phase = "list" /\ phase' = "open" /\ Fails({page.here}) /\ world.kind # "slack"
  BY DEF ListFails
<1>3. CrawlTypeOK
  BY DEF CrawlInv
<1>4. faults' \in 0 .. MaxFaults /\ lost' = lost \cup {page.here}
  BY <1>2, <1>3, FailsFacts
<1>5. OneFailureAborts'
  BY <1>2 DEF OneFailureAborts
<1>q. QED  BY <1>1, <1>2, <1>3, <1>4, <1>5, TokenFacts, MiddleKept DEF CrawlStages

\* A failure that nothing catches is one of an item that can fail so.
LEMMA ReadAbortsKeeps == ASSUME CrawlInv, ReadAborts PROVE CrawlInv'
<1> DEFINE u == Head(units)
           from == UNION {u.docs[i].from : i \in DOMAIN u.docs}
<1>1. Still /\ token' = token
  BY StillFacts DEF ReadAborts
<1>2. phase = "read" /\ phase' = "failed" /\ Fails(from)
  BY DEF ReadAborts
<1>3. PICK x \in ItemsOf(world, page.here) : Escapes(world, x) /\ IdsOf(x) \cap from # {}
  BY DEF ReadAborts
<1> HIDE DEF from
<1>4. CrawlTypeOK /\ ShapeInv
  BY DEF CrawlInv
<1>5. faults' \in 0 .. MaxFaults /\ lost' = lost \cup from
  BY <1>2, <1>4, FailsFacts
<1>6. x \in Things(world)
  <2>1. page.here \in DOMAIN world.pages
    BY <1>2, <1>4 DEF ShapeInv, Listing
  <2>q. QED  BY <2>1 DEF Things
<1>7. OneFailureAborts'
  <2>1. \E y \in Things(world) : Escapes(world, y) /\ IdsOf(y) \cap lost' # {}
    BY <1>3, <1>5, <1>6
  <2>2. world' = world
    BY <1>1 DEF Still
  <2>q. QED  BY <2>1, <2>2 DEF OneFailureAborts
<1>8. world.kind # "slack"
  BY <1>3 DEF Escapes
<1>9. /\ lost \subseteq lost' /\ phase' \in CrawlStages \ {"start"}
      /\ phase' \notin {"open", "list", "read", "denied", "crawled", "stored"}
  BY <1>2, <1>5 DEF CrawlStages
<1>q. QED
  <2>1. AccountInv'
    BY <1>2 DEF AccountInv
  <2>2. /\ token \in [alive : BOOLEAN, expiring : BOOLEAN, retried : BOOLEAN,
                     gen : 0 .. 2, stored : 0 .. 2]
        /\ token.stored <= token.gen
    BY <1>4, TokenFacts
  <2>q. QED  BY <1>1, <1>2, <1>5, <1>7, <1>8, <1>9, <2>1, <2>2, StillKept

\* At the cap nothing is promised of what is left.
LEMMA StopKeeps == ASSUME CrawlInv, Stop PROVE CrawlInv'
<1>1. Still /\ token' = token
  BY StillFacts DEF Stop
<1>2. phase \in {"list", "read"} /\ phase' = "crawled" /\ Full
  BY DEF Stop
<1>3. CrawlTypeOK
  BY DEF CrawlInv
<1>4. faults' \in 0 .. MaxFaults /\ lost' = lost
  BY <1>3, NoFaultFacts DEF Stop
<1>5. OneFailureAborts'
  BY <1>2 DEF OneFailureAborts
<1>q. QED  BY <1>1, <1>2, <1>3, <1>4, <1>5, TokenFacts, MiddleKept DEF CrawlStages

\* Only the token of a OneDrive expires.
LEMMA ExpireKeeps == ASSUME CrawlInv, Expire PROVE CrawlInv'
<1>1. Still /\ phase' = phase
  BY StillFacts DEF Expire
<1>2. phase \in {"open", "list", "read"} /\ Fails({}) /\ world.kind = "onedrive"
      /\ token' = [token EXCEPT !.alive = FALSE]
  BY DEF Expire
<1>3. CrawlTypeOK
  BY DEF CrawlInv
<1>4. faults' \in 0 .. MaxFaults /\ lost' = lost
  BY <1>2, <1>3, FailsFacts
<1>5. OneFailureAborts'
  BY <1>1, <1>2 DEF OneFailureAborts
<1>6. /\ token'.retried = token.retried /\ token'.gen = token.gen /\ token'.stored = token.stored
      /\ token' \in [alive : BOOLEAN, expiring : BOOLEAN, retried : BOOLEAN,
                     gen : 0 .. 2, stored : 0 .. 2]
  BY <1>2, <1>3, TokenFacts
<1>q. QED  BY <1>1, <1>2, <1>3, <1>4, <1>5, <1>6, TokenFacts, MiddleKept DEF CrawlStages

\* A 401 leaves the listing where it is.
LEMMA DeniedKeeps == ASSUME CrawlInv, Denied PROVE CrawlInv'
<1>1. Still /\ token' = token
  BY StillFacts DEF Denied
<1>2. phase = "list" /\ phase' = "denied" /\ ~Full /\ ~token.alive
  BY DEF Denied
<1>3. CrawlTypeOK
  BY DEF CrawlInv
<1>4. faults' \in 0 .. MaxFaults /\ lost' = lost
  BY <1>3, NoFaultFacts DEF Denied
<1>5. OneFailureAborts'
  BY <1>2 DEF OneFailureAborts
<1>q. QED  BY <1>1, <1>2, <1>3, <1>4, <1>5, TokenFacts, MiddleKept DEF CrawlStages

\* A crawl that fails here fails for its token.
LEMMA RefreshFailsKeeps == ASSUME CrawlInv, RefreshFails PROVE CrawlInv'
<1>1. Still /\ token' = token
  BY StillFacts DEF RefreshFails
<1>2. phase = "denied" /\ phase' = "failed"
  BY DEF RefreshFails
<1>3. CrawlTypeOK
  BY DEF CrawlInv
<1>4. faults' \in 0 .. MaxFaults /\ lost' = lost
  BY <1>3, NoFaultFacts, FailsFacts DEF RefreshFails
<1>5. OneFailureAborts'
  BY <1>1, <1>2 DEF OneFailureAborts, CrawlInv, ShapeInv
<1>q. QED  BY <1>1, <1>2, <1>3, <1>4, <1>5, TokenFacts, MiddleKept DEF CrawlStages

\* The index fails only for two documents of one name.
LEMMA IndexKeeps == ASSUME CrawlInv, Index PROVE CrawlInv'
<1>1. Still /\ token' = token
  BY StillFacts DEF Index
<1>2. phase = "crawled" /\ phase' \in {"stored", "failed"}
      /\ (phase' = "failed" => Cardinality(Named(Indexed)) # Len(Indexed))
  BY DEF Index
<1>3. CrawlTypeOK
  BY DEF CrawlInv
<1>4. faults' \in 0 .. MaxFaults /\ lost' = lost
  BY <1>3, NoFaultFacts DEF Index
<1>5. OneFailureAborts'
  <2>1. phase' = "failed" => Cardinality(Named(Indexed)) < Len(Indexed)
    BY <1>2, IndexedFacts DEF CrawlInv, ShapeInv
  <2>2. Indexed' = Indexed
    BY <1>1 DEF Still, Indexed
  <2>3. \A s : Named(s)' = Named(s)
    BY DEF Named
  <2>4. phase' = "failed" => (Cardinality(Named(Indexed)) < Len(Indexed))'
    BY <2>1, <2>2 DEF Named
  <2>q. QED  BY <2>4 DEF OneFailureAborts
<1>q. QED  BY <1>1, <1>2, <1>3, <1>4, <1>5, TokenFacts, MiddleKept DEF CrawlStages

-----------------------------------------------------------------------------
(* From the start *)

\* The refresh before a crawl.
LEMMA EarlyRefreshFacts ==
  ASSUME CrawlTypeOK, EarlyRefresh
  PROVE  /\ faults' \in 0 .. MaxFaults /\ lost' = lost
         /\ token' \in [alive : BOOLEAN, expiring : BOOLEAN, retried : BOOLEAN,
                        gen : 0 .. 2, stored : 0 .. 2]
         /\ token'.retried = token.retried /\ token'.alive = token.alive
         /\ token'.gen \in {token.gen, 1} /\ token'.stored \in {token.stored, 1}
         /\ token'.stored <= token'.gen \/ token.gen > 1
<1>1. /\ token \in [alive : BOOLEAN, expiring : BOOLEAN, retried : BOOLEAN,
                    gen : 0 .. 2, stored : 0 .. 2]
      /\ token.stored <= token.gen
  BY TokenFacts
<1>2. \/ NoFault /\ token' = token
      \/ NoFault /\ token' = [token EXCEPT !.expiring = FALSE, !.gen = 1, !.stored = 1]
      \/ Fails({}) /\ token' = [token EXCEPT !.expiring = FALSE, !.gen = 1]
      \/ Fails({}) /\ token' = token
  BY DEF EarlyRefresh
<1>3. faults' \in 0 .. MaxFaults /\ lost' = lost
  <2>1. NoFault \/ Fails({})
    BY <1>2
  <2>q. QED  BY <2>1, NoFaultFacts, FailsFacts
<1>4. \/ token' = token
      \/ token' = [token EXCEPT !.expiring = FALSE, !.gen = 1, !.stored = 1]
      \/ token' = [token EXCEPT !.expiring = FALSE, !.gen = 1]
  BY <1>2
<1>5. CASE token' = token
  BY <1>1, <1>3, <1>5
<1>6. CASE token' = [token EXCEPT !.expiring = FALSE, !.gen = 1, !.stored = 1]
  <2>1. token' = [alive |-> token.alive, expiring |-> FALSE, retried |-> token.retried,
                  gen |-> 1, stored |-> 1]
    BY <1>1, <1>6
  <2>q. QED  BY <1>1, <1>3, <2>1
<1>7. CASE token' = [token EXCEPT !.expiring = FALSE, !.gen = 1]
  <2>1. token' = [alive |-> token.alive, expiring |-> FALSE, retried |-> token.retried,
                  gen |-> 1, stored |-> token.stored]
    BY <1>1, <1>7
  <2>q. QED  BY <1>1, <1>3, <2>1
<1>q. QED  BY <1>4, <1>5, <1>6, <1>7

\* A crawl that begins has everything ahead.
LEMMA FreshFacts ==
  ASSUME ShapeInv, CrawlTypeOK, FromTheStart, world' = world, phase' = "open"
  PROVE  /\ IsSeq(stack') /\ ToSet(stack') \cup visited' \subseteq DOMAIN world'.pages
         /\ world'.kind = "telegram" => ToSet(stack') \cup visited' \subseteq {Root}
         /\ stack' = Begins(world) /\ visited' = {} /\ units' = <<>> /\ IsSeq(units')
         /\ yielded' = 0 /\ yielded' \in 0 .. Cap /\ page' = page
         /\ WayInv'
         /\ AccountInv'
<1>1. world \in Worlds /\ 0 \in 0 .. Cap
  BY DocCrawlAssumption DEF CrawlTypeOK
<1>2. stack' = Begins(world) /\ visited' = {} /\ units' = <<>> /\ yielded' = 0 /\ page' = page
  BY DEF FromTheStart
<1>3. /\ IsSeq(Begins(world)) /\ ToSet(Begins(world)) \subseteq DOMAIN world.pages
      /\ \A m, n \in DOMAIN Begins(world) : Begins(world)[m] = Begins(world)[n] => m = n
      /\ world.kind # "slack" => ToSet(Begins(world)) = {Root}
  BY <1>1, BeginsFacts
<1>4. IsSeq(<<>>)
  BY DEF IsSeq
<1>5. WayInv'
  BY <1>2, <1>3 DEF WayInv
<1>6. AccountInv'
  BY <1>2 DEF AccountInv
<1>q. QED  BY <1>1, <1>2, <1>3, <1>4, <1>5, <1>6

\* The crawl begins again, and nothing is promised of what comes twice.
LEMMA RefreshKeeps == ASSUME CrawlInv, Refresh PROVE CrawlInv'
<1> USE DEF CrawlInv
<1>1. /\ phase = "denied" /\ phase' = "open" /\ FromTheStart /\ world' = world /\ out' = out
      /\ NoFault /\ ~token.retried
      /\ token' = [alive |-> TRUE, expiring |-> FALSE, retried |-> TRUE,
                   gen |-> token.gen + 1, stored |-> token.gen + 1]
  BY DEF Refresh
<1>2. /\ IsSeq(stack') /\ ToSet(stack') \cup visited' \subseteq DOMAIN world'.pages
      /\ world'.kind = "telegram" => ToSet(stack') \cup visited' \subseteq {Root}
      /\ stack' = Begins(world) /\ visited' = {} /\ units' = <<>> /\ IsSeq(units')
      /\ yielded' = 0 /\ yielded' \in 0 .. Cap /\ page' = page
      /\ AccountInv'
  BY <1>1, FreshFacts
<1>3. faults' \in 0 .. MaxFaults /\ lost' = lost
  BY <1>1, NoFaultFacts
<1>4. token.gen \in 0 .. 1
  BY <1>1, TokenFacts DEF ShapeInv
<1>5. /\ token' \in [alive : BOOLEAN, expiring : BOOLEAN, retried : BOOLEAN,
                     gen : 0 .. 2, stored : 0 .. 2]
      /\ token'.stored <= token'.gen /\ token'.retried /\ token'.alive
  BY <1>1, <1>4
<1>6. Len(out) \in Nat
  BY SeqFacts DEF ShapeInv
<1>7. CrawlTypeOK'
  BY <1>1, <1>2, <1>3, <1>5, <1>6 DEF CrawlTypeOK, CrawlStages
<1>8. ShapeInv'
  <2>1. world.kind = "onedrive"
    BY <1>1 DEF ShapeInv
  <2>2. page = [here |-> page.here, next |-> page.next] /\ IsSeq(out)
    BY DEF ShapeInv
  <2>q. QED  BY <1>1, <1>2, <1>5, <2>1, <2>2 DEF ShapeInv, Listing
<1>9. DocsInv'
  <2>1. \A d : DocInv(d) => DocInv(d)'
    BY <1>1, <1>3 DEF DocInv
  <2>q. QED  BY <1>1, <1>2, <2>1 DEF DocsInv
<1>10. ApartInv'
  BY <1>5 DEF ApartInv
<1>11. OneFailureAborts'
  BY <1>1 DEF OneFailureAborts
<1>12. LostInv'
  BY <1>1 DEF LostInv, ShapeInv
<1>q. QED  BY <1>2, <1>7, <1>8, <1>9, <1>10, <1>11, <1>12

\* The crawl begins.
LEMMA BeginKeeps == ASSUME CrawlInv, Begin PROVE CrawlInv'
<1> USE DEF CrawlInv
<1>1. /\ phase = "start" /\ phase' = "open" /\ FromTheStart /\ world' = world /\ out' = out
      /\ EarlyRefresh
  BY DEF Begin
<1>2. /\ IsSeq(stack') /\ ToSet(stack') \cup visited' \subseteq DOMAIN world'.pages
      /\ world'.kind = "telegram" => ToSet(stack') \cup visited' \subseteq {Root}
      /\ stack' = Begins(world) /\ visited' = {} /\ units' = <<>> /\ IsSeq(units')
      /\ yielded' = 0 /\ yielded' \in 0 .. Cap /\ page' = page
      /\ AccountInv' /\ WayInv'
  BY <1>1, FreshFacts
<1>3. faults' \in 0 .. MaxFaults /\ lost' = lost
  BY <1>1, EarlyRefreshFacts
<1>4. out = <<>> /\ Len(out) = 0 /\ ~token.retried /\ DOMAIN out = {}
  BY <1>1 DEF ShapeInv
<1>5. /\ token' \in [alive : BOOLEAN, expiring : BOOLEAN, retried : BOOLEAN,
                     gen : 0 .. 2, stored : 0 .. 2]
      /\ token'.stored <= token'.gen /\ token'.retried = token.retried
      /\ token'.alive = token.alive /\ token'.gen <= 1
  BY <1>1, <1>4, EarlyRefreshFacts, TokenFacts DEF ShapeInv
<1>6. world \in Worlds
  BY DEF CrawlTypeOK
<1>7. CrawlTypeOK'
  BY <1>1, <1>2, <1>3, <1>4, <1>5 DEF CrawlTypeOK, CrawlStages
<1>8. ShapeInv'
  <2>1. /\ page = [here |-> page.here, next |-> page.next] /\ IsSeq(out)
        /\ token.retried \/ ~token.alive => world.kind = "onedrive"
    BY DEF ShapeInv
  <2>2. phase' = "open" /\ world' = world /\ out' = out
    BY <1>1
  <2> HIDE DEF CrawlInv
  <2>3. token'.retried \/ ~token'.alive => world'.kind = "onedrive"
    BY <1>5, <2>1, <2>2
  <2>4. ~token'.retried => token'.gen <= 1
    BY <1>5
  <2>5. page' = [here |-> page'.here, next |-> page'.next] /\ IsSeq(out')
    BY <1>2, <2>1, <2>2
  <2>6. ~Listing'
    BY <2>2 DEF Listing
  <2>7. phase' = "open" /\ units' = <<>>
    BY <1>2, <2>2
  <2>8. /\ IsSeq(stack') /\ ToSet(stack') \cup visited' \subseteq DOMAIN world'.pages
        /\ world'.kind = "telegram" => ToSet(stack') \cup visited' \subseteq {Root}
        /\ IsSeq(units') /\ yielded' \in 0 .. Cap
    BY <1>2
  <2>9. /\ phase' \notin {"list", "denied"} /\ phase' # "read" /\ phase' # "start"
        /\ phase' \notin {"crawled", "stored"}
    BY <2>7
  <2> HIDE DEF Listing
  <2>q. QED  BY <2>3, <2>4, <2>5, <2>6, <2>7, <2>8, <2>9 DEF ShapeInv
<1>9. DocsInv'
  BY <1>1, <1>2, <1>4 DEF DocsInv
<1>10. AheadInv'
  <2> SUFFICES ASSUME NEW c \in DOMAIN world.pages, NEW k \in DOMAIN world.pages[c],
                      NEW i \in DOMAIN world.pages[c][k]
               PROVE  NothingAhead(world.pages[c][k][i])'
    BY <1>1 DEF AheadInv
  <2>1. \A x \in Things(world) : world.kind \notin Drives /\ x.what = "dir" =>
          x.to \notin ToSet(Begins(world))
    <3>1. \A x \in Things(world) : x.what = "dir" => world.kind # "slack"
      BY <1>6, ThingFacts
    <3>2. \A x \in Things(world) : world.kind \notin Drives /\ x.what = "dir" => x.to # Root
      BY <1>6, ThingFacts DEF Drives
    <3>3. world.kind # "slack" => ToSet(Begins(world)) = {Root}
      BY <1>6, BeginsFacts
    <3>q. QED  BY <3>1, <3>2, <3>3
  <2>2. out' = <<>> /\ units' = <<>> /\ visited' = {} /\ stack' = Begins(world) /\ world' = world
    BY <1>1, <1>2, <1>4
  <2>3. \A x \in Things(world) : NothingAhead(x)'
    BY <2>1, <2>2 DEF NothingAhead
  <2>4. world.pages[c][k][i] \in Things(world)
    BY <1>6, PlaceFacts
  <2>q. QED  BY <1>1, <2>3, <2>4
<1>11. OutInv'
  BY <1>1, <1>2, <1>4 DEF OutInv, Apart
<1>12. OneFailureAborts'
  BY <1>1 DEF OneFailureAborts
<1>13. LostInv'
  <2>1. lost' = {}
    BY <1>1, <1>3 DEF ShapeInv
  <2>q. QED  BY <2>1 DEF LostInv
<1>q. QED  BY <1>2, <1>7, <1>8, <1>9, <1>10, <1>11, <1>12, <1>13 DEF ApartInv

-----------------------------------------------------------------------------
(* The next container *)

\* The last element of a stack of different elements is not among the others.
LEMMA PopFacts ==
  ASSUME NEW s, IsSeq(s), s # <<>>
  PROVE  /\ IsSeq(Front(s)) /\ ToSet(s) = ToSet(Front(s)) \cup {Last(s)}
         /\ (\A m, n \in DOMAIN s : s[m] = s[n] => m = n) =>
              /\ Last(s) \notin ToSet(Front(s))
              /\ \A m, n \in DOMAIN Front(s) : Front(s)[m] = Front(s)[n] => m = n
<1>1. /\ IsSeq(Front(s)) /\ ToSet(s) = ToSet(Front(s)) \cup {Last(s)}
      /\ \A i \in DOMAIN Front(s) : i \in DOMAIN s /\ Front(s)[i] = s[i] /\ i # Len(s)
      /\ Last(s) = s[Len(s)] /\ Len(s) \in DOMAIN s
  BY FrontFacts
<1>2. SUFFICES ASSUME \A m, n \in DOMAIN s : s[m] = s[n] => m = n
               PROVE  /\ Last(s) \notin ToSet(Front(s))
                      /\ \A m, n \in DOMAIN Front(s) : Front(s)[m] = Front(s)[n] => m = n
  BY <1>1
<1> DEFINE f == Front(s)
           l == Last(s)
<1> HIDE DEF f, l
<1>3. /\ \A i \in DOMAIN f : i \in DOMAIN s /\ f[i] = s[i] /\ i # Len(s)
      /\ l = s[Len(s)] /\ Len(s) \in DOMAIN s
  BY <1>1 DEF f, l
<1>4. l \notin ToSet(f)
  BY <1>2, <1>3 DEF ToSet
<1>5. \A m, n \in DOMAIN f : f[m] = f[n] => m = n
  BY <1>2, <1>3
<1>q. QED  BY <1>4, <1>5 DEF f, l

\* The stack is empty, or the cap is reached.
LEMMA OpenEndKeeps ==
  ASSUME CrawlInv, phase = "open", stack = <<>> \/ Full, phase' = "crawled", Still,
         token' = token, NoFault
  PROVE  CrawlInv'
<1>1. CrawlTypeOK
  BY DEF CrawlInv
<1>2. faults' \in 0 .. MaxFaults /\ lost' = lost
  BY <1>1, NoFaultFacts
<1>3. OneFailureAborts'
  BY DEF OneFailureAborts
<1>4. AccountInv'
  BY <1>2, StillAccounted DEF CrawlInv, Listing
<1>5. phase' \in {"crawled", "stored"} /\ ~Full => stack = <<>> /\ units = <<>>
  BY DEF CrawlInv, ShapeInv
<1>q. QED  BY <1>1, <1>2, <1>3, <1>4, <1>5, TokenFacts, StillKept DEF CrawlStages

\* What a container that is taken from the stack leaves.
LEMMA PopKept ==
  ASSUME CrawlInv, phase = "open", stack # <<>>, NEW c, c = Last(stack), stack' = Front(stack),
         world' = world, yielded' = yielded, out' = out, token' = token, units' = units,
         NoFault
  PROVE  /\ IsSeq(stack') /\ ToSet(stack) = ToSet(stack') \cup {c} /\ c \in DOMAIN world.pages
         /\ units = <<>> /\ lost' = lost /\ faults' \in 0 .. MaxFaults
         /\ DocsInv' /\ (OutInv => OutInv')
<1> USE DEF CrawlInv
<1>1. IsSeq(stack') /\ ToSet(stack) = ToSet(stack') \cup {c}
  BY PopFacts DEF ShapeInv
<1>2. c \in DOMAIN world.pages /\ units = <<>>
  BY <1>1 DEF ShapeInv
<1>3. lost' = lost /\ faults' \in 0 .. MaxFaults
  BY NoFaultFacts
<1>4. DocsInv'
  <2>1. \A d : DocInv(d) => DocInv(d)'
    BY <1>3 DEF DocInv
  <2>q. QED  BY <1>2, <2>1 DEF DocsInv
<1>5. OutInv => OutInv'
  BY DEF OutInv
<1>q. QED  BY <1>1, <1>2, <1>3, <1>4, <1>5

\* A folder of a drive that was visited is passed over.
LEMMA OpenAgainKeeps ==
  ASSUME CrawlInv, phase = "open", stack # <<>>, Revisited(Last(stack)), stack' = Front(stack),
         world' = world, yielded' = yielded, out' = out, token' = token, units' = units,
         phase' = phase, visited' = visited, page' = page, NoFault
  PROVE  CrawlInv'
<1> USE DEF CrawlInv
<1> DEFINE c == Last(stack)
<1>1. /\ IsSeq(stack') /\ ToSet(stack) = ToSet(stack') \cup {c} /\ c \in DOMAIN world.pages
      /\ units = <<>> /\ lost' = lost /\ faults' \in 0 .. MaxFaults
      /\ DocsInv' /\ (OutInv => OutInv')
  BY PopKept
<1>2. world.kind \in Drives /\ c \in visited
  BY DEF Revisited, Drives
<1> HIDE DEF c
<1>3. CrawlTypeOK'
  BY <1>1 DEF CrawlTypeOK
<1>4. ShapeInv'
  BY <1>1 DEF ShapeInv, Listing, Full
<1>5. AheadInv => AheadInv'
  <2>1. \A d, k : Ahead(d, k)' => Ahead(d, k)
    BY DEF Ahead, Listing
  <2>2. \A x : NothingAhead(x) => NothingAhead(x)'
    BY <1>2 DEF NothingAhead
  <2>q. QED  BY <2>1, <2>2 DEF AheadInv
<1>6. WayInv'
  BY <1>2 DEF WayInv
<1>7. AccountInv'
  <2> SUFFICES ASSUME ~Full'
               PROVE  AccountInv'
    BY DEF AccountInv
  <2>0. phase' = "open" /\ phase' \notin {"start", "failed"} /\ ~Full
    BY DEF Full
  <2>1. /\ ToSet(Begins(world)) \subseteq lost \cup visited \cup ToSet(stack)
        /\ \A d \in visited \ lost : \A k \in DOMAIN world.pages[d] :
             Pending(d, k) \/ PageAccounted(d, k)
    BY <2>0 DEF AccountInv
  <2>2. visited \cup ToSet(stack) = visited' \cup ToSet(stack')
    BY <1>1, <1>2
  <2>3. \A d, k : PageAccounted(d, k) => PageAccounted(d, k)'
    BY <1>1, <2>2 DEF PageAccounted, Covered
  <2>4. \A d, k : Pending(d, k) => Pending(d, k)'
    BY DEF Pending, Listing
  <2>q. QED  BY <1>1, <2>1, <2>2, <2>3, <2>4 DEF AccountInv
<1>8. OneFailureAborts'
  BY DEF OneFailureAborts
<1>9. LostInv'
  BY <1>2 DEF LostInv, Drives
<1>q. QED  BY <1>1, <1>3, <1>4, <1>5, <1>6, <1>7, <1>8, <1>9 DEF ApartInv

\* A container is opened: all its pages are ahead.
LEMMA OpenNextKeeps ==
  ASSUME CrawlInv, phase = "open", stack # <<>>, NEW c, c = Last(stack), ~Revisited(c),
         stack' = Front(stack), ~Full,
         world' = world, yielded' = yielded, out' = out, token' = token, units' = units,
         phase' = "list", visited' = visited \cup {c}, page' = [here |-> c, next |-> 1], NoFault
  PROVE  CrawlInv'
<1> USE DEF CrawlInv
<1>1. /\ IsSeq(stack') /\ ToSet(stack) = ToSet(stack') \cup {c} /\ c \in DOMAIN world.pages
      /\ units = <<>> /\ lost' = lost /\ faults' \in 0 .. MaxFaults
      /\ DocsInv' /\ (OutInv => OutInv')
  BY PopKept
<1>2. world.kind \notin Drives \/ c \notin visited
  BY DEF Revisited, Drives
<1>3. world \in Worlds /\ ToSet(stack) \cup visited \cup {page.here} \subseteq DOMAIN world.pages \cup {Root}
  BY DEF CrawlTypeOK
<1>4. Len(world.pages[c]) \in Nat \ {0} /\ DOMAIN world.pages[c] = 1 .. Len(world.pages[c])
  BY <1>1, <1>3, PageFacts
<1>5. page'.here = c /\ page'.next = 1 /\ page' = [here |-> page'.here, next |-> page'.next]
  OBVIOUS
<1>6. CrawlTypeOK'
  BY <1>1, <1>3, <1>5 DEF CrawlTypeOK, CrawlStages
<1>7. ShapeInv'
  BY <1>1, <1>3, <1>4, <1>5 DEF ShapeInv, Listing, Full, PagesOf
<1>8. ~token.retried => AheadInv' /\ WayInv'
  <2> SUFFICES ASSUME ~token.retried
               PROVE  AheadInv' /\ WayInv'
    OBVIOUS
  <2>1. AheadInv /\ WayInv
    BY DEF ApartInv
  <2>2. c \notin visited
    BY <1>1, <1>2, <2>1 DEF WayInv
  <2>3. AheadInv'
    <3>1. \A d \in DOMAIN world.pages : \A k \in DOMAIN world.pages[d] :
            Ahead(d, k)' => Ahead(d, k)
      BY <1>5, <2>2 DEF Ahead
    <3>2. \A x : NothingAhead(x) => NothingAhead(x)'
      BY <1>1 DEF NothingAhead
    <3>q. QED  BY <2>1, <3>1, <3>2 DEF AheadInv
  <2>4. WayInv'
    <3> SUFFICES ASSUME world.kind \notin Drives
                 PROVE  WayInv'
      BY DEF WayInv
    <3>1. /\ \A m, n \in DOMAIN stack : stack[m] = stack[n] => m = n
          /\ ToSet(stack) \cap visited = {}
      BY <2>1 DEF WayInv
    <3>2. c \notin ToSet(stack') /\ \A m, n \in DOMAIN stack' : stack'[m] = stack'[n] => m = n
      BY <3>1, PopFacts DEF ShapeInv
    <3>q. QED  BY <1>1, <3>1, <3>2 DEF WayInv
  <2>q. QED  BY <2>3, <2>4
<1>9. AccountInv'
  <2>0. phase \notin {"start", "failed"}
    OBVIOUS
  <2>1. /\ ToSet(Begins(world)) \subseteq lost \cup visited \cup ToSet(stack)
        /\ \A d \in visited \ lost : \A k \in DOMAIN world.pages[d] :
             Pending(d, k) \/ PageAccounted(d, k)
    BY <2>0 DEF AccountInv
  <2>2. visited \cup ToSet(stack) = visited' \cup ToSet(stack')
    BY <1>1
  <2>3. \A d, k : PageAccounted(d, k) => PageAccounted(d, k)'
    BY <1>1, <2>2 DEF PageAccounted, Covered
  <2>4. \A d \in visited \ lost : \A k \in DOMAIN world.pages[d] : PageAccounted(d, k)
    BY <2>1 DEF Pending, Listing
  <2>5. \A k \in DOMAIN world.pages[c] : Pending(c, k)'
    BY <1>4, <1>5 DEF Pending, Listing
  <2>q. QED  BY <1>1, <2>1, <2>2, <2>3, <2>4, <2>5 DEF AccountInv
<1>10. OneFailureAborts'
  BY DEF OneFailureAborts
<1>11. LostInv'
  <2> SUFFICES ASSUME world.kind = "slack"
               PROVE  LostInv'
    BY DEF LostInv
  <2>1. WayInv /\ world.kind \notin Drives
    BY DEF ApartInv, ShapeInv, Drives
  <2>2. c \notin visited
    BY <1>1, <2>1 DEF WayInv
  <2>3. \A d \in DOMAIN world.pages : \A k \in DOMAIN world.pages[d] :
          Ahead(d, k)' => Ahead(d, k)
    BY <1>5, <2>2 DEF Ahead
  <2>q. QED  BY <1>1, <2>3 DEF LostInv
<1>q. QED  BY <1>1, <1>6, <1>7, <1>8, <1>9, <1>10, <1>11 DEF ApartInv

\* The next container.
LEMMA OpenKeeps == ASSUME CrawlInv, Open PROVE CrawlInv'
<1>1. /\ phase = "open" /\ world' = world /\ yielded' = yielded /\ out' = out /\ token' = token
      /\ NoFault
  BY DEF Open
<1>2. CASE stack = <<>> \/ Full
  <2>1. phase' = "crawled" /\ UNCHANGED treeVars
    BY <1>2 DEF Open
  <2>2. Still
    BY <1>1, <2>1 DEF treeVars, Still
  <2>q. QED  BY <1>1, <1>2, <2>1, <2>2, OpenEndKeeps
<1>3. CASE stack # <<>> /\ ~Full
  <2> DEFINE c == Last(stack)
  <2>1. stack' = Front(stack) /\ units' = units
    BY <1>3 DEF Open
  <2>2. CASE Revisited(c)
    <3>1. phase' = phase /\ visited' = visited /\ page' = page
      BY <1>3, <2>2 DEF Open
    <3>q. QED  BY <1>1, <1>3, <2>1, <2>2, <3>1, OpenAgainKeeps
  <2>3. CASE ~Revisited(c)
    <3>1. phase' = "list" /\ visited' = visited \cup {c} /\ page' = [here |-> c, next |-> 1]
      BY <1>3, <2>3 DEF Open
    <3>q. QED  BY <1>1, <1>3, <2>1, <2>3, <3>1, OpenNextKeeps
  <2>q. QED  BY <2>2, <2>3
<1>q. QED  BY <1>2, <1>3

-----------------------------------------------------------------------------
(* A listing *)

\* The items are of some pages of a container.
OnPages(w, c, items, lo, hi) ==
  \A x \in items : \E k \in DOMAIN w.pages[c] :
    lo <= k /\ k < hi /\ \E j \in DOMAIN w.pages[c][k] : x = w.pages[c][k][j]

\* A unit is made of the items it was listed with.
LEMMA UnitItems ==
  ASSUME NEW w, NEW c, NEW items, NEW u, UnitOf(w, c, items, u)
  PROVE  /\ From(u) \subseteq UNION {IdsOf(x) : x \in items}
         /\ u.into # None => \E x \in items : x.what = "dir" /\ u.into = x.to
<1>1. \A m \in DOMAIN u.docs : u.docs[m].from \subseteq UNION {IdsOf(x) : x \in items}
  BY DEF UnitOf, DocOf
<1>q. QED  BY <1>1 DEF UnitOf, From

\* The items of a page are things.
LEMMA PagesItems ==
  ASSUME NEW w \in Worlds, NEW c \in DOMAIN w.pages, NEW items, NEW lo, NEW hi,
         OnPages(w, c, items, lo, hi), NEW x \in items
  PROVE  /\ x \in Things(w)
         /\ x.what = "dir" => x.to \in DOMAIN w.pages /\ x.to # None
<1>1. PICK k \in DOMAIN w.pages[c] : \E j \in DOMAIN w.pages[c][k] : x = w.pages[c][k][j]
  BY DEF OnPages
<1>2. PICK j \in DOMAIN w.pages[c][k] : x = w.pages[c][k][j]
  BY <1>1
<1>3. x \in Things(w)
  BY <1>2, PlaceFacts
<1>q. QED  BY <1>3, ThingFacts

\* A listing has nothing in common with the other pages.
LEMMA OtherPages ==
  ASSUME NEW w \in Worlds, NEW c \in DOMAIN w.pages, NEW items, NEW lo, NEW hi,
         OnPages(w, c, items, lo, hi), NEW u, UnitOf(w, c, items, u),
         NEW d \in DOMAIN w.pages, NEW k \in DOMAIN w.pages[d], NEW i \in DOMAIN w.pages[d][k],
         d # c \/ ~(lo <= k /\ k < hi)
  PROVE  /\ IdsOf(w.pages[d][k][i]) \cap From(u) = {}
         /\ w.kind \notin Drives /\ w.pages[d][k][i].what = "dir" =>
              u.into # w.pages[d][k][i].to
<1> DEFINE x == w.pages[d][k][i]
<1>1. ASSUME NEW y \in items
      PROVE  /\ IdsOf(x) \cap IdsOf(y) = {}
             /\ w.kind \notin Drives /\ x.what = "dir" /\ y.what = "dir" => x.to # y.to
  <2>1. PICK l \in DOMAIN w.pages[c] : lo <= l /\ l < hi /\ \E j \in DOMAIN w.pages[c][l] : y = w.pages[c][l][j]
    BY DEF OnPages
  <2>2. PICK j \in DOMAIN w.pages[c][l] : y = w.pages[c][l][j]
    BY <2>1
  <2>3. d # c \/ k # l \/ i # j
    BY <2>1
  <2>4. IdsOf(w.pages[d][k][i]) \cap IdsOf(w.pages[c][l][j]) = {}
    <3> HIDE DEF x
    <3>1. /\ w \in Worlds /\ c \in DOMAIN w.pages /\ d \in DOMAIN w.pages
          /\ k \in DOMAIN w.pages[d] /\ l \in DOMAIN w.pages[c]
          /\ i \in DOMAIN w.pages[d][k] /\ j \in DOMAIN w.pages[c][l]
      OBVIOUS
    <3> DEFINE p == <<d, k, i>>
               q == <<c, l, j>>
    <3>2. p # q
      BY <2>3
    <3>3. p \in Places(w) /\ ItemAt(w, p) = w.pages[d][k][i]
      BY <3>1, PlaceFacts
    <3>4. q \in Places(w) /\ ItemAt(w, q) = w.pages[c][l][j]
      BY <3>1, PlaceFacts
    <3> HIDE DEF p, q
    <3>5. IdsOf(ItemAt(w, p)) \cap IdsOf(ItemAt(w, q)) = {}
      BY <3>2, <3>3, <3>4, ItemsApart
    <3>q. QED  BY <3>3, <3>4, <3>5
  <2>5. w.kind \notin {"gdrive", "onedrive"} /\ w.pages[d][k][i].what = "dir"
           /\ w.pages[c][l][j].what = "dir" =>
           w.pages[d][k][i].to # w.pages[c][l][j].to
    BY <2>3, PlacesApart
  <2>q. QED  BY <2>2, <2>4, <2>5 DEF Drives
<1>2. x \in Things(w)
  BY PlaceFacts
<1> HIDE DEF x
<1>3. x.what = "dir" => x.to # None
  BY <1>2, ThingFacts
<1>4. IdsOf(x) \cap From(u) = {}
  BY <1>1, UnitItems
<1>5. w.kind \notin Drives /\ x.what = "dir" => u.into # x.to
  BY <1>1, <1>3, UnitItems
<1>q. QED  BY <1>4, <1>5 DEF x

\* What was ahead and is listed.
LEMMA AheadListed ==
  ASSUME ShapeInv, CrawlTypeOK, AheadInv, phase = "list", NEW items, NEW hi,
         OnPages(world, page.here, items, page.next, hi),
         NEW u, UnitOf(world, page.here, items, u)
  PROVE  /\ \A m \in DOMAIN out : out[m].from \cap From(u) = {}
         /\ world.kind \notin Drives => u.into \notin visited \cup ToSet(stack)
<1>1. page.here \in visited /\ visited \subseteq DOMAIN world.pages /\ world \in Worlds
      /\ ToSet(stack) \subseteq DOMAIN world.pages
  BY DEF ShapeInv, CrawlTypeOK, Listing
<1>2. \A y \in items : NothingAhead(y)
  <2> SUFFICES ASSUME NEW y \in items
               PROVE  NothingAhead(y)
    OBVIOUS
  <2>1. PICK l \in DOMAIN world.pages[page.here] :
          page.next <= l /\ \E j \in DOMAIN world.pages[page.here][l] : y = world.pages[page.here][l][j]
    BY DEF OnPages
  <2>2. Ahead(page.here, l)
    BY <2>1 DEF Ahead, Listing
  <2>q. QED  BY <1>1, <2>1, <2>2 DEF AheadInv
<1>3. None \notin DOMAIN world.pages
  BY <1>1, CrawlWorldsAssumption DEF Typed
<1>4. \A m \in DOMAIN out : out[m].from \cap From(u) = {}
  <2>1. \A m \in DOMAIN out : \A y \in items : IdsOf(y) \cap out[m].from = {}
    BY <1>2 DEF NothingAhead
  <2>2. From(u) \subseteq UNION {IdsOf(y) : y \in items}
    BY UnitItems
  <2>q. QED  BY <2>1, <2>2
<1>5. world.kind \notin Drives => u.into \notin visited \cup ToSet(stack)
  <2>1. world.kind \notin Drives => \A y \in items : y.what = "dir" => y.to \notin visited \cup ToSet(stack)
    BY <1>2 DEF NothingAhead
  <2>2. u.into # None => \E y \in items : y.what = "dir" /\ u.into = y.to
    BY UnitItems
  <2>q. QED  BY <1>1, <1>3, <2>1, <2>2
<1>q. QED  BY <1>4, <1>5

\* What is listed stands for its pages, but for what failed.
StandsFor(w, c, items, lo, hi, missing) ==
  \A k \in DOMAIN w.pages[c] : lo <= k /\ k < hi =>
    /\ \A x \in Offered(w, w.pages[c][k]) : Documented(w, x) =>
         x \in Offered(w, items) \/ x.id \in missing
    /\ \A x \in ToSet(w.pages[c][k]) : x.what = "dir" => x \in ToSet(items)

\* The crawl after a listing.
Lists(items, left, next) ==
  /\ phase = "list" /\ next \in Nat /\ page.next < next
  /\ Listed(world, page.here, items, left) /\ Onward(left, next)
  /\ OnPages(world, page.here, ToSet(items), page.next, next)
  /\ StandsFor(world, page.here, items, page.next, next, lost')
  /\ world' = world /\ stack' = stack /\ visited' = visited /\ yielded' = yielded
  /\ out' = out /\ token' = token /\ lost \subseteq lost'
  /\ world.kind = "slack" => next > Len(world.pages[page.here])

\* A listing keeps the shape.
LEMMA ListedShape ==
  ASSUME ShapeInv, CrawlTypeOK, NEW items, NEW left, NEW next, Lists(items, left, next),
         faults' \in 0 .. MaxFaults
  PROVE  /\ ShapeInv' /\ CrawlTypeOK' /\ units' = left /\ page'.here = page.here
         /\ page'.next = next /\ page.here \in visited /\ units = <<>>
         /\ phase' = "open" => left = <<>> /\ next > Len(world.pages[page.here])
         /\ phase' \in {"read", "list", "open"}
<1>1. /\ phase = "list" /\ next \in Nat /\ page.next < next /\ IsSeq(left) /\ Onward(left, next)
      /\ world' = world /\ stack' = stack /\ visited' = visited /\ yielded' = yielded
      /\ out' = out /\ token' = token
      /\ world.kind = "slack" => next > Len(world.pages[page.here])
  BY DEF Lists, Listed
<1>2. /\ units' = left /\ page' = [here |-> page.here, next |-> next]
      /\ page'.here = page.here /\ page'.next = next
      /\ phase' \in {"read", "list", "open"}
      /\ phase' = "read" <=> left # <<>>
      /\ phase' = "list" <=> left = <<>> /\ next <= Len(world.pages[page.here])
  BY <1>1, OnwardFacts DEF PagesOf
<1>3. page.here \in visited /\ visited \subseteq DOMAIN world.pages /\ units = <<>> /\ world \in Worlds
  BY <1>1 DEF ShapeInv, Listing, CrawlTypeOK
<1>4. Len(world.pages[page.here]) \in Nat /\ page.next \in Nat
  BY <1>3, PageFacts DEF CrawlTypeOK
<1>5. next # 0
  BY <1>1, <1>4
<1>6. CrawlTypeOK'
  BY <1>1, <1>2 DEF CrawlTypeOK, CrawlStages
<1>7. ShapeInv'
  BY <1>1, <1>2, <1>3, <1>4, <1>5 DEF ShapeInv, Listing, PagesOf, Full
<1>8. phase' = "open" => left = <<>> /\ next > Len(world.pages[page.here])
  BY <1>1, <1>2, <1>4
<1>q. QED  BY <1>2, <1>3, <1>6, <1>7, <1>8

\* What is listed is no longer ahead, and was nowhere else.
LEMMA ListedApart ==
  ASSUME ShapeInv, CrawlTypeOK, NEW items, NEW left, NEW next, Lists(items, left, next),
         AheadInv, OutInv, WayInv, units' = left, page'.here = page.here, page'.next = next
  PROVE  AheadInv' /\ OutInv' /\ WayInv'
<1>1. /\ phase = "list" /\ next \in Nat /\ page.next < next
      /\ world' = world /\ stack' = stack /\ visited' = visited /\ out' = out
      /\ OnPages(world, page.here, ToSet(items), page.next, next)
      /\ Listed(world, page.here, items, left)
  BY DEF Lists
<1>2. world \in Worlds /\ page.here \in visited /\ page.here \in DOMAIN world.pages
  BY <1>1 DEF CrawlTypeOK, ShapeInv, Listing
<1>3. \A m \in DOMAIN left : UnitOf(world, page.here, ToSet(items), left[m])
  BY <1>1 DEF Listed
<1>4. \A m \in DOMAIN left :
        /\ \A n \in DOMAIN out : out[n].from \cap From(left[m]) = {}
        /\ world.kind \notin Drives => left[m].into \notin visited \cup ToSet(stack)
  BY <1>1, <1>3, AheadListed
<1>5. \A m, n \in DOMAIN left : m # n =>
        /\ From(left[m]) \cap From(left[n]) = {}
        /\ world.kind \notin Drives /\ left[m].into = left[n].into => left[m].into = None
  BY <1>1 DEF Listed, Drives
<1>6. OutInv'
  BY <1>1, <1>4, <1>5 DEF OutInv
<1>7. WayInv'
  BY <1>1, <1>4, <1>5 DEF WayInv
<1>8. AheadInv'
  <2> SUFFICES ASSUME NEW d \in DOMAIN world.pages, NEW k \in DOMAIN world.pages[d], Ahead(d, k)',
                      NEW i \in DOMAIN world.pages[d][k]
               PROVE  NothingAhead(world.pages[d][k][i])'
    BY <1>1 DEF AheadInv
  <2>0. page.next \in Nat /\ k \in Nat
    BY <1>2, PageFacts DEF CrawlTypeOK
  <2>1. Ahead(d, k) /\ (d # page.here \/ ~(page.next <= k /\ k < next))
    BY <1>1, <1>2, <2>0 DEF Ahead, Listing
  <2>2. \A m \in DOMAIN left :
          /\ IdsOf(world.pages[d][k][i]) \cap From(left[m]) = {}
          /\ world.kind \notin Drives /\ world.pages[d][k][i].what = "dir" =>
               left[m].into # world.pages[d][k][i].to
    BY <1>1, <1>2, <1>3, <2>1, OtherPages
  <2>3. \A x : NothingAhead(x) /\
          (\A m \in DOMAIN left :
             /\ IdsOf(x) \cap From(left[m]) = {}
             /\ world.kind \notin Drives /\ x.what = "dir" => left[m].into # x.to)
          => NothingAhead(x)'
    BY <1>1 DEF NothingAhead
  <2>4. NothingAhead(world.pages[d][k][i])
    BY <2>1 DEF AheadInv
  <2>q. QED  BY <1>1, <2>2, <2>3, <2>4
<1>q. QED  BY <1>6, <1>7, <1>8

\* What is listed accounts for its pages.
LEMMA ListedAccounted ==
  ASSUME ShapeInv, CrawlTypeOK, AccountInv, NEW items, NEW left, NEW next,
         Lists(items, left, next),
         units = <<>>, units' = left, page'.here = page.here, page'.next = next,
         page.here \in visited, phase' \in {"read", "list", "open"},
         phase' = "open" => next > Len(world.pages[page.here])
  PROVE  AccountInv'
<1> SUFFICES ASSUME ~Full'
             PROVE  AccountInv'
  BY DEF AccountInv
<1>1. /\ phase = "list" /\ next \in Nat /\ page.next < next
      /\ world' = world /\ stack' = stack /\ visited' = visited /\ out' = out
      /\ yielded' = yielded /\ lost \subseteq lost'
  BY DEF Lists
<1>2. ~Full
  BY <1>1 DEF Full
<1>3. /\ ToSet(Begins(world)) \subseteq lost \cup visited \cup ToSet(stack)
      /\ \A c \in visited \ lost : \A k \in DOMAIN world.pages[c] :
           Pending(c, k) \/ PageAccounted(c, k)
  BY <1>1, <1>2 DEF AccountInv
<1>4. \A c, k : PageAccounted(c, k) => PageAccounted(c, k)'
  BY <1>1 DEF PageAccounted, Covered
<1>5. \A k \in DOMAIN world.pages[page.here] : page.next <= k /\ k < next =>
        PageAccounted(page.here, k)'
  <2> SUFFICES ASSUME NEW k \in DOMAIN world.pages[page.here], page.next <= k, k < next
               PROVE  PageAccounted(page.here, k)'
    OBVIOUS
  <2> DEFINE P(c) ==
        /\ \A x \in Offered(world, world.pages[c][k]) : Documented(world, x) =>
             x.id \in lost' \/ \E m \in DOMAIN left : x.id \in From(left[m])
        /\ \A x \in ToSet(world.pages[c][k]) : x.what = "dir" =>
             \E m \in DOMAIN left : left[m].into = x.to
  <2>1. /\ \A x \in Offered(world, items) : Documented(world, x) =>
             \E m \in DOMAIN left : x.id \in From(left[m])
        /\ \A x \in ToSet(items) : x.what = "dir" => \E m \in DOMAIN left : left[m].into = x.to
    BY DEF Lists, Listed
  <2>2. /\ \A x \in Offered(world, world.pages[page.here][k]) : Documented(world, x) =>
             x \in Offered(world, items) \/ x.id \in lost'
        /\ \A x \in ToSet(world.pages[page.here][k]) : x.what = "dir" => x \in ToSet(items)
    BY DEF Lists, StandsFor
  <2>3. P(page.here)
    BY <2>1, <2>2
  <2>4. \A c : P(c) => PageAccounted(c, k)'
    BY <1>1 DEF PageAccounted
  <2> HIDE DEF P
  <2>q. QED  BY <2>3, <2>4
<1>6. page.next \in Nat /\ world \in Worlds
  BY DEF CrawlTypeOK
<1>7. ASSUME NEW c \in visited, c \notin lost', NEW k \in DOMAIN world.pages[c]
      PROVE  Pending(c, k)' \/ PageAccounted(c, k)'
  <2>1. CASE c # page.here
    BY <1>1, <1>3, <1>4, <1>7, <2>1 DEF Pending
  <2>2. CASE c = page.here
    <3>0. c \in DOMAIN world.pages
      BY <2>2 DEF ShapeInv
    <3>1. k \in Nat /\ k <= Len(world.pages[c])
      BY <1>6, <3>0, PageFacts
    <3>2. CASE k < page.next
      BY <1>1, <1>3, <1>4, <1>6, <1>7, <3>1, <3>2 DEF Pending
    <3>3. CASE page.next <= k /\ k < next
      BY <1>5, <2>2, <3>3
    <3>4. CASE next <= k
      <4>1. phase' \in {"read", "list"}
        BY <1>1, <2>2, <3>0, <3>1, <3>4, PageFacts, <1>6
      <4>q. QED  BY <2>2, <3>4, <4>1 DEF Pending, Listing
    <3>q. QED  BY <1>1, <1>6, <3>1, <3>2, <3>3, <3>4
  <2>q. QED  BY <2>1, <2>2
<1>q. QED  BY <1>1, <1>3, <1>7 DEF AccountInv

\* A listing keeps the invariant.
LEMMA ListsKeeps ==
  ASSUME CrawlInv, NEW items, NEW left, NEW next, Lists(items, left, next),
         faults' \in 0 .. MaxFaults, LostInv',
         \A d : DocOf(world, page.here, ToSet(items), d) => DocInv(d)',
         \A m \in DOMAIN out : DocInv(out[m])'
  PROVE  CrawlInv'
<1> USE DEF CrawlInv
<1>1. /\ ShapeInv' /\ CrawlTypeOK' /\ units' = left /\ page'.here = page.here
      /\ page'.next = next /\ page.here \in visited /\ units = <<>>
      /\ phase' = "open" => left = <<>> /\ next > Len(world.pages[page.here])
      /\ phase' \in {"read", "list", "open"}
  BY ListedShape
<1>2. token' = token /\ world' = world /\ out' = out
  BY DEF Lists
<1>3. ApartInv'
  BY <1>1, <1>2, ListedApart DEF ApartInv
<1>4. AccountInv'
  BY <1>1, ListedAccounted
<1>5. OneFailureAborts'
  BY <1>1 DEF OneFailureAborts
<1>6. DocsInv'
  <2>1. /\ \A m \in DOMAIN left : UnitOf(world, page.here, ToSet(items), left[m])
        /\ OnPages(world, page.here, ToSet(items), page.next, next)
    BY DEF Lists, Listed
  <2>2. world \in Worlds /\ page.here \in DOMAIN world.pages
    BY <1>1 DEF CrawlTypeOK, ShapeInv
  <2>3. \A x \in ToSet(items) : x.what = "dir" =>
          x.to \in DOMAIN world.pages /\ world.kind # "telegram"
    BY <2>1, <2>2, PagesItems, ThingFacts
  <2>4. \A m \in DOMAIN left : UnitInv(left[m])'
    <3> SUFFICES ASSUME NEW u, UnitOf(world, page.here, ToSet(items), u)
                 PROVE  UnitInv(u)'
      BY <2>1, <1>2
    <3>q. QED  BY <1>2, <2>3 DEF UnitInv, UnitOf
  <2>q. QED  BY <1>1, <1>2, <2>4 DEF DocsInv
<1>q. QED  BY <1>1, <1>3, <1>4, <1>5, <1>6

\* One page of a container.
LEMMA ListPageKeeps ==
  ASSUME CrawlInv, List, world.kind # "slack" PROVE CrawlInv'
<1> DEFINE c == page.here
           k == page.next
           items == world.pages[c][k]
           left == Units(world, c, items)
<1>1. /\ phase = "list" /\ Onward(left, k + 1) /\ NoFault
      /\ world' = world /\ stack' = stack /\ visited' = visited /\ yielded' = yielded
      /\ out' = out /\ token' = token
  BY DEF List, ListPage, ReadsAll, PagesOf
<1>2. faults' \in 0 .. MaxFaults /\ lost' = lost
  BY <1>1, NoFaultFacts DEF CrawlInv
<1>3. world \in Worlds /\ c \in DOMAIN world.pages /\ k \in Nat /\ k # 0 /\ k <= Len(world.pages[c])
  BY <1>1 DEF CrawlInv, CrawlTypeOK, ShapeInv, Listing, PagesOf
<1>4. k \in DOMAIN world.pages[c]
  BY <1>3, PageFacts
<1>5. Listed(world, c, items, left)
  BY <1>3, <1>4, PageUnits
<1>6. OnPages(world, c, ToSet(items), k, k + 1)
  BY <1>3, <1>4 DEF OnPages, ToSet
<1>7. StandsFor(world, c, items, k, k + 1, lost')
  <2>1. \A l \in DOMAIN world.pages[c] : k <= l /\ l < k + 1 => l = k
    BY <1>3, PageFacts
  <2>q. QED  BY <2>1 DEF StandsFor
<1>8. Lists(items, left, k + 1)
  BY <1>1, <1>2, <1>3, <1>5, <1>6, <1>7 DEF Lists
<1>9. LostInv'
  BY <1>1 DEF LostInv
<1>10. \A d : DocInv(d) => DocInv(d)'
  BY <1>1, <1>2 DEF DocInv
<1>11. \A m \in DOMAIN out : DocInv(out[m])'
  BY <1>1, <1>10 DEF CrawlInv, DocsInv
<1>13. world.kind = "telegram" => items = world.pages[Root][1]
  <2> SUFFICES ASSUME world.kind = "telegram"
               PROVE  c = Root /\ k = 1
    OBVIOUS
  <2>1. c = Root
    BY <1>1 DEF CrawlInv, ShapeInv, Listing
  <2>2. Len(world.pages[Root]) = 1
    BY <1>3, CrawlWorldsAssumption DEF OneExport
  <2>q. QED  BY <1>3, <2>1, <2>2
<1>14. \A d : DocOf(world, c, ToSet(items), d) => DocInv(d)'
  BY <1>1, <1>13 DEF DocOf, DocInv
<1>q. QED  BY <1>2, <1>8, <1>9, <1>11, <1>14, ListsKeeps

-----------------------------------------------------------------------------
(* The days of a channel *)

\* A message of a channel can become part of a document.
LEMMA MessageFacts ==
  ASSUME NEW w \in Worlds, w.kind = "slack", NEW x \in Things(w)
  PROVE  x.what # "dir" /\ x.id \in IdsOf(x)
<1>1. x.what # "dir"
  BY ThingFacts
<1>q. QED  BY <1>1 DEF IdsOf

\* Two messages of different days have ids of their own.
LEMMA DaysApart ==
  ASSUME NEW w \in Worlds, w.kind = "slack",
         NEW c \in DOMAIN w.pages, NEW k \in DOMAIN w.pages[c],
         NEW d \in DOMAIN w.pages, NEW l \in DOMAIN w.pages[d], c # d \/ k # l,
         NEW x \in ToSet(w.pages[c][k]), NEW y \in ToSet(w.pages[d][l])
  PROVE  x.id # y.id
<1>1. PICK i \in DOMAIN w.pages[c][k] : x = w.pages[c][k][i]
  BY DEF ToSet
<1>2. PICK j \in DOMAIN w.pages[d][l] : y = w.pages[d][l][j]
  BY DEF ToSet
<1>3. c # d \/ k # l \/ i # j
  OBVIOUS
<1>4. /\ w \in Worlds /\ c \in DOMAIN w.pages /\ d \in DOMAIN w.pages
      /\ k \in DOMAIN w.pages[c] /\ l \in DOMAIN w.pages[d]
      /\ i \in DOMAIN w.pages[c][k] /\ j \in DOMAIN w.pages[d][l]
  OBVIOUS
<1>5. IdsOf(w.pages[c][k][i]) \cap IdsOf(w.pages[d][l][j]) = {}
  <2> DEFINE p == <<c, k, i>>
             q == <<d, l, j>>
  <2>1. p # q
    BY <1>3
  <2>2. p \in Places(w) /\ ItemAt(w, p) = w.pages[c][k][i]
    BY <1>4, PlaceFacts
  <2>3. q \in Places(w) /\ ItemAt(w, q) = w.pages[d][l][j]
    BY <1>4, PlaceFacts
  <2> HIDE DEF p, q
  <2>4. IdsOf(ItemAt(w, p)) \cap IdsOf(ItemAt(w, q)) = {}
    BY <2>1, <2>2, <2>3, ItemsApart
  <2>q. QED  BY <2>2, <2>3, <2>4
<1>6. x \in Things(w) /\ y \in Things(w)
  BY <1>1, <1>2, PlaceFacts
<1>7. x.id \in IdsOf(x) /\ y.id \in IdsOf(y)
  BY <1>6, MessageFacts
<1>q. QED  BY <1>1, <1>2, <1>5, <1>7

\* What fails of a channel.
Unreadable(w, c, bad) == {x.id : x \in UNION {ToSet(w.pages[c][i]) : i \in bad}}

\* What is read of a channel is what did not fail.
LEMMA ReadDays ==
  ASSUME NEW w \in Worlds, w.kind = "slack", NEW c \in DOMAIN w.pages,
         NEW bad \in SUBSET DOMAIN w.pages[c], NEW missing, NEW items,
         ToSet(items) = UNION {ToSet(w.pages[c][i]) : i \in DOMAIN w.pages[c] \ bad},
         \A k \in DOMAIN w.pages[c] : \A x \in ToSet(w.pages[c][k]) : x.id \notin missing
  PROVE  \A y : y \in ToSet(items) <=>
                 y \in ItemsOf(w, c) /\ y.id \notin missing \cup Unreadable(w, c, bad)
<1> DEFINE gone == Unreadable(w, c, bad)
<1>1. ASSUME NEW y \in ToSet(items)
      PROVE  y \in ItemsOf(w, c) /\ y.id \notin missing \cup gone
  <2>1. PICK i \in DOMAIN w.pages[c] \ bad : y \in ToSet(w.pages[c][i])
    OBVIOUS
  <2>2. y \in ItemsOf(w, c) /\ y.id \notin missing
    BY <2>1 DEF ItemsOf
  <2>3. \A l \in bad : \A x \in ToSet(w.pages[c][l]) : x.id # y.id
    BY <2>1, DaysApart
  <2>q. QED  BY <2>2, <2>3 DEF Unreadable
<1>2. ASSUME NEW y \in ItemsOf(w, c), y.id \notin gone
      PROVE  y \in ToSet(items)
  <2>1. PICK k \in DOMAIN w.pages[c] : y \in ToSet(w.pages[c][k])
    BY DEF ItemsOf
  <2>2. k \notin bad
    BY <1>2, <2>1 DEF Unreadable
  <2>q. QED  BY <2>1, <2>2
<1>q. QED  BY <1>1, <1>2

\* The document of a thread has all of it that was read.
LEMMA ThreadDocInv ==
  ASSUME NEW w, w.kind = "slack", NEW c \in DOMAIN w.pages, NEW items, NEW missing,
         \A y : y \in ToSet(items) <=> y \in ItemsOf(w, c) /\ y.id \notin missing,
         NEW d, DocOf(w, c, ToSet(items), d)
  PROVE  d.from # {} /\ ThreadOf(w, missing, d)
<1>1. PICK g : d.name = <<c, g>> /\ d.from = {x.id : x \in {y \in ToSet(items) : Said(y) /\ y.group = g}}
  BY DEF DocOf
<1>2. {y \in ToSet(items) : Said(y) /\ y.group = g}
        = {y \in ItemsOf(w, c) : Said(y) /\ <<c, y.group>> = d.name /\ y.id \notin missing}
  BY <1>1
<1>3. d.from # {}
  BY DEF DocOf
<1>q. QED  BY <1>1, <1>2, <1>3 DEF ThreadOf

\* What fails later does not touch the threads that were read.
LEMMA ThreadStays ==
  ASSUME NEW w, NEW d, NEW missing, NEW gone, d.from \cap gone = {}, ThreadOf(w, missing, d)
  PROVE  ThreadOf(w, missing \cup gone, d)
<1> DEFINE A(e) == {y \in ItemsOf(w, e) : Said(y) /\ <<e, y.group>> = d.name /\ y.id \notin missing}
           B(e) == {y \in ItemsOf(w, e) :
                      Said(y) /\ <<e, y.group>> = d.name /\ y.id \notin missing \cup gone}
<1>1. PICK e \in DOMAIN w.pages : d.from = {x.id : x \in A(e)}
  BY DEF ThreadOf
<1>2. \A y \in A(e) : y.id \in d.from
  BY <1>1
<1>3. \A y \in A(e) : y.id \notin gone
  BY <1>2
<1>4. A(e) = B(e)
  BY <1>3
<1> HIDE DEF A
<1>5. d.from = {x.id : x \in B(e)}
  BY <1>1, <1>4
<1>q. QED  BY <1>5 DEF ThreadOf

\* The days that fail are lost, the others are listed together.
LEMMA ChannelFacts ==
  ASSUME CrawlInv, List, world.kind = "slack"
  PROVE  \E bad \in SUBSET DOMAIN world.pages[page.here] :
           LET days == world.pages[page.here]
               items == FlattenSeq([i \in DOMAIN days |-> IF i \in bad THEN <<>> ELSE days[i]])
           IN /\ faults' \in 0 .. MaxFaults /\ lost' = lost \cup Unreadable(world, page.here, bad)
              /\ Onward(Units(world, page.here, items), Len(days) + 1)
<1> DEFINE days == world.pages[page.here]
           I(bad) == FlattenSeq([i \in DOMAIN days |-> IF i \in bad THEN <<>> ELSE days[i]])
<1>1. PICK bad \in SUBSET DOMAIN days :
        /\ IF bad = {} THEN NoFault
           ELSE /\ faults + Cardinality(bad) <= MaxFaults
                /\ faults' = faults + Cardinality(bad)
                /\ lost' = lost \cup {x.id : x \in UNION {ToSet(days[i]) : i \in bad}}
        /\ Onward(Units(world, page.here, I(bad)), Len(days) + 1)
  BY DEF List, ReadsAll, ListChannel, PagesOf
<1>2. world \in Worlds /\ page.here \in DOMAIN world.pages /\ faults \in 0 .. MaxFaults /\ CrawlTypeOK
  BY DEF CrawlInv, CrawlTypeOK, ShapeInv, Listing, List
<1>3. IsFiniteSet(bad)
  <2>1. DOMAIN days = 1 .. Len(days) /\ Len(days) \in Nat
    BY <1>2, PageFacts
  <2>2. IsFiniteSet(1 .. Len(days))
    <3>1. 1 \in Int /\ Len(days) \in Int
      BY <2>1
    <3> HIDE DEF days
    <3>q. QED  BY <3>1, FS_Interval, Zenon
  <2>q. QED  BY <2>1, <2>2, FS_Subset
<1>4. Cardinality(bad) \in Nat
  BY <1>3, FS_CardinalityType
<1>5. faults' \in 0 .. MaxFaults /\ lost' = lost \cup Unreadable(world, page.here, bad)
  <2>1. CASE bad = {}
    <3>1. NoFault
      BY <1>1, <2>1
    <3>2. Unreadable(world, page.here, bad) = {}
      BY <2>1 DEF Unreadable
    <3>q. QED  BY <1>2, <3>1, <3>2, NoFaultFacts
  <2>2. CASE bad # {}
    <3>1. /\ faults + Cardinality(bad) <= MaxFaults /\ faults' = faults + Cardinality(bad)
          /\ lost' = lost \cup Unreadable(world, page.here, bad)
      BY <1>1, <2>2 DEF Unreadable
    <3>q. QED  BY <1>2, <1>4, <3>1, DocCrawlAssumption
  <2>q. QED  BY <2>1, <2>2
<1>q. QED  BY <1>1, <1>5

\* All days of a channel.
LEMMA ListChannelKeeps ==
  ASSUME CrawlInv, List, world.kind = "slack" PROVE CrawlInv'
<1> DEFINE c == page.here
           days == world.pages[c]
           I(bad) == FlattenSeq([i \in DOMAIN days |-> IF i \in bad THEN <<>> ELSE days[i]])
<1>1. PICK bad \in SUBSET DOMAIN days :
        /\ faults' \in 0 .. MaxFaults /\ lost' = lost \cup Unreadable(world, c, bad)
        /\ Onward(Units(world, c, I(bad)), Len(days) + 1)
  BY ChannelFacts
<1> DEFINE items == I(bad)
           left == Units(world, c, items)
           next == Len(days) + 1
<1>2. /\ phase = "list" 
      /\ world' = world /\ stack' = stack /\ visited' = visited /\ yielded' = yielded
      /\ out' = out /\ token' = token
  BY DEF List
<1>3. world \in Worlds /\ c \in DOMAIN world.pages /\ page.next = 1 /\ c \in visited /\ ~token.retried
      /\ CrawlTypeOK /\ ShapeInv
  BY <1>2 DEF CrawlInv, CrawlTypeOK, ShapeInv, Listing, PagesOf
<1>4. Len(days) \in Nat \ {0} /\ DOMAIN days = 1 .. Len(days)
  BY <1>3, PageFacts
<1>5. /\ Listed(world, c, items, left)
      /\ ToSet(items) = UNION {ToSet(days[i]) : i \in DOMAIN days \ bad}
  BY <1>3, ChannelUnits
<1> HIDE DEF items, left
<1>6. OnPages(world, c, ToSet(items), page.next, next)
  <2> SUFFICES ASSUME NEW x \in ToSet(items)
               PROVE  \E k \in DOMAIN days :
                        1 <= k /\ k < next /\ \E j \in DOMAIN days[k] : x = days[k][j]
    BY <1>3 DEF OnPages
  <2>1. PICK k \in DOMAIN days : x \in ToSet(days[k])
    BY <1>5
  <2>2. PICK j \in DOMAIN days[k] : x = days[k][j]
    BY <2>1 DEF ToSet
  <2>3. 1 <= k /\ k < next
    BY <1>4
  <2>q. QED  BY <2>2, <2>3
<1>7. StandsFor(world, c, items, page.next, next, lost')
  <2> SUFFICES ASSUME NEW k \in DOMAIN days
               PROVE  /\ \A x \in Offered(world, days[k]) :
                           x \in Offered(world, items) \/ x.id \in lost'
                      /\ \A x \in ToSet(days[k]) : x.what # "dir"
    BY DEF StandsFor
  <2>1. \A s : Offered(world, s) = ToSet(s)
    BY DEF Offered
  <2>2. \A x \in ToSet(days[k]) : x.what # "dir"
    BY <1>3, PageFacts, MessageFacts
  <2>3. k \in bad => \A x \in ToSet(days[k]) : x.id \in Unreadable(world, c, bad)
    BY DEF Unreadable
  <2>q. QED  BY <1>1, <1>5, <2>1, <2>2, <2>3
<1>8. Lists(items, left, next)
  <2>1. Onward(left, next) /\ lost \subseteq lost'
    BY <1>1 DEF items, left
  <2>2. next \in Nat /\ page.next < next /\ next > Len(world.pages[page.here])
    BY <1>3, <1>4 DEF PagesOf
  <2> HIDE DEF next
  <2>q. QED  BY <1>2, <1>3, <1>5, <1>6, <1>7, <2>1, <2>2 DEF Lists
<1>9. \A d \in DOMAIN world.pages : \A k \in DOMAIN world.pages[d] : Ahead(d, k) =>
        \A x \in ToSet(world.pages[d][k]) : x.id \notin lost
  BY <1>2 DEF CrawlInv, LostInv, ToSet
<1>10. \A k \in DOMAIN days : Ahead(c, k)
  BY <1>2, <1>3, <1>4 DEF Ahead, Listing
<1>11. LostInv'
  <2>1. page' = [page EXCEPT !.next = next]
    BY <1>1 DEF Onward
  <2>2. page'.here = c /\ page'.next = next
    BY <1>3, <2>1 DEF ShapeInv
  <2> SUFFICES ASSUME NEW d \in DOMAIN world.pages, NEW k \in DOMAIN world.pages[d], Ahead(d, k)',
                      NEW i \in DOMAIN world.pages[d][k]
               PROVE  world.pages[d][k][i].id \notin lost'
    BY <1>2 DEF LostInv
  <2>3. d # c /\ Ahead(d, k)
    BY <1>2, <1>3, <1>4, <2>2 DEF Ahead
  <2>4. world.pages[d][k][i] \in ToSet(world.pages[d][k])
    BY DEF ToSet
  <2>5. \A l \in bad : \A y \in ToSet(days[l]) : world.pages[d][k][i].id # y.id
    BY <1>3, <2>3, <2>4, DaysApart
  <2>6. world.pages[d][k][i].id \notin Unreadable(world, c, bad)
    BY <2>5 DEF Unreadable
  <2>q. QED  BY <1>1, <1>9, <2>3, <2>4, <2>6
<1>12. \A d : DocOf(world, c, ToSet(items), d) => DocInv(d)'
  <2>1. \A k \in DOMAIN days : \A x \in ToSet(days[k]) : x.id \notin lost
    BY <1>3, <1>9, <1>10
  <2>2. \A y : y \in ToSet(items) <=> y \in ItemsOf(world, c) /\ y.id \notin lost \cup Unreadable(world, c, bad)
    BY <1>3, <1>5, <2>1, ReadDays
  <2>3. \A y : y \in ToSet(items) <=> y \in ItemsOf(world, c) /\ y.id \notin lost'
    BY <1>1, <2>2
  <2> SUFFICES ASSUME NEW d, DocOf(world, c, ToSet(items), d)
               PROVE  DocInv(d)'
    OBVIOUS
  <2>4. d.from # {} /\ ThreadOf(world, lost', d)
    BY <1>3, <2>3, ThreadDocInv
  <2>5. OwnPath(world, d)'
    BY <1>2 DEF OwnPath
  <2>q. QED  BY <1>2, <2>4, <2>5 DEF DocInv
<1>13. \A m \in DOMAIN out : DocInv(out[m])'
  <2>1. AheadInv
    BY <1>3 DEF CrawlInv, ApartInv
  <2>2. \A k \in DOMAIN days : \A i \in DOMAIN days[k] : NothingAhead(days[k][i])
    BY <1>3, <1>10, <2>1 DEF AheadInv
  <2>3. \A k \in DOMAIN days : \A y \in ToSet(days[k]) : NothingAhead(y) /\ y.id \in IdsOf(y)
    BY <1>3, <2>2, PageFacts, MessageFacts DEF ToSet
  <2>4. \A k \in DOMAIN days : \A y \in ToSet(days[k]) : \A m \in DOMAIN out : y.id \notin out[m].from
    BY <2>3 DEF NothingAhead
  <2>5. \A m \in DOMAIN out : out[m].from \cap Unreadable(world, c, bad) = {}
    BY <2>4 DEF Unreadable
  <2>6. ASSUME NEW d, d.from \cap Unreadable(world, c, bad) = {}, DocInv(d)
        PROVE  DocInv(d)'
    <3>1. d.from # {} /\ ThreadOf(world, lost, d)
      BY <1>3, <2>6 DEF DocInv
    <3>2. ThreadOf(world, lost \cup Unreadable(world, c, bad), d)
      BY <2>6, <3>1, ThreadStays
    <3>3. ThreadOf(world, lost', d)
      BY <1>1, <3>2
    <3>4. OwnPath(world, d)'
      BY <1>2 DEF OwnPath
    <3>q. QED  BY <1>2, <3>1, <3>3, <3>4 DEF DocInv
  <2>7. \A m \in DOMAIN out : DocInv(out[m])
    BY DEF CrawlInv, DocsInv
  <2>q. QED  BY <1>2, <2>5, <2>6, <2>7
<1>q. QED  BY <1>1, <1>8, <1>11, <1>12, <1>13, ListsKeeps

-----------------------------------------------------------------------------
(* One item of a page *)

\* The step from an item to the next.
Passes ==
  /\ phase = "read" /\ Onward(Tail(units), page.next) /\ world' = world /\ visited' = visited

\* What comes after an item.
LEMMA PassesFacts ==
  ASSUME ShapeInv, CrawlTypeOK, Passes
  PROVE  /\ units' = Tail(units) /\ IsSeq(units') /\ 1 \in DOMAIN units /\ Head(units) = units[1]
         /\ page' = [here |-> page'.here, next |-> page'.next]
         /\ page'.here = page.here /\ page'.next = page.next
         /\ page.here \in visited /\ page.next # 0
         /\ phase' \in {"read", "list", "open"}
         /\ phase' = "open" => page.next > Len(world.pages[page.here])
         /\ phase' \in {"list", "open"} => units' = <<>>
         /\ phase' = "list" => page.next <= Len(world.pages[page.here])
         /\ phase' = "read" => units' # <<>>
         /\ world.kind = "slack" => phase' # "list" /\ page.next > Len(world.pages[page.here])
<1>1. phase = "read" /\ Onward(Tail(units), page.next) /\ world' = world /\ visited' = visited
  BY DEF Passes
<1>2. units # <<>> /\ IsSeq(units) /\ page.next \in Nat /\ page.here \in visited /\ page.next # 0
      /\ visited \subseteq DOMAIN world.pages /\ world \in Worlds
      /\ (world.kind = "slack" => page.next > Len(world.pages[page.here]))
  BY <1>1 DEF ShapeInv, CrawlTypeOK, Listing, PagesOf
<1>3. /\ units' = Tail(units) /\ page' = [here |-> page.here, next |-> page.next]
      /\ page'.here = page.here /\ page'.next = page.next
      /\ phase' \in {"read", "list", "open"}
      /\ phase' = "read" <=> Tail(units) # <<>>
      /\ phase' = "list" <=> Tail(units) = <<>> /\ page.next <= Len(world.pages[page.here])
  BY <1>1, <1>2, OnwardFacts DEF PagesOf
<1>4. IsSeq(Tail(units)) /\ Head(units) = units[1] /\ 1 \in DOMAIN units
  BY <1>2, TailFacts
<1>5. Len(world.pages[page.here]) \in Nat
  BY <1>2, PageFacts
<1>q. QED  BY <1>2, <1>3, <1>4, <1>5

\* What is left of a page was there before.
LEMMA LeftFacts ==
  ASSUME ShapeInv, CrawlTypeOK, Passes
  PROVE  /\ \A n \in DOMAIN units' : n \in Nat /\ n + 1 \in DOMAIN units /\ units'[n] = units[n + 1]
         /\ \A n \in DOMAIN units : n = 1 \/ (n - 1 \in DOMAIN units' /\ units'[n - 1] = units[n])
         /\ \A n \in DOMAIN units' : units'[n] = units[n + 1] /\ n + 1 # 1
         /\ \A c, k : Ahead(c, k)' => Ahead(c, k)
         /\ \A c : \A k \in DOMAIN world.pages[c] : Pending(c, k) /\ c \in visited => Pending(c, k)'
<1>1. /\ units' = Tail(units) /\ page'.here = page.here /\ page'.next = page.next
      /\ phase' \in {"read", "list", "open"} /\ IsSeq(units')
      /\ phase' = "open" => page.next > Len(world.pages[page.here])
  BY PassesFacts
<1>2. units # <<>> /\ IsSeq(units) /\ world \in Worlds /\ visited \subseteq DOMAIN world.pages
      /\ page.next \in Nat /\ phase = "read" /\ visited' = visited /\ world' = world
  BY DEF ShapeInv, CrawlTypeOK, Passes
<1>3. /\ \A i \in DOMAIN Tail(units) : i + 1 \in DOMAIN units /\ Tail(units)[i] = units[i + 1]
      /\ \A i \in DOMAIN units : i = 1 \/ (i - 1 \in DOMAIN Tail(units) /\ Tail(units)[i - 1] = units[i])
  BY <1>2, TailFacts
<1>4. \A n \in DOMAIN units' : n \in Nat /\ n # 0
  BY <1>1, SeqFacts
<1>5. \A c, k : Ahead(c, k)' => Ahead(c, k)
  BY <1>1, <1>2 DEF Ahead, Listing
<1>6. ASSUME NEW c \in visited, NEW k \in DOMAIN world.pages[c], Pending(c, k)
      PROVE  Pending(c, k)'
  <2>1. c = page.here /\ page.next <= k
    BY <1>6 DEF Pending
  <2>2. k \in Nat /\ k <= Len(world.pages[c]) /\ Len(world.pages[c]) \in Nat
    BY <1>2, PageFacts
  <2>3. phase' # "open"
    BY <1>1, <1>2, <2>1, <2>2
  <2>q. QED  BY <1>1, <2>1, <2>3 DEF Pending, Listing
<1>q. QED  BY <1>1, <1>3, <1>4, <1>5, <1>6

\* The account is kept when an item is handed on or lost.
LEMMA PassesAccounted ==
  ASSUME ShapeInv, CrawlTypeOK, AccountInv, Passes, ~Full' => ~Full,
         lost \subseteq lost', Covered \subseteq Covered', ToSet(stack) \subseteq ToSet(stack'),
         ~Full' => From(Head(units)) \subseteq lost' \cup Covered',
         world.recursive /\ Head(units).into # None => Head(units).into \in ToSet(stack')
  PROVE  AccountInv'
<1> SUFFICES ASSUME ~Full'
             PROVE  AccountInv'
  BY DEF AccountInv
<1>1. /\ ToSet(Begins(world)) \subseteq lost \cup visited \cup ToSet(stack)
      /\ \A c \in visited \ lost : \A k \in DOMAIN world.pages[c] :
           Pending(c, k) \/ PageAccounted(c, k)
  BY DEF AccountInv, Passes
<1>2. world' = world /\ visited' = visited /\ world \in Worlds /\ visited \subseteq DOMAIN world.pages
  BY DEF Passes, ShapeInv, CrawlTypeOK
<1>3. Head(units) = units[1]
  BY PassesFacts
<1>4. \A n \in DOMAIN units : n = 1 \/ (n - 1 \in DOMAIN units' /\ units'[n - 1] = units[n])
  BY LeftFacts
<1>5. ASSUME NEW c \in visited, NEW k \in DOMAIN world.pages[c], PageAccounted(c, k)
      PROVE  PageAccounted(c, k)'
  <2>1. \A x \in Offered(world, world.pages[c][k]) : Documented(world, x) =>
          x.id \in lost' \cup Covered' \/ \E m \in DOMAIN units' : x.id \in From(units'[m])
    <3> SUFFICES ASSUME NEW i, i \in lost \cup Covered \/ \E m \in DOMAIN units : i \in From(units[m])
                 PROVE  i \in lost' \cup Covered' \/ \E m \in DOMAIN units' : i \in From(units'[m])
      BY <1>5 DEF PageAccounted
    <3>1. CASE i \in lost \cup Covered
      BY <3>1
    <3>2. ASSUME NEW m \in DOMAIN units, i \in From(units[m])
          PROVE  i \in lost' \cup Covered' \/ \E n \in DOMAIN units' : i \in From(units'[n])
      BY <1>3, <1>4, <3>2
    <3>q. QED  BY <3>1, <3>2
  <2>2. world.recursive => \A x \in ToSet(world.pages[c][k]) : x.what = "dir" =>
          x.to \in lost' \cup visited' \cup ToSet(stack') \/ \E m \in DOMAIN units' : units'[m].into = x.to
    <3> SUFFICES ASSUME world.recursive, NEW x \in ToSet(world.pages[c][k]), x.what = "dir"
                 PROVE  x.to \in lost' \cup visited' \cup ToSet(stack')
                        \/ \E m \in DOMAIN units' : units'[m].into = x.to
      OBVIOUS
    <3>1. x.to \in lost \cup visited \cup ToSet(stack) \/ \E m \in DOMAIN units : units[m].into = x.to
      BY <1>5 DEF PageAccounted
    <3>2. x.to # None
      BY <1>2, PageFacts, ThingFacts
    <3>3. ASSUME NEW m \in DOMAIN units, units[m].into = x.to
          PROVE  x.to \in ToSet(stack') \/ \E n \in DOMAIN units' : units'[n].into = x.to
      BY <1>3, <1>4, <3>2, <3>3
    <3>q. QED  BY <1>2, <3>1, <3>3
  <2>q. QED  BY <1>2, <2>1, <2>2 DEF PageAccounted
<1>6. \A c \in visited : \A k \in DOMAIN world.pages[c] : Pending(c, k) => Pending(c, k)'
  BY LeftFacts
<1>7. /\ ToSet(Begins(world')) \subseteq lost' \cup visited' \cup ToSet(stack')
      /\ \A c \in visited' \ lost' : \A k \in DOMAIN world'.pages[c] :
           Pending(c, k)' \/ PageAccounted(c, k)'
  BY <1>1, <1>2, <1>5, <1>6
<1>q. QED  BY <1>7 DEF AccountInv

\* An item is passed: some documents of its are handed on, and its folder is stacked.
HandsOn(y) ==
  /\ Passes /\ IsSeq(y) /\ Apart(y) /\ out' = out \o y
  /\ \A m \in DOMAIN y : y[m].from \subseteq From(Head(units))
  /\ \/ stack' = stack
     \/ Head(units).into # None /\ stack' = Append(stack, Head(units).into)

\* The stack after an item.
LEMMA StackFacts ==
  ASSUME ShapeInv, NEW y, HandsOn(y)
  PROVE  /\ IsSeq(stack') /\ ToSet(stack) \subseteq ToSet(stack')
         /\ ToSet(stack') \subseteq ToSet(stack) \cup ({Head(units).into} \ {None})
         /\ (\A m, n \in DOMAIN stack : stack[m] = stack[n] => m = n)
              /\ Head(units).into \notin ToSet(stack) =>
              \A m, n \in DOMAIN stack' : stack'[m] = stack'[n] => m = n
<1> DEFINE u == Head(units).into
<1>1. IsSeq(stack)
  BY DEF ShapeInv
<1>2. CASE stack' = stack
  BY <1>1, <1>2
<1>3. CASE u # None /\ stack' = Append(stack, u)
  <2>1. /\ IsSeq(stack') /\ Len(stack') = Len(stack) + 1 /\ stack'[Len(stack) + 1] = u
        /\ \A i \in DOMAIN stack : stack'[i] = stack[i]
        /\ ToSet(stack') = ToSet(stack) \cup {u}
    BY <1>1, <1>3, AppendFacts
  <2>2. DOMAIN stack = 1 .. Len(stack) /\ DOMAIN stack' = 1 .. Len(stack') /\ Len(stack) \in Nat
        /\ \A i \in DOMAIN stack : stack[i] \in ToSet(stack)
    BY <1>1, <2>1, SeqFacts
  <2> HIDE DEF u
  <2>3. ASSUME \A m, n \in DOMAIN stack : stack[m] = stack[n] => m = n, u \notin ToSet(stack),
               NEW m \in DOMAIN stack', NEW n \in DOMAIN stack', stack'[m] = stack'[n]
        PROVE  m = n
    <3>1. m \in DOMAIN stack \/ m = Len(stack) + 1
      BY <2>1, <2>2
    <3>2. n \in DOMAIN stack \/ n = Len(stack) + 1
      BY <2>1, <2>2
    <3>q. QED  BY <2>1, <2>2, <2>3, <3>1, <3>2
  <2>q. QED  BY <1>3, <2>1, <2>3 DEF u
<1>q. QED  BY <1>2, <1>3 DEF HandsOn

\* What was handed on after an item.
LEMMA HandedFacts ==
  ASSUME ShapeInv, NEW y, HandsOn(y)
  PROVE  /\ IsSeq(out') /\ Len(out') = Len(out) + Len(y)
         /\ \A m \in DOMAIN out : \E n \in DOMAIN out' : out'[n] = out[m]
         /\ \A m \in DOMAIN y : \E n \in DOMAIN out' : out'[n] = y[m]
         /\ \A m \in DOMAIN out' :
              (\E n \in DOMAIN out : out'[m] = out[n]) \/ (\E n \in DOMAIN y : out'[m] = y[n])
<1>1. IsSeq(out) /\ IsSeq(y) /\ out' = out \o y
  BY DEF ShapeInv, HandsOn
<1>2. /\ IsSeq(out') /\ Len(out') = Len(out) + Len(y)
      /\ \A i \in DOMAIN out : i \in DOMAIN out' /\ out'[i] = out[i]
      /\ \A i \in DOMAIN y : Len(out) + i \in DOMAIN out' /\ out'[Len(out) + i] = y[i]
      /\ \A i \in DOMAIN out' : i \in DOMAIN out \/ \E j \in DOMAIN y : i = Len(out) + j
  <2>1. /\ IsSeq(out \o y)
        /\ Len(out \o y) = Len(out) + Len(y)
        /\ \A i \in DOMAIN out : i \in DOMAIN (out \o y) /\ (out \o y)[i] = out[i]
        /\ \A i \in DOMAIN y : Len(out) + i \in DOMAIN (out \o y) /\ (out \o y)[Len(out) + i] = y[i]
        /\ \A i \in DOMAIN (out \o y) :
             i \in DOMAIN out \/ \E j \in DOMAIN y : i = Len(out) + j
    <3>1. IsSeq(out) /\ IsSeq(y)
      BY <1>1
    <3>2. IsSeq(out \o y) /\ Len(out \o y) = Len(out) + Len(y)
      BY <3>1, JoinedFacts
    <3>3. \A i \in DOMAIN out : i \in DOMAIN (out \o y) /\ (out \o y)[i] = out[i]
      BY <3>1, JoinedFacts
    <3>4. \A i \in DOMAIN y : Len(out) + i \in DOMAIN (out \o y) /\ (out \o y)[Len(out) + i] = y[i]
      BY <3>1, JoinedFacts
    <3>5. \A i \in DOMAIN (out \o y) : i \in DOMAIN out \/ \E j \in DOMAIN y : i = Len(out) + j
      BY <3>1, JoinedFacts, ZenonT(30)
    <3>q. QED  BY <3>2, <3>3, <3>4, <3>5
  <2>q. QED  BY <1>1, <2>1, Zenon
<1>q. QED  BY <1>2

\* Documents of an item share nothing with what there was.
LEMMA HandedApart ==
  ASSUME ShapeInv, CrawlTypeOK, OutInv, NEW y, HandsOn(y)
  PROVE  OutInv'
<1>1. Passes /\ IsSeq(out) /\ IsSeq(y) /\ Apart(y) /\ out' = out \o y
      /\ \A m \in DOMAIN y : y[m].from \subseteq From(Head(units))
  BY DEF HandsOn, ShapeInv
<1>2. Head(units) = units[1] /\ 1 \in DOMAIN units
  BY <1>1, PassesFacts
<1>3. \A n \in DOMAIN units' : n + 1 \in DOMAIN units /\ units'[n] = units[n + 1] /\ n + 1 # 1
      /\ n \in Nat
  BY <1>1, LeftFacts
<1>4. /\ Apart(out)
      /\ \A m \in DOMAIN out : \A n \in DOMAIN units : out[m].from \cap From(units[n]) = {}
      /\ \A m, n \in DOMAIN units : m # n => From(units[m]) \cap From(units[n]) = {}
  BY DEF OutInv
<1>5. Apart(out')
  <2>1. \A m \in DOMAIN out : \A n \in DOMAIN y : out[m].from \cap y[n].from = {}
    BY <1>1, <1>2, <1>4
  <2>q. QED  BY <1>1, <1>4, <2>1, JoinedDocs
<1>6. \A m \in DOMAIN out' : \A n \in DOMAIN units' : out'[m].from \cap From(units'[n]) = {}
  <2> SUFFICES ASSUME NEW m \in DOMAIN out', NEW n \in DOMAIN units'
               PROVE  out'[m].from \cap From(units'[n]) = {}
    OBVIOUS
  <2>1. n + 1 \in DOMAIN units /\ units'[n] = units[n + 1] /\ n + 1 # 1
    BY <1>3
  <2>2. From(units[1]) \cap From(units[n + 1]) = {}
    BY <1>2, <1>4, <2>1
  <2>3. \A l \in DOMAIN y : y[l].from \cap From(units[n + 1]) = {}
    BY <1>1, <1>2, <2>2
  <2>4. \A l \in DOMAIN out : out[l].from \cap From(units[n + 1]) = {}
    BY <1>4, <2>1
  <2>5. (\E l \in DOMAIN out : out'[m] = out[l]) \/ (\E l \in DOMAIN y : out'[m] = y[l])
    BY HandedFacts
  <2>q. QED  BY <2>1, <2>3, <2>4, <2>5
<1>7. \A m, n \in DOMAIN units' : m # n => From(units'[m]) \cap From(units'[n]) = {}
  <2> SUFFICES ASSUME NEW m \in DOMAIN units', NEW n \in DOMAIN units', m # n
               PROVE  From(units'[m]) \cap From(units'[n]) = {}
    OBVIOUS
  <2>1. m + 1 \in DOMAIN units /\ n + 1 \in DOMAIN units /\ m + 1 # n + 1
        /\ units'[m] = units[m + 1] /\ units'[n] = units[n + 1]
    BY <1>3
  <2>q. QED  BY <1>4, <2>1
<1>q. QED  BY <1>5, <1>6, <1>7 DEF OutInv

\* They share nothing with what comes.
LEMMA HandedAhead ==
  ASSUME ShapeInv, CrawlTypeOK, AheadInv, NEW y, HandsOn(y)
  PROVE  AheadInv'
<1>1. Passes /\ world' = world /\ visited' = visited
      /\ \A m \in DOMAIN y : y[m].from \subseteq From(Head(units))
  BY DEF HandsOn, Passes
<1>2. Head(units) = units[1] /\ 1 \in DOMAIN units
  BY <1>1, PassesFacts
<1>3. \A n \in DOMAIN units' : n + 1 \in DOMAIN units /\ units'[n] = units[n + 1]
  BY <1>1, LeftFacts
<1>4. \A c, k : Ahead(c, k)' => Ahead(c, k)
  BY <1>1, LeftFacts
<1>5. \A m \in DOMAIN out' :
        (\E n \in DOMAIN out : out'[m] = out[n]) \/ (\E n \in DOMAIN y : out'[m] = y[n])
  BY HandedFacts
<1>6. ToSet(stack') \subseteq ToSet(stack) \cup {Head(units).into}
  BY StackFacts
<1>7. ASSUME NEW x, NothingAhead(x)
      PROVE  NothingAhead(x)'
  <2>1. /\ \A m \in DOMAIN out : IdsOf(x) \cap out[m].from = {}
        /\ \A m \in DOMAIN units : IdsOf(x) \cap From(units[m]) = {}
        /\ world.kind \notin Drives /\ x.what = "dir" =>
             x.to \notin visited \cup ToSet(stack) /\ \A m \in DOMAIN units : units[m].into # x.to
    BY <1>7 DEF NothingAhead
  <2>2. \A m \in DOMAIN y : IdsOf(x) \cap y[m].from = {}
    BY <1>1, <1>2, <2>1
  <2>3. \A m \in DOMAIN out' : IdsOf(x) \cap out'[m].from = {}
    BY <1>5, <2>1, <2>2
  <2>4. \A m \in DOMAIN units' : IdsOf(x) \cap From(units'[m]) = {}
    BY <1>3, <2>1
  <2>5. world.kind \notin Drives /\ x.what = "dir" =>
          x.to \notin visited \cup ToSet(stack') /\ \A m \in DOMAIN units' : units'[m].into # x.to
    BY <1>2, <1>3, <1>6, <2>1
  <2>q. QED  BY <1>1, <2>3, <2>4, <2>5 DEF NothingAhead
<1>q. QED  BY <1>1, <1>4, <1>7 DEF AheadInv

\* A folder that is stacked is nowhere else.
LEMMA HandedWay ==
  ASSUME ShapeInv, CrawlTypeOK, WayInv, NEW y, HandsOn(y)
  PROVE  WayInv'
<1>1. Passes /\ world' = world /\ visited' = visited
  BY DEF HandsOn, Passes
<1> SUFFICES ASSUME world.kind \notin Drives
             PROVE  WayInv'
  BY <1>1 DEF WayInv
<1>2. Head(units) = units[1] /\ 1 \in DOMAIN units
  BY <1>1, PassesFacts
<1>3. \A n \in DOMAIN units' : n + 1 \in DOMAIN units /\ units'[n] = units[n + 1] /\ n + 1 # 1
      /\ n \in Nat
  BY <1>1, LeftFacts
<1>4. /\ \A m, n \in DOMAIN stack : stack[m] = stack[n] => m = n
      /\ ToSet(stack) \cap visited = {}
      /\ \A m \in DOMAIN units : units[m].into \notin visited \cup ToSet(stack)
      /\ \A m, n \in DOMAIN units : units[m].into = units[n].into /\ m # n => units[m].into = None
  BY DEF WayInv
<1>5. /\ ToSet(stack') \subseteq ToSet(stack) \cup ({units[1].into} \ {None})
      /\ \A m, n \in DOMAIN stack' : stack'[m] = stack'[n] => m = n
  BY <1>2, <1>4, StackFacts
<1>6. ToSet(stack') \cap visited = {}
  BY <1>2, <1>4, <1>5
<1>7. \A m \in DOMAIN units' : units'[m].into \notin visited \cup ToSet(stack')
  <2> SUFFICES ASSUME NEW m \in DOMAIN units'
               PROVE  units'[m].into \notin visited \cup ToSet(stack')
    OBVIOUS
  <2>1. m + 1 \in DOMAIN units /\ units'[m] = units[m + 1] /\ m + 1 # 1
    BY <1>3
  <2>2. units[m + 1].into \notin visited \cup ToSet(stack)
        /\ (units[m + 1].into = units[1].into => units[1].into = None)
    BY <1>2, <1>4, <2>1
  <2>q. QED  BY <1>5, <2>1, <2>2
<1>8. \A m, n \in DOMAIN units' : units'[m].into = units'[n].into /\ m # n => units'[m].into = None
  <2> SUFFICES ASSUME NEW m \in DOMAIN units', NEW n \in DOMAIN units', m # n,
                      units'[m].into = units'[n].into
               PROVE  units'[m].into = None
    OBVIOUS
  <2>1. m + 1 \in DOMAIN units /\ n + 1 \in DOMAIN units /\ m + 1 # n + 1
        /\ units'[m] = units[m + 1] /\ units'[n] = units[n + 1]
    BY <1>3
  <2>q. QED  BY <1>4, <2>1
<1>q. QED  BY <1>1, <1>5, <1>6, <1>7, <1>8 DEF WayInv

\* They name what they are made of.
LEMMA HandedDocs ==
  ASSUME ShapeInv, CrawlTypeOK, DocsInv, NEW y, HandsOn(y), \A m \in DOMAIN y : DocInv(y[m]),
         world.kind = "slack" => lost' = lost
  PROVE  DocsInv'
<1>1. Passes /\ world' = world
  BY DEF HandsOn, Passes
<1>2. \A n \in DOMAIN units' : n + 1 \in DOMAIN units /\ units'[n] = units[n + 1]
  BY <1>1, LeftFacts
<1>3. \A m \in DOMAIN out' :
        (\E n \in DOMAIN out : out'[m] = out[n]) \/ (\E n \in DOMAIN y : out'[m] = y[n])
  BY HandedFacts
<1>4. (\A m \in DOMAIN out : DocInv(out[m])) /\ (\A m \in DOMAIN units : UnitInv(units[m]))
  BY DEF DocsInv
<1>5. \A d : DocInv(d) => DocInv(d)'
  BY <1>1 DEF DocInv
<1>6. \A u : UnitInv(u) => UnitInv(u)'
  BY <1>1, <1>5 DEF UnitInv
<1>7. \A m \in DOMAIN out' : DocInv(out[m])'
  <2> SUFFICES ASSUME NEW m \in DOMAIN out', NEW d, d = out'[m]
               PROVE  DocInv(d)'
    OBVIOUS
  <2>1. DocInv(d)
    BY <1>3, <1>4
  <2>q. QED  BY <1>5, <2>1
<1>8. \A m \in DOMAIN units' : UnitInv(units[m])'
  <2> SUFFICES ASSUME NEW m \in DOMAIN units', NEW u, u = units'[m]
               PROVE  UnitInv(u)'
    OBVIOUS
  <2>1. UnitInv(u)
    BY <1>2, <1>4
  <2>q. QED  BY <1>6, <2>1
<1>q. QED  BY <1>7, <1>8 DEF DocsInv

\* An item that is passed keeps the shape.
LEMMA HandedShape ==
  ASSUME ShapeInv, CrawlTypeOK, NEW y, HandsOn(y), ~Full,
         yielded' = yielded + Len(y), yielded' \in 0 .. Cap,
         token' = token, faults' \in 0 .. MaxFaults,
         Head(units).into # None =>
           Head(units).into \in DOMAIN world.pages /\ world.kind # "telegram"
  PROVE  ShapeInv' /\ CrawlTypeOK'
<1>1. Passes /\ world' = world /\ visited' = visited
  BY DEF HandsOn, Passes
<1>2. /\ IsSeq(units')
      /\ page' = [here |-> page'.here, next |-> page'.next]
      /\ page'.here = page.here /\ page'.next = page.next
      /\ page.here \in visited /\ page.next # 0
      /\ phase' \in {"read", "list", "open"}
      /\ phase' \in {"list", "open"} => units' = <<>>
      /\ phase' = "list" => page.next <= Len(world.pages[page.here])
      /\ phase' = "read" => units' # <<>>
      /\ world.kind = "slack" => phase' # "list" /\ page.next > Len(world.pages[page.here])
  BY <1>1, PassesFacts
<1>3. /\ IsSeq(stack') /\ ToSet(stack') \subseteq ToSet(stack) \cup ({Head(units).into} \ {None})
  BY StackFacts
<1>4. IsSeq(out') /\ Len(out') = Len(out) + Len(y) /\ Len(out) \in Nat /\ Len(y) \in Nat
  <2>1. IsSeq(y) /\ IsSeq(out)
    BY DEF HandsOn, ShapeInv
  <2>2. Len(out) \in Nat /\ Len(y) \in Nat
    BY <2>1, SeqFacts
  <2>3. IsSeq(out') /\ Len(out') = Len(out) + Len(y)
    BY HandedFacts
  <2>q. QED  BY <2>2, <2>3
<1>5. /\ ToSet(stack) \cup visited \subseteq DOMAIN world.pages
      /\ world.kind = "telegram" => ToSet(stack) \cup visited \subseteq {Root}
      /\ token.retried \/ ~token.alive => world.kind = "onedrive"
      /\ ~token.retried => token.gen <= 1
  BY DEF ShapeInv
<1>6. /\ ToSet(stack') \cup visited' \subseteq DOMAIN world.pages
      /\ world.kind = "telegram" => ToSet(stack') \cup visited' \subseteq {Root}
  BY <1>1, <1>3, <1>5
<1>7. CrawlTypeOK'
  <2>1. yielded \in Nat /\ yielded <= Len(out) /\ (~token.retried => yielded = Len(out))
    BY DocCrawlAssumption DEF ShapeInv, CrawlTypeOK
  <2>2. yielded' <= Len(out') /\ (~token'.retried => yielded' = Len(out'))
    <3>1. yielded' <= Len(out') /\ (yielded = Len(out) => yielded' = Len(out'))
      BY <1>4, <2>1
    <3>2. token' = token
      OBVIOUS
    <3>q. QED  BY <2>1, <3>1, <3>2, Zenon
  <2>3. /\ world \in Worlds /\ page.next \in Nat /\ token.stored <= token.gen
        /\ token \in [alive : BOOLEAN, expiring : BOOLEAN, retried : BOOLEAN,
                      gen : 0 .. 2, stored : 0 .. 2]
    BY DEF CrawlTypeOK
  <2>4. ToSet(stack') \cup visited' \cup {page'.here} \subseteq DOMAIN world'.pages \cup {Root}
    BY <1>1, <1>2, <1>5, <1>6
  <2>5. phase' \in CrawlStages
    BY <1>2 DEF CrawlStages
  <2>6. world' \in Worlds /\ page'.next \in Nat
    BY <1>1, <1>2, <2>3
  <2>7. /\ token' \in [alive : BOOLEAN, expiring : BOOLEAN, retried : BOOLEAN,
                      gen : 0 .. 2, stored : 0 .. 2]
        /\ token'.stored <= token'.gen
    BY <2>3
  <2> HIDE DEF HandsOn, Passes
  <2>q. QED  BY <2>2, <2>4, <2>5, <2>6, <2>7 DEF CrawlTypeOK
<1>8. ShapeInv'
  <2>1. token'.retried \/ ~token'.alive => world'.kind = "onedrive"
    BY <1>1, <1>5
  <2>2. ~token'.retried => token'.gen <= 1
    BY <1>5
  <2>3. Listing' => page'.here \in visited' /\ page'.next # 0
    BY <1>1, <1>2
  <2>4. phase' \in {"list", "denied"} =>
          /\ page'.next <= Len(PagesOf(world', page'.here))
          /\ world'.kind = "slack" => page'.next = 1
    BY <1>1, <1>2 DEF PagesOf
  <2>5. phase' = "read" => units' # <<>>
          /\ (world'.kind = "slack" => page'.next > Len(PagesOf(world', page'.here)))
    BY <1>1, <1>2 DEF PagesOf
  <2>6. /\ phase' \notin {"start", "denied", "crawled", "stored"}
        /\ phase' \in {"list", "open"} => units' = <<>>
    BY <1>2
  <2>q. QED  BY <1>1, <1>2, <1>3, <1>4, <1>6, <2>1, <2>2, <2>3, <2>4, <2>5, <2>6 DEF ShapeInv
<1>q. QED  BY <1>7, <1>8

\* An item that is passed keeps the invariant.
LEMMA HandedKept ==
  ASSUME CrawlInv, NEW y, HandsOn(y), ~Full,
         \A m \in DOMAIN y : DocInv(y[m]),
         yielded' = yielded + Len(y), yielded' \in 0 .. Cap,
         token' = token, faults' \in 0 .. MaxFaults, lost \subseteq lost',
         world.kind = "slack" => lost' = lost,
         ~Full' => From(Head(units)) \subseteq lost' \cup Covered',
         world.recursive /\ Head(units).into # None => Head(units).into \in ToSet(stack')
  PROVE  CrawlInv'
<1>0. ShapeInv /\ CrawlTypeOK /\ DocsInv /\ ApartInv /\ LostInv /\ AccountInv
  BY DEF CrawlInv
<1>1. Passes /\ world' = world
  BY DEF HandsOn, Passes
<1>2. /\ Head(units) = units[1] /\ 1 \in DOMAIN units
      /\ phase' \in {"read", "list", "open"}
  BY <1>0, <1>1, PassesFacts
<1>3. Head(units).into # None => Head(units).into \in DOMAIN world.pages /\ world.kind # "telegram"
  BY <1>0, <1>2 DEF DocsInv, UnitInv
<1>4. ShapeInv' /\ CrawlTypeOK'
  BY <1>0, <1>3, HandedShape
<1>5. DocsInv'
  BY <1>0, HandedDocs
<1>6. ApartInv'
  BY <1>0, HandedApart, HandedAhead, HandedWay DEF ApartInv
<1>7. LostInv'
  <2>1. \A c, k : Ahead(c, k)' => Ahead(c, k)
    BY <1>0, <1>1, LeftFacts
  <2>2. phase # "failed"
    BY <1>1 DEF Passes
  <2> SUFFICES ASSUME world.kind = "slack"
               PROVE  LostInv'
    BY <1>1 DEF LostInv
  <2>3. lost' = lost
    OBVIOUS
  <2>q. QED  BY <1>0, <1>1, <2>1, <2>2, <2>3 DEF LostInv
<1>8. AccountInv'
  <2>1. Covered \subseteq Covered'
    <3>1. \A m \in DOMAIN out : \E n \in DOMAIN out' : out'[n] = out[m]
      BY <1>0, HandedFacts
    <3>q. QED  BY <3>1 DEF Covered
  <2>2. ToSet(stack) \subseteq ToSet(stack')
    BY <1>0, StackFacts
  <2>q. QED  BY <1>0, <1>1, <2>1, <2>2, PassesAccounted
<1>9. OneFailureAborts'
  BY <1>2 DEF OneFailureAborts
<1>q. QED  BY <1>4, <1>5, <1>6, <1>7, <1>8, <1>9 DEF CrawlInv

\* What the cap lets through is a beginning, and all of it below the cap.
LEMMA YieldedFacts ==
  ASSUME yielded \in 0 .. Cap, NEW docs, IsSeq(docs)
  PROVE  /\ IsSeq(Yielded(docs)) /\ Len(Yielded(docs)) \in Nat
         /\ yielded + Len(Yielded(docs)) \in 0 .. Cap
         /\ \A i \in DOMAIN Yielded(docs) : i \in DOMAIN docs /\ Yielded(docs)[i] = docs[i]
         /\ yielded + Len(Yielded(docs)) < Cap => Yielded(docs) = docs
<1> DEFINE S == {Len(docs), Cap - yielded}
           n == Min(S)
<1>1. Len(docs) \in Nat /\ Cap \in Nat
  BY SeqFacts, DocCrawlAssumption
<1>2. n \in S /\ \A i \in S : n <= i
  <2>1. \E m \in S : \A i \in S : m <= i
    BY <1>1
  <2>2. n = CHOOSE m \in S : \A i \in S : m <= i
    BY DEF Min
  <2> HIDE DEF S, n
  <2>q. QED  BY <2>1, <2>2
<1>3. n \in 0 .. Len(docs) /\ n <= Cap - yielded /\ (n = Len(docs) \/ n = Cap - yielded)
  <2>1. Len(docs) \in S /\ Cap - yielded \in S
    OBVIOUS
  <2>2. n <= Len(docs) /\ n <= Cap - yielded
    BY <1>2, <2>1
  <2>3. n = Len(docs) \/ n = Cap - yielded
    BY <1>2
  <2> HIDE DEF n
  <2>q. QED  BY <1>1, <2>2, <2>3
<1>4. Yielded(docs) = SubSeq(docs, 1, n)
  BY DEF Yielded
<1> HIDE DEF n
<1>5. /\ IsSeq(SubSeq(docs, 1, n)) /\ Len(SubSeq(docs, 1, n)) = n
      /\ \A i \in DOMAIN SubSeq(docs, 1, n) : i \in DOMAIN docs /\ SubSeq(docs, 1, n)[i] = docs[i]
      /\ n = Len(docs) => SubSeq(docs, 1, n) = docs
  BY <1>3, PrefixFacts
<1>6. n \in Nat /\ yielded + n \in 0 .. Cap /\ (yielded + n < Cap => n = Len(docs))
  BY <1>1, <1>3
<1>q. QED  BY <1>4, <1>5, <1>6

\* An item that cannot be read is lost.
LEMMA ReadFailsKeeps == ASSUME CrawlInv, ReadFails PROVE CrawlInv'
<1> DEFINE u == Head(units)
<1>1. /\ phase = "read" /\ ~Full /\ world.kind \notin {"slack", "telegram"}
      /\ u.docs # <<>> /\ Fails(UNION {u.docs[i].from : i \in DOMAIN u.docs})
      /\ Onward(Tail(units), page.next)
      /\ world' = world /\ stack' = stack /\ visited' = visited /\ yielded' = yielded
      /\ out' = out /\ token' = token
  BY DEF ReadFails
<1>2. CrawlTypeOK /\ ShapeInv /\ DocsInv
  BY DEF CrawlInv
<1>3. Passes
  BY <1>1 DEF Passes
<1>4. faults' \in 0 .. MaxFaults /\ lost' = lost \cup From(u)
  BY <1>1, <1>2, FailsFacts DEF From
<1>5. u = units[1] /\ 1 \in DOMAIN units
  BY <1>2, <1>3, PassesFacts
<1>6. u.into = None
  BY <1>1, <1>2, <1>5 DEF DocsInv, UnitInv
<1>7. IsSeq(<<>>) /\ Apart(<<>>) /\ Len(<<>>) = 0 /\ out \o <<>> = out
  BY <1>2 DEF IsSeq, Apart, ShapeInv
<1>8. HandsOn(<<>>)
  BY <1>1, <1>3, <1>7 DEF HandsOn
<1>9. yielded' = yielded + Len(<<>>) /\ yielded' \in 0 .. Cap
  BY <1>1, <1>2, <1>7 DEF ShapeInv
<1>10. \A m \in DOMAIN <<>> : DocInv(<<>>[m])
  OBVIOUS
<1> HIDE DEF u
<1>11. /\ lost \subseteq lost' /\ (world.kind = "slack" => lost' = lost)
       /\ From(Head(units)) \subseteq lost' \cup Covered'
  BY <1>1, <1>4 DEF u
<1>12. world.recursive /\ Head(units).into # None => Head(units).into \in ToSet(stack')
  BY <1>6 DEF u
<1>q. QED  BY <1>1, <1>4, <1>8, <1>9, <1>10, <1>11, <1>12, HandedKept

\* An item is read.
LEMMA ReadKeeps == ASSUME CrawlInv, Read PROVE CrawlInv'
<1> DEFINE u == Head(units)
           y == Yielded(u.docs)
<1>1. /\ phase = "read" /\ ~Full /\ NoFault
      /\ stack' = IF u.into # None /\ world.recursive THEN Append(stack, u.into) ELSE stack
      /\ out' = out \o y /\ yielded' = yielded + Len(y)
      /\ Onward(Tail(units), page.next)
      /\ world' = world /\ visited' = visited /\ token' = token
  BY DEF Read
<1>2. CrawlTypeOK /\ ShapeInv /\ DocsInv
  BY DEF CrawlInv
<1>3. Passes
  BY <1>1 DEF Passes
<1>4. faults' \in 0 .. MaxFaults /\ lost' = lost
  BY <1>1, <1>2, NoFaultFacts
<1>5. u = units[1] /\ 1 \in DOMAIN units
  BY <1>2, <1>3, PassesFacts
<1>6. UnitInv(u)
  BY <1>2, <1>5 DEF DocsInv
<1>7. /\ IsSeq(u.docs) /\ Apart(u.docs)
      /\ \A m \in DOMAIN u.docs : DocInv(u.docs[m])
  BY <1>6 DEF UnitInv
<1>8. /\ IsSeq(y) /\ Len(y) \in Nat /\ yielded + Len(y) \in 0 .. Cap
      /\ \A i \in DOMAIN y : i \in DOMAIN u.docs /\ y[i] = u.docs[i]
      /\ yielded + Len(y) < Cap => y = u.docs
  <2>1. yielded \in 0 .. Cap
    BY <1>2 DEF ShapeInv
  <2>q. QED  BY <1>7, <2>1, YieldedFacts
<1> HIDE DEF y
<1>9. Apart(y) /\ \A m \in DOMAIN y : y[m].from \subseteq From(u) /\ DocInv(y[m])
  BY <1>7, <1>8 DEF Apart, From
<1> HIDE DEF u
<1>10. HandsOn(y)
  BY <1>1, <1>3, <1>8, <1>9 DEF HandsOn, u
<1>11. ~Full' => From(Head(units)) \subseteq lost' \cup Covered'
  <2> SUFFICES ASSUME ~Full'
               PROVE  From(u) \subseteq Covered'
    BY DEF u
  <2>1. yielded + Len(y) < Cap
    BY <1>1, <1>8, DocCrawlAssumption DEF Full
  <2>2. y = u.docs
    BY <1>8, <2>1
  <2>3. \A m \in DOMAIN y : \E n \in DOMAIN out' : out'[n] = y[m]
    BY <1>2, <1>10, HandedFacts
  <2>q. QED  BY <2>2, <2>3 DEF From, Covered
<1>12. world.recursive /\ Head(units).into # None => Head(units).into \in ToSet(stack')
  <2>1. IsSeq(stack)
    BY <1>2 DEF ShapeInv
  <2>2. ToSet(Append(stack, u.into)) = ToSet(stack) \cup {u.into}
    BY <2>1, AppendFacts
  <2>q. QED  BY <1>1, <2>2 DEF u
<1>13. yielded' = yielded + Len(y) /\ yielded' \in 0 .. Cap
  BY <1>1, <1>8
<1>q. QED  BY <1>1, <1>4, <1>9, <1>10, <1>11, <1>12, <1>13, HandedKept

-----------------------------------------------------------------------------
(* Every world, and every way through it *)

\* The invariant holds at the start.
LEMMA CrawlStarts == ASSUME CrawlInit PROVE CrawlInv
<1>1. /\ world \in Worlds /\ phase = "start" /\ stack = <<>> /\ visited = {} /\ units = <<>>
      /\ page = [here |-> Root, next |-> 1] /\ yielded = 0 /\ out = <<>>
      /\ faults = 0 /\ lost = {}
      /\ token \in [alive : {TRUE}, expiring : BOOLEAN, retried : {FALSE}, gen : {0}, stored : {0}]
  BY DEF CrawlInit
<1>2. IsSeq(<<>>) /\ ToSet(<<>>) = {} /\ DOMAIN <<>> = {} /\ Len(<<>>) = 0
  BY DEF IsSeq, ToSet
<1>3. /\ page.here = Root /\ page.next = 1 /\ page = [here |-> page.here, next |-> page.next]
      /\ token \in [alive : BOOLEAN, expiring : BOOLEAN, retried : BOOLEAN, gen : 0 .. 2, stored : 0 .. 2]
      /\ token.alive /\ ~token.retried /\ token.gen = 0 /\ token.stored = 0
  <2>1. page.here = Root /\ page.next = 1 /\ page = [here |-> page.here, next |-> page.next]
    BY <1>1
  <2>2. token.alive /\ ~token.retried /\ token.gen = 0 /\ token.stored = 0
    BY <1>1
  <2>3. {TRUE} \subseteq BOOLEAN /\ {FALSE} \subseteq BOOLEAN /\ {0} \subseteq 0 .. 2
    OBVIOUS
  <2>4. token \in [alive : BOOLEAN, expiring : BOOLEAN, retried : BOOLEAN, gen : 0 .. 2, stored : 0 .. 2]
    BY <1>1, <2>3
  <2>q. QED  BY <2>1, <2>2, <2>4
<1>4. CrawlTypeOK
  BY <1>1, <1>2, <1>3, DocCrawlAssumption DEF CrawlTypeOK, CrawlStages
<1>5. ShapeInv
  <2>1. yielded \in 0 .. Cap
    BY <1>1, DocCrawlAssumption
  <2>q. QED  BY <1>1, <1>2, <1>3, <2>1 DEF ShapeInv, Listing
<1>6. DocsInv
  BY <1>1 DEF DocsInv
<1>7. AheadInv
  <2>1. \A x : NothingAhead(x)
    BY <1>1, <1>2 DEF NothingAhead
  <2>q. QED  BY <2>1 DEF AheadInv
<1>8. OutInv /\ WayInv
  BY <1>1, <1>2 DEF OutInv, WayInv, Apart
<1>9. LostInv /\ AccountInv /\ OneFailureAborts
  BY <1>1 DEF LostInv, AccountInv, OneFailureAborts
<1>q. QED  BY <1>4, <1>5, <1>6, <1>7, <1>8, <1>9 DEF CrawlInv, ApartInv

\* Waiting keeps it.
LEMMA CrawlWaits == ASSUME CrawlInv, UNCHANGED crawlVars PROVE CrawlInv'
<1>1. /\ Still /\ phase' = phase /\ token' = token /\ faults' = faults /\ lost' = lost
  BY DEF crawlVars, treeVars, Still
<1>2. ShapeInv /\ CrawlTypeOK /\ DocsInv /\ ApartInv /\ LostInv /\ AccountInv /\ OneFailureAborts
  BY DEF CrawlInv
<1>3. Listing' = Listing
  BY <1>1 DEF Listing
<1>4. DocsInv' /\ ApartInv'
  BY <1>1, <1>2, <1>3, StillApart
<1>5. AccountInv'
  BY <1>1, <1>2, <1>3, StillAccounted
<1>6. LostInv'
  <2>1. \A c, k : Ahead(c, k)' => Ahead(c, k)
    BY <1>1, <1>3 DEF Ahead, Still
  <2>q. QED  BY <1>1, <1>2, <2>1 DEF LostInv, Still
<1>7. ShapeInv' /\ CrawlTypeOK'
  BY <1>1, <1>2, <1>3 DEF ShapeInv, CrawlTypeOK, Still, Full
<1>8. OneFailureAborts'
  BY <1>1, <1>2 DEF OneFailureAborts, Still, Named, Indexed
<1>q. QED  BY <1>4, <1>5, <1>6, <1>7, <1>8 DEF CrawlInv

\* Every step keeps it.
LEMMA CrawlKeeps == ASSUME CrawlInv, [CrawlNext]_crawlVars PROVE CrawlInv'
<1>1. CASE List
  BY <1>1, ListPageKeeps, ListChannelKeeps
<1>q. QED
  BY <1>1, BeginKeeps, BeginFailsKeeps, OpenKeeps, ListFailsKeeps, StopKeeps, ReadKeeps,
     ReadFailsKeeps, ReadAbortsKeeps, ExpireKeeps, DeniedKeeps, RefreshKeeps, RefreshFailsKeeps, IndexKeeps,
     CrawlWaits DEF CrawlNext

\* It holds throughout every crawl.
LEMMA CrawlIsSound == CrawlSpec => []CrawlInv
<1>1. CrawlInit => CrawlInv
  BY CrawlStarts
<1>2. CrawlInv /\ [CrawlNext]_crawlVars => CrawlInv'
  BY CrawlKeeps
<1>q. QED  BY <1>1, <1>2, PTL DEF CrawlSpec

\* What is documented and was reached is there.
LEMMA NothingMissing == ASSUME CrawlInv PROVE OnlyFailuresMissing
<1> SUFFICES ASSUME phase \in {"crawled", "stored"}, ~Full
             PROVE  Due(world, lost) \subseteq Covered
  BY DEF OnlyFailuresMissing
<1> DEFINE S == visited \ lost
<1>1. /\ stack = <<>> /\ units = <<>> /\ visited \subseteq DOMAIN world.pages /\ world \in Worlds
  BY DEF CrawlInv, ShapeInv, CrawlTypeOK
<1>2. /\ ToSet(Begins(world)) \subseteq lost \cup visited \cup ToSet(stack)
      /\ \A c \in S : \A k \in DOMAIN world.pages[c] : PageAccounted(c, k)
  BY DEF CrawlInv, AccountInv, Pending, Listing
<1>3. ToSet(stack) = {} /\ DOMAIN units = {}
  BY <1>1 DEF ToSet
<1>4. \A c \in S : \A k \in DOMAIN world.pages[c] :
        /\ \A x \in Offered(world, world.pages[c][k]) : Documented(world, x) => x.id \in lost \cup Covered
        /\ world.recursive => \A x \in ToSet(world.pages[c][k]) : x.what = "dir" =>
             x.to \in lost \cup visited
  BY <1>2, <1>3 DEF PageAccounted
<1>5. Reached(world, lost) \subseteq S
  <2>1. ToSet(Begins(world)) \ lost \subseteq S
    BY <1>2, <1>3
  <2>2. world.recursive => \A c \in S : \A x \in ItemsOf(world, c) :
          x.what = "dir" /\ x.to \notin lost => x.to \in S
    BY <1>4 DEF ItemsOf
  <2>3. S \in SUBSET DOMAIN world.pages
    BY <1>1
  <2> HIDE DEF S
  <2>q. QED  BY <2>1, <2>2, <2>3 DEF Reached
<1> HIDE DEF S
<1>6. ASSUME NEW c \in Reached(world, lost), NEW k \in DOMAIN world.pages[c],
             NEW y \in Offered(world, world.pages[c][k]), y.id \notin lost, Documented(world, y)
      PROVE  y.id \in Covered
  BY <1>4, <1>5, <1>6
<1>q. QED  BY <1>6 DEF Due

\* Documents of their own have names of their own.
LEMMA NamesApart == ASSUME CrawlInv PROVE OwnNames
<1> SUFFICES ASSUME world.kind \in {"folder", "gdrive", "smb", "slack", "telegram"},
                    NEW i \in DOMAIN out, NEW j \in DOMAIN out, i # j, out[i].name = out[j].name
             PROVE  /\ world.kind = "folder"
                    /\ \E x \in Things(world) :
                         x.what = "link" /\ x.id \in out[i].from \cup out[j].from
  BY DEF OwnNames
<1> DEFINE a == out[i]
           b == out[j]
<1>0. SUFFICES world.kind = "folder" /\ (LinkDoc(world, a) \/ LinkDoc(world, b))
  BY DEF LinkDoc
<1>1. ~token.retried /\ Apart(out) /\ DocInv(a) /\ DocInv(b)
  BY DEF CrawlInv, ShapeInv, ApartInv, OutInv, DocsInv
<1>2. a.from \cap b.from = {} /\ a.name = b.name
  BY <1>1 DEF Apart
<1> HIDE DEF a, b
<1>3. a.from # {} /\ b.from # {}
  BY <1>1 DEF DocInv
<1>4. CASE world.kind \in {"folder", "gdrive", "smb"}
  BY <1>1, <1>2, <1>3, <1>4 DEF DocInv, OwnPath
<1>5. CASE world.kind = "telegram"
  BY <1>1, <1>2, <1>3, <1>5 DEF DocInv
<1>6. CASE world.kind = "slack"
  <2> DEFINE M(c, n) == {x.id : x \in {y \in ItemsOf(world, c) :
                                        Said(y) /\ <<c, y.group>> = n /\ y.id \notin lost}}
  <2>1. PICK c : a.from = M(c, a.name)
    BY <1>1, <1>6 DEF DocInv, ThreadOf
  <2>2. PICK d : b.from = M(d, b.name)
    BY <1>1, <1>6 DEF DocInv, ThreadOf
  <2>3. \E g : <<c, g>> = a.name
    BY <1>3, <2>1
  <2>4. \E g : <<d, g>> = b.name
    BY <1>3, <2>2
  <2>5. c = d
    BY <1>2, <2>3, <2>4
  <2>6. a.from = b.from
    <3> HIDE DEF M
    <3>q. QED  BY <1>2, <2>1, <2>2, <2>5
  <2>q. QED  BY <1>2, <1>3, <2>6
<1>q. QED  BY <1>4, <1>5, <1>6

\* What the invariant says of a crawl.
LEMMA CrawlProperties ==
  ASSUME CrawlInv PROVE FailuresContained /\ DocumentsApart /\ CapKept
<1>1. FailuresContained
  BY NothingMissing DEF FailuresContained, CrawlInv
<1>2. NothingTwice
  BY DEF NothingTwice, CrawlInv, ApartInv, OutInv, Apart
<1>3. ThreadsWhole
  BY DEF ThreadsWhole, CrawlInv, DocsInv, DocInv, ThreadOf
<1>4. CapKept
  BY DocCrawlAssumption DEF CapKept, CrawlInv, CrawlTypeOK, ShapeInv
<1>q. QED  BY <1>1, <1>2, <1>3, <1>4, NamesApart DEF DocumentsApart, CrawlInv

\* For every source whose items are in one place each (in a share: one path each), and
\* whatever fails: a crawl that was not cut short by the cap has every document it could
\* reach, except those that failed or lie behind a folder that could not be listed; and
\* a crawl fails only for its beginning, its token, two documents of one name, or an
\* item whose failure nothing catches, of which a Drive, a share or an archive has none
\* and a folder only its links.
THEOREM FailuresStayContained == CrawlSpec => []FailuresContained
<1>1. CrawlInv => FailuresContained
  BY CrawlProperties
<1>q. QED  BY <1>1, CrawlIsSound, PTL

\* For every source whose items are in one place each (in a share: one path each),
\* whatever fails and whatever the token does: the documents of a crawl have no item in
\* common unless a token was replaced in the middle, a thread is one document with all
\* of it that could be read, and the files of a Drive, a share or a folder, threads and
\* days never lose a harvest to a name they share, but for the links of a folder.
THEOREM DocumentsStayApart == CrawlSpec => []DocumentsApart
<1>1. CrawlInv => DocumentsApart
  BY CrawlProperties
<1>q. QED  BY <1>1, CrawlIsSound, PTL

\* For every source and every cap, a crawl that was not begun again hands on no more
\* documents than MAX_DOCS_PER_HARVEST, the attachments of a message counted one by one.
THEOREM CapIsKept == CrawlSpec => []CapKept
<1>1. CrawlInv => CapKept
  BY CrawlProperties
<1>q. QED  BY <1>1, CrawlIsSound, PTL
=============================================================================
