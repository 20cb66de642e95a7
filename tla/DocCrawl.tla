------------------------------ MODULE DocCrawl ------------------------------
(***************************************************************************)
(* One crawl of a document source (services/doc_harvest.py), as the        *)
(* harvest task drives it (workers/harvest_task.py): from the first        *)
(* listing to the documents that reach the index.                          *)
(*                                                                         *)
(* A world is what a source holds: containers (folders, channels, a        *)
(* mailbox, a list), each a sequence of pages, each a sequence of items.   *)
(* The nine strategies share their control: a stack of containers, the     *)
(* pages of one container, the items of one page, a cap on what is         *)
(* yielded; they differ in what they take, how they name it, and what a    *)
(* failure ends.  The order in which the containers are stacked is not     *)
(* modelled, every one of them takes the last one first.                   *)
(***************************************************************************)
EXTENDS Naturals, FiniteSets, SequencesExt, Subsequences

CONSTANTS Worlds,    \* what a source may hold
          Cap,       \* MAX_DOCS_PER_HARVEST
          MaxFaults  \* bound: requests that fail in one crawl

ASSUME DocCrawlAssumption == Cap \in Nat \ {0} /\ MaxFaults \in Nat

VARIABLES world,   \* the source, and what it holds
          phase,   \* where the crawl is
          stack,   \* containers to visit
          visited, \* containers that were visited
          page,    \* [here, next]: the container and its next page
          units,   \* what is left of the page that was listed
          yielded, \* the generator's counter
          out,     \* what the generators have yielded
          token,   \* the access token of a drive and the one its source stores
          faults,  \* failures so far
          lost     \* what failed: items and containers

treeVars == <<stack, visited, page, units>>
crawlVars == <<world, phase, treeVars, yielded, out, token, faults, lost>>

None == "none"
Root == "root"
Kinds == {"folder", "url_list", "db_column", "gdrive", "onedrive", "smb",
          "imap", "slack", "telegram"}
CrawlStages == {"start", "open", "list", "read", "denied", "crawled", "stored", "failed"}
Over == phase \in {"stored", "failed"}

PagesOf(w, c) == w.pages[c]
ItemsOf(w, c) == UNION {ToSet(w.pages[c][k]) : k \in DOMAIN w.pages[c]}
Doc(name, from, text) == [name |-> name, from |-> from, text |-> text]

-----------------------------------------------------------------------------
(* What each strategy takes of an item, and what it calls it *)

\* The extensions the source names; the drives take every file when it names none.
HasExtension(w, x) == x.typed \/ (w.kind \in {"gdrive", "onedrive"} /\ ~w.filtered)

\* walk_folder: a link is followed when its target lies under the root.
FolderTakes(w, x) == x.what \in {"file", "link"} /\ HasExtension(w, x) /\ x.fits

\* fetch_urls: a status below 400 and a body that fits.
UrlTakes(w, x) == x.what = "http" /\ x.found /\ x.fits

\* harvest_db_column: a value is an address, a path below url_prefix, or an
\* absolute path; any other value is dropped.
RowTarget(w, x) ==
  IF x.what = "http" \/ (x.what # "blank" /\ w.prefix) THEN "url"
  ELSE IF x.what = "absolute" THEN "path" ELSE None
RowTakes(w, x) == RowTarget(w, x) # None /\ x.found /\ x.fits

\* harvest_gdrive: a native document is exported, so its name says nothing.
GdriveTakes(w, x) ==
  \/ x.what = "native" /\ x.fits
  \/ x.what = "file" /\ HasExtension(w, x) /\ x.fits

\* harvest_onedrive: an item that is neither a file nor a folder is skipped, and so
\* is a file without a download address.
OneDriveTakes(w, x) == x.what = "file" /\ HasExtension(w, x) /\ x.fits /\ x.found

\* harvest_smb: the stat of a share follows a link, which is taken for what it leads to.
ShareTakes(w, x) == x.what \in {"file", "link"} /\ HasExtension(w, x) /\ x.fits

\* walk_folder names a file by its path, and a link by the path of its target; a share
\* names both by the path they were met at, the Drive by an id, the others by a name
\* that several files can have.
FolderName(x) == IF x.what = "link" THEN x.to ELSE x.id
UrlName(x) == x.name
GdriveName(x) == x.id
OneDriveName(x) == x.name
ShareName(x) == x.id

Single(take, name, x) ==
  IF take THEN <<Doc(name, {x.id}, x.text)>> ELSE <<>>

\* _fetch_one: the message, and each attachment that has a name and content.
MailDocs(x) ==
  (IF x.fits THEN <<Doc(x.name, {x.id}, TRUE)>> ELSE <<>>)
    \o LET fs == InOrder(x.files, {i \in DOMAIN x.files : x.files[i].fits})
       IN [i \in DOMAIN fs |-> Doc(fs[i].name, {fs[i].id}, fs[i].text)]

DocsOf(w, x) ==
  CASE w.kind = "folder"    -> Single(FolderTakes(w, x), FolderName(x), x)
    [] w.kind = "url_list"  -> Single(UrlTakes(w, x), UrlName(x), x)
    [] w.kind = "db_column" -> Single(RowTakes(w, x), UrlName(x), x)
    [] w.kind = "gdrive"    -> Single(GdriveTakes(w, x), GdriveName(x), x)
    [] w.kind = "onedrive"  -> Single(OneDriveTakes(w, x), OneDriveName(x), x)
    [] w.kind = "smb"       -> Single(ShareTakes(w, x), ShareName(x), x)
    [] w.kind = "imap"      -> MailDocs(x)

-----------------------------------------------------------------------------
(* Archives: a document is a thread of a channel, or a day of a chat *)

\* _group_slack_threads drops what only says that someone joined or left, and what
\* has no time; harvest_telegram_export what is no message, and what has no date.
Said(x) == x.what = "message" /\ x.group # 0
InGroup(items, g) == {x \in ToSet(items) : Said(x) /\ x.group = g}
Firsts(items) ==
  {i \in DOMAIN items :
     Said(items[i]) /\ \A j \in 1 .. (i - 1) : items[j] \notin InGroup(items, items[i].group)}

\* A thread is one document, whichever day its messages are of.
ThreadDocs(w, c, items) ==
  LET firsts == InOrder(items, Firsts(items))
  IN [i \in DOMAIN firsts |->
        LET g == firsts[i].group IN Doc(<<c, g>>, {x.id : x \in InGroup(items, g)}, TRUE)]

\* A day on which nobody wrote a word is no document.
Days(items) == {x.group : x \in {y \in ToSet(items) : Said(y) /\ y.text}}
DayDocs(w, items) ==
  LET days == Ascending(Days(items))
  IN [i \in DOMAIN days |-> Doc(days[i], {x.id : x \in InGroup(items, days[i])}, TRUE)]

Unit(id, into, docs) == [id |-> id, into |-> into, docs |-> docs]
ItemUnits(w, items) ==
  [i \in DOMAIN items |->
     LET x == items[i]
     IN IF x.what = "dir" THEN Unit(x.id, x.to, <<>>) ELSE Unit(x.id, None, DocsOf(w, x))]
DocUnits(docs) == [i \in DOMAIN docs |-> Unit(docs[i].name, None, <<docs[i]>>)]

\* _list_uids: the newest max_messages of those since the cutoff.
NewestMails(w, items) ==
  LET found == {i \in DOMAIN items : items[i].found}
  IN InOrder(items, {i \in found : Cardinality({j \in found : i < j}) < w.limit})
\* The addresses of a column are fetched before its paths.
RowsFor(w, items, target) ==
  InOrder(items, {i \in DOMAIN items : i <= w.limit /\ RowTarget(w, items[i]) = target})
RowsInOrder(w, items) == RowsFor(w, items, "url") \o RowsFor(w, items, "path")

Units(w, c, items) ==
  CASE w.kind = "slack"     -> DocUnits(ThreadDocs(w, c, items))
    [] w.kind = "telegram"  -> DocUnits(DayDocs(w, items))
    [] w.kind = "imap"      -> ItemUnits(w, NewestMails(w, items))
    [] w.kind = "db_column" -> ItemUnits(w, RowsInOrder(w, items))
    [] OTHER                -> ItemUnits(w, items)

-----------------------------------------------------------------------------
(* What a source may hold *)

Things(w) == UNION {ItemsOf(w, c) : c \in DOMAIN w.pages}
Places(w) ==
  UNION {UNION {{<<c, k, i>> : i \in DOMAIN w.pages[c][k]} : k \in DOMAIN w.pages[c]} :
         c \in DOMAIN w.pages}
ItemAt(w, p) == w.pages[p[1]][p[2]][p[3]]
\* What can become documents: an item, and what is attached to it.
IdsOf(x) ==
  IF x.what = "dir" THEN {} ELSE {x.id} \cup {x.files[i].id : i \in DOMAIN x.files}

\* Items and containers as the sources define them.  Only files and drives have
\* containers in containers.
Typed(w) ==
  /\ w.kind \in Kinds /\ w.limit \in Nat
  /\ IsFiniteSet(DOMAIN w.pages) /\ None \notin DOMAIN w.pages
  /\ w.kind # "slack" => Root \in DOMAIN w.pages
  /\ \A c \in DOMAIN w.pages : w.pages[c] \in Seq(Seq(Things(w))) /\ w.pages[c] # <<>>
  /\ \A x \in Things(w) :
       /\ x.files \in Seq(ToSet(x.files)) /\ x.group \in Nat
       /\ x.what = "dir" => w.kind \in {"folder", "gdrive", "onedrive", "smb"}
                            /\ x.to \in DOMAIN w.pages

\* An item is in one place, and what is attached to it is attached to it alone; what
\* links of a share lead to is an item at each of its paths.
PlacedOnce(w) ==
  /\ \A p, q \in Places(w) : p # q => IdsOf(ItemAt(w, p)) \cap IdsOf(ItemAt(w, q)) = {}
  /\ \A x \in Things(w) : \A i, j \in DOMAIN x.files :
       x.files[i].id # x.id /\ (x.files[i].id = x.files[j].id => i = j)

\* os.walk goes down no link, so the folders of a disk are a tree.  A share is walked by
\* path: a folder that links lead to is a container at each of its paths, every path
\* has one parent, and a link back unfolds into ever longer paths until the server
\* refuses one.  The folders of a drive can be in several folders, and in one another.
OneWay(w) ==
  w.kind \notin {"gdrive", "onedrive"} =>
    \A p, q \in Places(w) :
      ItemAt(w, p).what = "dir" =>
        /\ ItemAt(w, p).to # Root
        /\ ItemAt(w, q).what = "dir" /\ ItemAt(w, p).to = ItemAt(w, q).to => p = q

\* An export of a chat is one file, read at once.
OneExport(w) == w.kind = "telegram" => Len(w.pages[Root]) = 1

ASSUME CrawlWorldsAssumption ==
  \A w \in Worlds : Typed(w) /\ PlacedOnce(w) /\ OneWay(w) /\ OneExport(w)

-----------------------------------------------------------------------------
(* The crawl *)

CrawlInit ==
  /\ world \in Worlds
  /\ phase = "start"
  /\ stack = <<>> /\ visited = {} /\ units = <<>>
  /\ page = [here |-> Root, next |-> 1]
  /\ yielded = 0 /\ out = <<>>
  /\ token \in [alive : {TRUE}, expiring : BOOLEAN, retried : {FALSE},
                gen : {0}, stored : {0}]
  /\ faults = 0 /\ lost = {}

Fails(what) ==
  /\ faults < MaxFaults
  /\ faults' = faults + 1
  /\ lost' = lost \cup what
NoFault == UNCHANGED <<faults, lost>>
Full == yielded >= Cap

\* The containers a strategy begins with: an archive has one for each channel that
\* only_channels lets through, the others a root.
Begins(w) ==
  IF w.kind = "slack" THEN SetToSeq(DOMAIN w.pages \cap w.channels) ELSE <<Root>>
FromTheStart ==
  /\ stack' = Begins(world)
  /\ visited' = {}
  /\ units' = <<>>
  /\ yielded' = 0
  /\ UNCHANGED page

\* A token about to expire is refreshed and stored first; a failure of either is
\* only logged, and a token that cannot be stored is used all the same.
EarlyRefresh ==
  IF world.kind = "onedrive" /\ token.expiring /\ world.refreshable
  THEN \/ NoFault /\ token' = [token EXCEPT !.expiring = FALSE, !.gen = 1, !.stored = 1]
       \/ Fails({}) /\ token' = [token EXCEPT !.expiring = FALSE, !.gen = 1]
       \/ Fails({}) /\ UNCHANGED token
  ELSE NoFault /\ UNCHANGED token

Begin ==
  /\ phase = "start"
  /\ phase' = "open"
  /\ FromTheStart
  /\ EarlyRefresh
  /\ UNCHANGED <<world, out>>

\* The folder is gone (or cannot be listed, where its subfolders are not asked for),
\* the connection or its query fails, the key, the session or the archive is refused:
\* the harvest fails.  A mailbox that cannot be listed is taken for an empty one.
BeginFails ==
  /\ phase = "start"
  /\ world.kind \notin {"url_list", "onedrive"}
  /\ Fails({Root})
  /\ phase' = IF world.kind = "imap" THEN "crawled" ELSE "failed"
  /\ UNCHANGED <<world, treeVars, yielded, out, token>>

\* Mutant: no container is remembered.
NeverRevisited(c) == c # c
\* The drives keep the containers they have visited; a folder of a share is
\* visited each time it is met.
Revisited(c) == world.kind \in {"gdrive", "onedrive"} /\ c \in visited

Open ==
  /\ phase = "open"
  /\ IF stack = <<>> \/ Full
     THEN phase' = "crawled" /\ UNCHANGED treeVars
     ELSE LET c == Last(stack) IN
          /\ stack' = Front(stack)
          /\ UNCHANGED units
          /\ IF Revisited(c)
             THEN UNCHANGED <<phase, visited, page>>
             ELSE /\ phase' = "list"
                  /\ visited' = visited \cup {c}
                  /\ page' = [here |-> c, next |-> 1]
  /\ UNCHANGED <<world, yielded, out, token>> /\ NoFault

\* After a page: its items, the next page, or the next container.
Onward(left, next) ==
  /\ units' = left
  /\ page' = [page EXCEPT !.next = next]
  /\ phase' = IF left # <<>> THEN "read"
              ELSE IF next <= Len(PagesOf(world, page.here)) THEN "list" ELSE "open"

\* The days of a channel are read together; each of them may be unreadable.
ReadsAll == world.kind = "slack"
ListChannel ==
  LET days == PagesOf(world, page.here)
  IN \E bad \in SUBSET (DOMAIN days) :
       /\ IF bad = {} THEN NoFault
          ELSE /\ faults + Cardinality(bad) <= MaxFaults
               /\ faults' = faults + Cardinality(bad)
               /\ lost' = lost \cup {x.id : x \in UNION {ToSet(days[i]) : i \in bad}}
       /\ Onward(Units(world, page.here,
                       FlattenSeq([i \in DOMAIN days |-> IF i \in bad THEN <<>> ELSE days[i]])),
                 Len(days) + 1)

\* Mutant: the token of the next page is not kept.
ListPageAgain ==
  /\ Onward(Units(world, page.here, PagesOf(world, page.here)[page.next]), page.next)
  /\ NoFault
ListPage ==
  /\ Onward(Units(world, page.here, PagesOf(world, page.here)[page.next]), page.next + 1)
  /\ NoFault

List ==
  /\ phase = "list"
  /\ token.alive
  /\ ~Full
  /\ IF ReadsAll THEN ListChannel ELSE ListPage
  /\ UNCHANGED <<world, stack, visited, yielded, out, token>>

\* Mutant: a folder that cannot be listed ends the crawl.
ListFailsAll ==
  /\ phase = "list"
  /\ world.kind \in {"folder", "gdrive", "onedrive", "smb"}
  /\ Fails({page.here})
  /\ phase' = "crawled"
  /\ UNCHANGED <<world, treeVars, yielded, out, token>>

\* A folder that cannot be listed, or its next page, is left for the next one.
ListFails ==
  /\ phase = "list"
  /\ world.kind \in {"folder", "gdrive", "onedrive", "smb"}
  /\ world.kind = "folder" => world.recursive
  /\ Fails({page.here})
  /\ phase' = "open"
  /\ UNCHANGED <<world, treeVars, yielded, out, token>>

Stop ==
  /\ phase \in {"list", "read"}
  /\ Full
  /\ phase' = "crawled"
  /\ UNCHANGED <<world, treeVars, yielded, out, token>> /\ NoFault

\* Mutant: the cap is not looked at between the attachments of a message.
YieldedAll(docs) == docs
\* A message and its attachments count one by one.
Yielded(docs) == SubSeq(docs, 1, Min({Len(docs), Cap - yielded}))

Read ==
  /\ phase = "read"
  /\ ~Full
  /\ LET u == Head(units) IN
     /\ stack' = IF u.into # None /\ world.recursive THEN Append(stack, u.into) ELSE stack
     /\ out' = out \o Yielded(u.docs)
     /\ yielded' = yielded + Len(Yielded(u.docs))
     /\ Onward(Tail(units), page.next)
  /\ UNCHANGED <<world, visited, token>> /\ NoFault

\* A download, a read, a stat or the login for one message fails in a way that is
\* caught: the item is skipped.
ReadFails ==
  /\ phase = "read"
  /\ ~Full
  /\ world.kind \notin {"slack", "telegram"}
  /\ LET u == Head(units) IN
     /\ u.docs # <<>>
     /\ Fails(UNION {u.docs[i].from : i \in DOMAIN u.docs})
     /\ Onward(Tail(units), page.next)
  /\ UNCHANGED <<world, stack, visited, yielded, out, token>>

\* The items that can fail in a way their strategy does not catch: a link that leads to
\* itself (resolve raises RuntimeError), an address that is none (InvalidURL is no
\* HTTPError), a path of a row that cannot be read (no handler at all), an answer of
\* Graph that does not parse, a message that cannot be fetched or decoded.
Escapes(w, x) ==
  \/ w.kind = "folder" /\ x.what = "link"
  \/ w.kind \in {"url_list", "db_column", "onedrive", "imap"}

\* Such a failure ends the generator, and the harvest with it.
ReadAborts ==
  /\ phase = "read"
  /\ ~Full
  /\ LET from == UNION {Head(units).docs[i].from : i \in DOMAIN Head(units).docs} IN
     /\ \E x \in ItemsOf(world, page.here) : Escapes(world, x) /\ IdsOf(x) \cap from # {}
     /\ Fails(from)
  /\ phase' = "failed"
  /\ UNCHANGED <<world, treeVars, yielded, out, token>>

-----------------------------------------------------------------------------
(* The token of a drive *)

Expire ==
  /\ world.kind = "onedrive"
  /\ phase \in {"open", "list", "read"}
  /\ token.alive
  /\ Fails({})
  /\ token' = [token EXCEPT !.alive = FALSE]
  /\ UNCHANGED <<world, phase, treeVars, yielded, out>>

\* Graph answers 401: only a listing carries the token.
Denied ==
  /\ phase = "list"
  /\ ~token.alive
  /\ ~Full
  /\ phase' = "denied"
  /\ UNCHANGED <<world, treeVars, yielded, out, token>> /\ NoFault

\* _onedrive_with_refresh refreshes once, stores the token, and streams the drive
\* from its root; what has been yielded stays yielded.
Refresh ==
  /\ phase = "denied"
  /\ world.refreshable /\ ~token.retried
  /\ token' = [alive |-> TRUE, expiring |-> FALSE, retried |-> TRUE,
               gen |-> token.gen + 1, stored |-> token.gen + 1]
  /\ phase' = "open"
  /\ FromTheStart
  /\ UNCHANGED <<world, out>> /\ NoFault

\* There is nothing to refresh with, it was done before, or it fails.
RefreshFails ==
  /\ phase = "denied"
  /\ \/ (~world.refreshable \/ token.retried) /\ NoFault
     \/ Fails({})
  /\ phase' = "failed"
  /\ UNCHANGED <<world, treeVars, yielded, out, token>>

-----------------------------------------------------------------------------
(* What the index makes of it *)

\* _extracted drops what it cannot read.
Indexed == InOrder(out, {i \in DOMAIN out : out[i].text})
Named(docs) == {docs[i].name : i \in DOMAIN docs}

\* reindex_harvested_source: the name is the key of the first chunk of a document,
\* and one key twice fails the transaction.
Index ==
  /\ phase = "crawled"
  /\ phase' = IF Cardinality(Named(Indexed)) = Len(Indexed) THEN "stored" ELSE "failed"
  /\ UNCHANGED <<world, treeVars, yielded, out, token>> /\ NoFault

CrawlNext ==
  \/ Begin \/ BeginFails
  \/ Open \/ List \/ ListFails \/ Stop
  \/ Read \/ ReadFails \/ ReadAborts
  \/ Expire \/ Denied \/ Refresh \/ RefreshFails
  \/ Index

CrawlSpec == CrawlInit /\ [][CrawlNext]_crawlVars

\* The task goes on while it lives; nothing makes a request fail.
FairCrawl == CrawlSpec /\ WF_crawlVars(CrawlNext)

-----------------------------------------------------------------------------
(* Properties *)

\* The type invariant; the generator counts what it has yielded since it began.
CrawlTypeOK ==
  /\ world \in Worlds
  /\ phase \in CrawlStages
  /\ ToSet(stack) \cup visited \cup {page.here} \subseteq DOMAIN world.pages \cup {Root}
  /\ page.next \in Nat
  /\ yielded <= Len(out) /\ (~token.retried => yielded = Len(out))
  /\ token \in [alive : BOOLEAN, expiring : BOOLEAN, retried : BOOLEAN,
                gen : 0 .. 2, stored : 0 .. 2]
  /\ token.stored <= token.gen
  /\ faults \in 0 .. MaxFaults

\* The containers that can be reached without those that failed.
Reached(w, missing) ==
  LET Closed(S) ==
        /\ ToSet(Begins(w)) \ missing \subseteq S
        /\ w.recursive => \A c \in S : \A x \in ItemsOf(w, c) :
                            x.what = "dir" /\ x.to \notin missing => x.to \in S
  IN {c \in DOMAIN w.pages : \A S \in SUBSET DOMAIN w.pages : Closed(S) => c \in S}

\* The items a page of this kind offers, within the source's own limit.
Offered(w, items) ==
  CASE w.kind = "imap"      -> ToSet(NewestMails(w, items))
    [] w.kind = "db_column" -> {items[i] : i \in {j \in DOMAIN items : j <= w.limit}}
    [] OTHER                -> ToSet(items)
\* An item of which there is a document.
Documented(w, x) ==
  IF w.kind \in {"slack", "telegram"} THEN Said(x) /\ x.text
  ELSE DocsOf(w, x) # <<>> /\ x.fits
Due(w, missing) ==
  UNION {{x.id : x \in {y \in UNION {Offered(w, w.pages[c][k]) : k \in DOMAIN w.pages[c]} :
                          y.id \notin missing /\ Documented(w, y)}} :
         c \in Reached(w, missing)}
Covered == UNION {out[i].from : i \in DOMAIN out}

\* The strategies log and skip what fails (doc_harvest.py:13, 28): a crawl that was
\* not cut short by the cap has every document it could reach, except those that
\* failed themselves or lie behind a folder that could not be listed.
OnlyFailuresMissing ==
  phase \in {"crawled", "stored"} /\ ~Full => Due(world, lost) \subseteq Covered

\* A crawl fails for its beginning, its token, two documents of one name, or one item
\* that can fail in a way nothing catches.  So no folder that cannot be listed ends a
\* crawl, and in a Drive, a share or an archive no file or message does.
OneFailureAborts ==
  phase = "failed" =>
    \/ Root \in lost
    \/ ~token.alive
    \/ Cardinality(Named(Indexed)) < Len(Indexed)
    \/ \E x \in Things(world) : Escapes(world, x) /\ IdsOf(x) \cap lost # {}

\* A failure that the strategies catch costs a crawl the documents behind it, and no
\* others.
FailuresContained == OnlyFailuresMissing /\ OneFailureAborts

\* No item is harvested twice, however the folders refer to one another: only a
\* drive whose token had to be replaced is read again.  A link of a folder, and a path
\* of a share that leads to a file seen before, are items of their own.
NothingTwice ==
  ~token.retried =>
    \A i, j \in DOMAIN out : i # j => out[i].from \cap out[j].from = {}

\* A thread of a channel is one document (doc_harvest.py:1343-1348), over all the
\* days it goes on.
ThreadsWhole ==
  world.kind = "slack" =>
    \A i \in DOMAIN out : \E c \in DOMAIN world.pages :
      out[i].from = {x.id : x \in {y \in ItemsOf(world, c) :
                                     /\ Said(y) /\ <<c, y.group>> = out[i].name
                                     /\ y.id \notin lost}}

\* The sources whose documents have names of their own never lose a harvest to two
\* documents of one name; a folder loses one only to a link, whose document has the
\* name of its target's (doc_harvest.py:126-127).
OwnNames ==
  \A i, j \in DOMAIN out : i # j /\ out[i].name = out[j].name =>
    /\ world.kind \notin {"gdrive", "smb", "slack", "telegram"}
    /\ world.kind = "folder" =>
         \E x \in Things(world) : x.what = "link" /\ x.id \in out[i].from \cup out[j].from

\* Documents and items correspond: none twice, none in two pieces, none under the
\* name of another.
DocumentsApart == CrawlTypeOK /\ NothingTwice /\ ThreadsWhole /\ OwnNames

\* MAX_DOCS_PER_HARVEST bounds every crawl that reads its source once.
CapKept == ~token.retried => Len(out) <= Cap

\* Every crawl ends, also in a Drive whose folders contain one another, and in a share
\* with a link back, whose paths a server ends.  The servers are taken to answer: the
\* client of a mailbox has no timeout (doc_harvest.py:1172-1175).
CrawlEnds == <>Over

-----------------------------------------------------------------------------
(* What the repository says and the code does not do *)

\* harvest_task.py:297-299 says that a 401 in the middle of a crawl is caught, the
\* token refreshed once, and the crawl retried.  The retry yields what the first
\* stream has yielded again, and the harvest fails for its names.
RefreshRecovers ==
  token.retried /\ phase = "failed" /\ faults = 1 =>
    \E c, d \in DOMAIN world.pages :
      \E x \in ItemsOf(world, c), y \in ItemsOf(world, d) :
        x.name = y.name /\ x.id # y.id

\* doc_harvest.py:1195-1196 says that the fetch of a message gives an empty list on
\* error.  Only the failure of its connection or login does; any other ends the crawl.
MessagesFailAlone ==
  world.kind = "imap" /\ phase = "failed" =>
    Cardinality(Named(Indexed)) < Len(Indexed)

\* doc_harvest.py:72-73 says that links under the root are followed.  A link beside its
\* target is harvested under the name of the target, and the harvest fails for it.
LinksAreFollowed ==
  world.kind = "folder" /\ faults = 0 => phase # "failed"
=============================================================================
