----------------------------- MODULE MCDocCrawl -----------------------------
EXTENDS DocCrawl

\* An item, and the ways it can differ.
It(id, what) == [id |-> id, what |-> what, name |-> id, typed |-> TRUE, fits |-> TRUE,
                 found |-> TRUE, text |-> TRUE, to |-> None, group |-> 0, files |-> <<>>]
Dir(id, to) == [It(id, "dir") EXCEPT !.to = to]
Link(id, to) == [It(id, "link") EXCEPT !.to = to]
Says(id, group) == [It(id, "message") EXCEPT !.group = group]
File(id, ok) == [id |-> id, name |-> id, fits |-> ok, text |-> TRUE]

\* A source with a root, two folders, a page that follows another, and a folder that
\* contains the root.
Tree(a, b) ==
  [c \in {Root, "sub", "deep"} |->
     CASE c = Root  -> <<<<a, Dir("s", "sub")>>, <<It("f1", "file"), Dir("d", "deep")>>>>
       [] c = "sub" -> <<<<b, Dir("d", "deep")>>>>
       [] OTHER     -> <<<<Dir("r", Root), It("f2", "file")>>>>]
\* Without a way back.
Branches(a, b) ==
  [c \in {Root, "sub", "deep"} |->
     CASE c = Root  -> <<<<a, Dir("s", "sub"), It("f1", "file")>>>>
       [] c = "sub" -> <<<<b, Dir("d", "deep")>>>>
       [] OTHER     -> <<<<It("f2", "file")>>>>]
Flat(items) == [c \in {Root} |-> <<items>>]

World(kind, pages) ==
  [kind |-> kind, pages |-> pages, recursive |-> TRUE, filtered |-> FALSE, prefix |-> FALSE,
   limit |-> 3, channels |-> {"c1", "c2"}, refreshable |-> TRUE]

Variants(x) == {x, [x EXCEPT !.typed = FALSE], [x EXCEPT !.text = FALSE],
                [x EXCEPT !.name = "f1"], [x EXCEPT !.fits = FALSE, !.found = FALSE]}
Folders ==
  {World("folder", Branches(a, b)) : a \in {Link("l", "f1"), Link("l", "x"), It("o", "outside")},
                                     b \in Variants(It("g", "file"))}
Drives ==
  {[World(k, Tree(a, b)) EXCEPT !.recursive = r, !.filtered = f, !.refreshable = f \/ r] :
     k \in {"gdrive", "onedrive"}, r \in BOOLEAN, f \in BOOLEAN,
     a \in {It("n", "native"), It("p", "package")}, b \in Variants(It("g", "file"))}
\* A share whose folder has a link to its file and one back to the root: three paths
\* deep the server refuses the next.
Paths(b) ==
  [c \in {Root, "sub", "sub/back", "sub/back/sub"} |->
     CASE c = Root       -> <<<<It("n", "file"), Dir("s", "sub")>>>>
       [] c = "sub"      -> <<<<b, Link("l", "n"), Dir("sb", "sub/back")>>>>
       [] c = "sub/back" -> <<<<It("sb/n", "file"), Dir("sb/s", "sub/back/sub")>>>>
       [] OTHER          -> <<<<It("sbs/g", "file"), Link("sbs/l", "n")>>>>]
Shares ==
  {[World("smb", pages) EXCEPT !.recursive = r] :
     r \in BOOLEAN, pages \in {Branches(It("n", "file"), b) : b \in Variants(It("g", "file"))}
                             \cup {Paths(b) : b \in Variants(It("g", "file"))}}
Lists == {World("url_list", Flat(<<a, It("u", "http"), b>>)) :
            a \in {It("v", "http")}, b \in Variants(It("w", "http"))}
Columns ==
  {[World("db_column", Flat(<<It("p", "absolute"), a, b, It("z", "http")>>)) EXCEPT !.prefix = p] :
     p \in BOOLEAN, a \in {It("q", "relative"), It("q", "blank")}, b \in Variants(It("w", "http"))}
Mail(id, files) == [It(id, "mail") EXCEPT !.files = files]
Boxes ==
  {[World("imap", Flat(<<Mail("m1", <<>>), a, b, Mail("m4", <<>>)>>)) EXCEPT !.limit = n] :
     n \in {2, 3}, a \in Variants(Mail("m2", <<File("a1", TRUE), File("a2", FALSE)>>)),
     b \in Variants(Mail("m3", <<File("a3", TRUE), File("a4", TRUE)>>))}
Channels(a, b) ==
  [c \in {"c1", "c2"} |->
     IF c = "c1" THEN <<<<Says("t1", 1), a>>, <<Says("t3", 1), It("join", "noise")>>>>
     ELSE <<<<b>>, <<Says("t5", 2)>>>>]
Slacks ==
  {[World("slack", Channels(a, b)) EXCEPT !.channels = cs] :
     a \in {Says("t2", 1), Says("t2", 2), Says("t2", 0)}, b \in {Says("t4", 1), Says("t4", 2)},
     cs \in {{"c1"}, {"c1", "c2"}}}
Chats ==
  {World("telegram", Flat(<<a, b, Says("t3", 2), It("pin", "service")>>)) :
     a \in Variants(Says("t1", 1)), b \in {Says("t2", 1), [Says("t2", 3) EXCEPT !.text = FALSE]}}

MCWorlds == Folders \cup Drives \cup Shares \cup Lists \cup Columns \cup Boxes \cup Slacks \cup Chats
=============================================================================
