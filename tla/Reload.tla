------------------------------- MODULE Reload -------------------------------
(***************************************************************************)
(* `articlerctl reload-articles`: one transaction that reads the articles  *)
(* of an account, fetches the page of each over the network (module        *)
(* Scraper) and writes it back, beside the requests of a running server    *)
(* and other runs of the same command.  The transaction is deferred: it is *)
(* a reader until its first UPDATE, and from there it holds the write lock *)
(* while it fetches the remaining pages.                                   *)
(***************************************************************************)
EXTENDS Scraper

CONSTANTS
    Articles,       \* ids; AUTOINCREMENT gives each once
    Users,
    Requests,       \* writing requests the server handles at the same time
    Reloads,        \* runs of the command line
    Gone,           \* a deleted row
    Webs            \* bound: what the addresses of the articles lead to

ASSUME DistinctAssumption ==
    /\ Requests \cap Reloads = {}
    /\ None \notin Requests \cup Reloads \cup Users \cup Articles
    /\ None # Gone

ASSUME WebsAssumption == \A w \in Webs : \A a \in Articles : IsPage(w[a])

VARIABLES
    web,        \* the page behind the address of each article
    rows,       \* the committed articles
    draft,      \* the articles as the reload that holds the lock has made them
    lock,       \* the reload that holds the write lock
    stale,      \* those whose open snapshot is out of date
    pc,         \* the step each is at
    job,        \* the write a request asks for; the account of a reload
    todo,       \* the articles a reload has still to fetch
    page,       \* the article a reload has fetched last, and what it got
    found       \* history: the articles a reload's SELECT saw

vars == <<web, rows, draft, lock, stale, pc, job, todo, page, found>>

\* What can become of an article: its document, or the one that stands for a
\* page that could not be had.
Texts == UNION {{ExtractOrFallback(w[a], fault) : a \in Articles, fault \in Faults} : w \in Webs}

Row == [owner : Users, text : Texts, marked : BOOLEAN]

ASSUME RowsAssumption == None \notin Texts /\ Row \cap {None, Gone} = {}

\* "direct" writes with its first statement; "after_read" looks the article
\* up first in its transaction (post_entry_tags, delete_tag_from_entry,
\* delete_entry of the full object).  A mark stands for what users change.
Jobs == [ask : {"add"}, how : {"direct"}, article : Articles, row : Row]
        \cup [ask : {"mark", "delete"}, how : {"direct", "after_read"}, article : Articles]

Live(table, a) == table[a] \notin {None, Gone}

\* Whose snapshot a commit leaves behind.
Readers == {p \in Requests \cup Reloads : pc[p] \in {"upgrade", "scrape", "update"} /\ lock # p}

TypeOK ==
    /\ web \in Webs
    /\ rows \in [Articles -> Row \cup {None, Gone}]
    /\ draft \in [Articles -> Row \cup {None, Gone}] \cup {None}
    /\ lock \in Reloads \cup {None}
    /\ stale \subseteq Requests \cup Reloads
    /\ pc \in [Requests \cup Reloads -> {"idle", "find", "upgrade", "write", "read", "scrape", "update"}]
    /\ job \in [Requests \cup Reloads -> Jobs \cup Users \cup {None}]
    /\ todo \in [Reloads -> SUBSET Articles]
    /\ page \in [Reloads -> (Articles \X Texts) \cup {None}]
    /\ found \in [Reloads -> [Articles -> Row \cup {None, Gone}] \cup {None}]

-----------------------------------------------------------------------------
(* Requests of the server.  What happens inside one is EntryStore's matter; *)
(* here each commits in one step.                                           *)

Goto(p, step) == pc' = [pc EXCEPT ![p] = step]

\* A request is over: its answer or its failure changes nothing here.
EndRequest(q) ==
    /\ Goto(q, "idle")
    /\ job' = [job EXCEPT ![q] = None]
    /\ UNCHANGED <<web, draft, lock, todo, page, found>>

\* What becomes of an article that is added.
Added(a) == {ExtractOrFallback(web[a], fault) : fault \in Faults}

\* What a request writes: an article is added once, and marked or deleted
\* while it is there.
Written(table, j) ==
    CASE j.ask = "add" /\ table[j.article] = None -> j.row
      [] j.ask = "mark" /\ Live(table, j.article) -> [table[j.article] EXCEPT !.marked = TRUE]
      [] j.ask = "delete" /\ Live(table, j.article) -> Gone
      [] OTHER -> table[j.article]

\* What can be asked for article a.
Asked(a) ==
    IF Live(rows, a)
    THEN {[ask |-> ask, how |-> how, article |-> a] :
            ask \in {"mark", "delete"}, how \in {"direct", "after_read"}}
    ELSE IF rows[a] = None
    THEN {[ask |-> "add", how |-> "direct", article |-> a, row |-> row] :
            row \in [owner : Users, marked : {FALSE}, text : Added(a)]}
    ELSE {}

Start(q, j) ==
    /\ pc[q] = "idle"
    /\ Goto(q, IF j.how = "direct" THEN "write" ELSE "find")
    /\ job' = [job EXCEPT ![q] = j]
    /\ UNCHANGED <<web, rows, draft, lock, stale, todo, page, found>>

Find(q) ==
    /\ pc[q] = "find"
    /\ Goto(q, "upgrade")
    /\ UNCHANGED <<web, rows, draft, lock, stale, job, todo, page, found>>

\* The write and its commit; a row that is gone by then is not touched.
Write(q) ==
    /\ pc[q] \in {"write", "upgrade"}
    /\ lock = None
    /\ q \notin stale
    /\ rows' = [rows EXCEPT ![job[q].article] = Written(rows, job[q])]
    /\ stale' = (IF rows' = rows THEN stale ELSE stale \cup Readers) \ {q}
    /\ EndRequest(q)

\* The busy timeout of a first statement; a reader's upgrade is refused at
\* once when the lock is held or its snapshot is out of date.
WriteFails(q) ==
    /\ \/ pc[q] = "write" /\ lock # None
       \/ pc[q] = "upgrade" /\ (lock # None \/ q \in stale)
    /\ stale' = stale \ {q}
    /\ EndRequest(q)
    /\ UNCHANGED rows

-----------------------------------------------------------------------------
(* The command line *)

\* The transaction is dropped or committed.
EndReload(r) ==
    /\ Goto(r, "idle")
    /\ job' = [job EXCEPT ![r] = None]
    /\ todo' = [todo EXCEPT ![r] = {}]
    /\ page' = [page EXCEPT ![r] = None]
    /\ found' = [found EXCEPT ![r] = None]
    /\ lock' = IF lock = r THEN None ELSE lock
    /\ draft' = IF lock = r THEN None ELSE draft
    /\ UNCHANGED web

Begin(r, u) ==
    /\ pc[r] = "idle"
    /\ Goto(r, "read")
    /\ job' = [job EXCEPT ![r] = u]
    /\ UNCHANGED <<web, rows, draft, lock, stale, todo, page, found>>

\* find_by_username takes the snapshot, find_all_metadata reads from it.
ReadArticles(r) ==
    /\ pc[r] = "read"
    /\ todo' = [todo EXCEPT ![r] = {a \in Articles : Live(rows, a) /\ rows[a].owner = job[r]}]
    /\ found' = [found EXCEPT ![r] = rows]
    /\ Goto(r, "scrape")
    /\ UNCHANGED <<web, rows, draft, lock, stale, job, page>>

\* The page of one article arrives.
Scrape(r) ==
    /\ pc[r] = "scrape"
    /\ \E a \in todo[r], fault \in Faults :
        LET got == Extract(web[a], fault)
        IN  /\ got.error = None
            /\ page' = [page EXCEPT ![r] = <<a, got.document>>]
            /\ todo' = [todo EXCEPT ![r] = @ \ {a}]
    /\ Goto(r, "update")
    /\ UNCHANGED <<web, rows, draft, lock, stale, job, found>>

\* An article whose page cannot be fetched is skipped.
ScrapeFails(r) ==
    /\ pc[r] = "scrape"
    /\ \E a \in todo[r], fault \in Faults :
        /\ Extract(web[a], fault).error # None
        /\ todo' = [todo EXCEPT ![r] = @ \ {a}]
    /\ UNCHANGED <<web, rows, draft, lock, stale, pc, job, page, found>>

\* Mutant: on a connection of its own, which may wait for the lock and then
\* writes beside whatever was committed since.
UpdateOnPool(r) ==
    /\ pc[r] = "update"
    /\ lock \in {None, r}
    /\ lock' = r
    /\ LET table == IF lock = r THEN draft ELSE rows
           a == page[r][1]
       IN  draft' = IF Live(table, a) THEN [table EXCEPT ![a].text = page[r][2]] ELSE table
    /\ Goto(r, "scrape")
    /\ UNCHANGED <<web, rows, stale, job, todo, page, found>>

\* Mutant: each article is committed as soon as it is updated.
UpdateAtOnce(r) ==
    /\ pc[r] = "update"
    /\ lock = None /\ r \notin stale
    /\ rows' = [rows EXCEPT ![page[r][1]].text = page[r][2]]
    /\ Goto(r, "scrape")
    /\ UNCHANGED <<web, draft, lock, stale, job, todo, page, found>>

\* Mutant: the rows that were read are written back whole.
UpdateFromRead(r) ==
    /\ pc[r] = "update"
    /\ lock \in {None, r}
    /\ lock' = r
    /\ draft' = [IF lock = r THEN draft ELSE found[r] EXCEPT ![page[r][1]].text = page[r][2]]
    /\ Goto(r, "scrape")
    /\ UNCHANGED <<web, rows, stale, job, todo, page, found>>

\* entries::update_by_id with the columns a page determines; the first UPDATE
\* takes the write lock or is refused.
Update(r) ==
    /\ pc[r] = "update"
    /\ lock = r \/ (lock = None /\ r \notin stale)
    /\ lock' = r
    /\ LET table == IF lock = r THEN draft ELSE rows
       IN  draft' = [table EXCEPT ![page[r][1]].text = page[r][2]]
    /\ Goto(r, "scrape")
    /\ UNCHANGED <<web, rows, stale, job, todo, page, found>>

\* SQLITE_BUSY or SQLITE_BUSY_SNAPSHOT: `?` gives the whole run up.
UpdateRefused(r) ==
    /\ pc[r] = "update"
    /\ lock # r
    /\ lock # None \/ r \in stale
    /\ EndReload(r)
    /\ stale' = stale \ {r}
    /\ UNCHANGED rows

\* COMMIT, also of a run that could fetch nothing and wrote nothing.
Commit(r) ==
    /\ pc[r] = "scrape"
    /\ todo[r] = {}
    /\ rows' = IF lock = r THEN draft ELSE rows
    /\ stale' = (IF rows' = rows THEN stale ELSE stale \cup Readers) \ {r}
    /\ EndReload(r)

\* A URL that does not parse, no such user, a proxy that is none, a failing
\* statement or COMMIT, a terminal that is closed.
Abort(r) ==
    /\ pc[r] # "idle"
    /\ EndReload(r)
    /\ stale' = stale \ {r}
    /\ UNCHANGED rows

-----------------------------------------------------------------------------
Init ==
    /\ web \in Webs
    /\ rows \in [Articles -> {None} \cup [owner : Users, marked : {FALSE},
                                         text : UNION {Added(a) : a \in Articles}]]
    /\ \A a \in Articles : Live(rows, a) => rows[a].text \in Added(a)
    /\ draft = None
    /\ lock = None
    /\ stale = {}
    /\ pc = [p \in Requests \cup Reloads |-> "idle"]
    /\ job = [p \in Requests \cup Reloads |-> None]
    /\ todo = [r \in Reloads |-> {}]
    /\ page = [r \in Reloads |-> None]
    /\ found = [r \in Reloads |-> None]

Handle(q) == Find(q) \/ Write(q) \/ WriteFails(q)

Run(r) ==
    \/ ReadArticles(r) \/ Scrape(r) \/ ScrapeFails(r)
    \/ Update(r) \/ UpdateRefused(r) \/ Commit(r)

Next ==
    \/ \E q \in Requests : Handle(q) \/ \E a \in Articles : \E j \in Asked(a) : Start(q, j)
    \/ \E r \in Reloads : Run(r) \/ Abort(r) \/ \E u \in Users : Begin(r, u)

Spec == Init /\ [][Next]_vars

-----------------------------------------------------------------------------
(* Properties *)

\* A reload that commits changes finds every article exactly as its SELECT
\* did minutes before: no edit, deletion or other reload that was committed
\* while it fetched pages is overwritten or undone.  Rests on the UPDATEs
\* running in the transaction that read.
NothingNewerOverwritten ==
    [][\A r \in Reloads : (lock = r /\ rows' # rows) => rows = found[r]]_vars

\* A run changes articles with its last step or not at all: not before every
\* page was fetched or skipped, and nothing when it fails half-way.
WholeRunOrNothing ==
    [][\A r \in Reloads : (pc'[r] # pc[r] /\ rows' # rows) => pc'[r] = "idle" /\ todo[r] = {}]_vars

Service == INSTANCE ReloadService WITH
    fetched <- [a \in Articles |-> Extract(web[a], "none").document]

\* Beside the server a reload is one step on the articles as they then are.
ImplementsService == Service!Spec

\* Whatever is missing or broken in the page of an article, the article has a
\* title that entries.title takes, when it is added and when it is reloaded:
\* the chains of fallbacks in PdfExtractor::extract and extract_or_fallback.
AlwaysTitled ==
    /\ \A a \in Articles : Live(rows, a) => Titled(rows[a].text)
    /\ \A r \in Reloads : page[r] # None => Titled(page[r][2])

\* A PDF that is fetched again gets the title it is meant to have, unless its
\* metadata repeat a name of the file with more than one dot, which the code
\* takes for a title (pdf.rs:103-141, 155-208).
LargestPrintIsTitle ==
    \A r \in Reloads : page[r] # None =>
        LET source == web[page[r][1]]
        IN  /\ MimeOf(source.header) = "pdf" /\ source.pdf.parses
            /\ ~RepeatsDottedName(source.url, source.pdf)
            => IsTitleOf(page[r][2].title, source.url, source.pdf)
=============================================================================
