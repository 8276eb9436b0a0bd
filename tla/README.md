# Articler in TLA+

Articler is a self-hosted read-it-later server: an actix-web process with a
Wallabag-compatible REST API and a web UI over one SQLite database, and a
command line, `articlerctl`, that works on the same database from a second
process.  The modules here model the parts where something can go wrong
between two steps: transactions that read and then write, an in-memory table
beside a persistent one, requests that are dropped half-way, two processes on
one file.  Paths below are relative to `src/crates/` unless they start with
`src/`.

    tlc -workers 2 -config TokenStorage_safety.cfg MCTokenStorage.tla
    tlapm TokenStorageProofs.tla

## 1. The system

| Component | State it keeps | Operations | Correct when |
|---|---|---|---|
| Token storage (`token_storage`, `db/repository/tokens.rs`) | `access_tokens`, a DashMap in memory; table `tokens` (refresh tokens) | `new_token`, `refresh`, `validate`, `gc` | a refresh token is exchanged at most once and never lost by a failure; access tokens live exactly as long as promised; the map does not grow for ever |
| OAuth endpoint (`wallabag_api/oauth.rs`) | none | password grant, refresh grant, `auth_extractor` | look-ups and writes of a grant belong together although they are several transactions |
| API clients (`db/repository/clients.rs`, `server/web/ui.rs`) | table `clients` | create, delete, list | deleting one revokes its tokens |
| Users (`server/web/setup.rs`, `cli`, `db/repository/users.rs`) | table `users` | setup page, `create-user` | the setup page creates a user only if there is none; names are unique |
| Entries and tags (`db/repository/entries.rs`, `tags.rs`, `wallabag_api/wallabag/*.rs`) | tables `entries`, `tags`, `entry_tags` | create, patch, tag, untag, delete, delete tags | each request happens whole or not at all and answers with what it committed; links join rows of one user; flags agree with their dates |
| Full-text index (`src/migrations/20260313102652…`) | `entries_fts` | three triggers | the index holds what the rows hold, through cascades and rollbacks |
| Web UI writers (`server/web/ui.rs`) | none | archive, favourite, edit title, delete, add | single statements beside the transactions of the API |
| Listing, paging, search, counters (`db/repository/entries.rs`, `wallabag_api/wallabag/entries.rs`, `server/web/ui.rs`) | none | `GET /api/entries`, tags of an article, pages, search, `partial_categories`, cards | an answer shows one committed state |
| Synchronisation by `since` (the same files) | `updated_at` of each article | every writer of articles, `GET /api/entries?since=` | a client that keeps a margin misses no request's commit |
| Reload (`cli/lib.rs`) | one long transaction | `reload_articles` | writes over nothing newer; whole or not at all; the server's requests end meanwhile |
| Scraper (`article_scraper`) | none | `extract`, `extract_or_fallback` | an article that is added has a title whatever fails; a reload is given only what was extracted; the title is the one meant (but see section 5) |
| Migrations (`src/migrations`, `server/main.rs`) | the schema, `_sqlx_migrations` | up scripts, run at start | no rows lost; ids not reused; a crash can be repeated |
| Web UI: sessions and pages (`server/web`, `session_user.rs`) | a signed cookie; forms in open tabs | login, logout, pages, forms, redirects | a form does to a row what its page showed; redirects end |
| Names and passwords (`types`, `helpers`, `auth`) | none | `Username`, `Password`, `find_user` | what is kept is what the look-up finds |
| Composition (`server/main.rs`, `app.rs`, `app_state`) | workers, pool, the collector's task | arrival, take and give back, shutdown | the task outlives the workers; nobody is cut off; no waiting in a circle |
| Templates, routing, responses | none | — | not modelled |

How they meet: handlers call repositories with a connection of one pool; every
write goes through SQLite's single write lock; the API's handlers open a
transaction (`pool.begin()`, which is deferred) for several statements, the UI
uses single statements; the collector runs as a task beside the handlers on
the DashMap; `articlerctl` shares nothing but the file, and calls the scraper as
the handlers that add an article do; migrations run before anything is served.

What is hard: statements of concurrent transactions in any order; what was
read in an earlier transaction, or before the first write of this one, being
out of date; a form posted from a page that has gone stale;
a future dropped at any `.await` (actix drops the handler when
the connection closes); a failing statement or COMMIT; restarts with half of
the token state in memory; expiry at the exact second; waiting for the lock.
`hazards` in `PROJECT.json` lists each at its line with the property that
would catch it.

### SQLite as the modules assume it

The database runs in WAL mode with foreign keys on and a busy timeout (sqlx's
defaults and the options of `server/main.rs`).  The models use these facts:

* A deferred transaction takes its snapshot at its first statement.
* If that statement writes, it waits for the write lock, up to the busy timeout.
* If it reads and a later one writes, the write fails *at once* when somebody
  holds the lock (SQLITE_BUSY) or has committed since the snapshot
  (SQLITE_BUSY_SNAPSHOT); it never waits.  So a transaction that gets to write
  has read the current state.
* A commit that changed nothing may leave snapshots of others valid.
* Other connections see a transaction's changes at COMMIT; a dropped
  transaction is rolled back.
* AUTOINCREMENT never hands out a number twice, and counts the rows that
  `ON CONFLICT DO NOTHING` skips.

## 2. Modules and code

| Module | What it is |
|---|---|
| `TokenStorage` | the token endpoint, the two token tables, collector, validation, clients, foreign writers, restarts |
| `TokenService` | what refresh tokens promise, one atomic action per operation; `TokenStorage` refines it |
| `MCTokenStorage` | TLC instance with symmetry |
| `TokenStorageProofs` | types, invariants and the refinement, proved; at its end those of `ServerLife` |
| `EntryTables` | the tables of articles and tags with index, cascades and triggers; each statement as a function on them |
| `EntryStore` | handlers as sequences of those statements in transactions; UI and tag endpoints as single statements |
| `EntryService` | what the requests promise, stated by what holds afterwards; `EntryStore` refines it |
| `EntryStoreProofs` | types, invariants of the tables, convertible articles and the refinement, proved |
| `MCEntryStore` | TLC instances: labels, changes and requests |
| `Listing`, `MCListing`, `ListingProofs` | what is read of the articles, SELECT by SELECT, beside commits, checked and proved |
| `Setup`, `MCSetup`, `SetupProofs` | the setup page, `create-user` and the look-up at a login, checked and proved |
| `Scraper` | one scrape as a function of a page and of what fails: type of the answer, extractors, fallbacks, titles |
| `Reload`, `MCReload` | `articlerctl reload-articles` with `Scraper`'s pages, beside a server and other runs |
| `ReloadService` | what it promises, one step per run; `Reload` refines it |
| `ReloadProofs` | types, titles, the action properties and the refinement, proved |
| `Sync`, `SyncProofs` | a client that synchronises by `since` beside writers and reloads, checked and proved |
| `Migrations`, `MigrationsProofs` | the up scripts on data of older schemas, with crashes, checked and proved |
| `WebUi`, `MCWebUi`, `WebUiProofs` | browser tabs with one cookie, the pages and forms of the web UI, checked and proved |
| `ServerLife` | workers, pool, collector and `main` to the end of the process |
| `ServerProcess` | the state of that process and its two safety properties, which `ServerLife` and `TokenStorageProofs` both extend |

Each composes with the others through the file: what a request does *inside* its
transaction is `EntryStore`'s matter, and `Listing`, `Reload`, `Sync`, `WebUi` and
`ServerLife` take it as one step where only its commit, its stamp, its row or its
connection matters.

**TokenStorage.**  `pc[r]` is the statement a handler is at; between any two
of them anything else may run.  Password grant: `StartPassword`,
`FindUserAndClient` | `UnknownClient`, `InsertAccess` (the map), `CreateRow` |
`CreateRefused` (a foreign key that no longer holds).  Refresh grant:
`StartRefresh`, `FindClient`, `TakePurgeLock` and `CommitPurge` (the first
transaction: `delete_expired`), `Find` | `InvalidGrant`, `Delete` |
`UpgradeRefused`, `InsertAccessAndCreate`, `Commit`.  Both end with `Respond`,
`BusyTimeout` or `Abort`.  Beside them `Validate`, `Gc`, `CreateClient`,
`DeleteClient`, `ForeignBegin`/`ForeignCommit`, `Restart`, `Tick`.  `rows` is
the committed table `tokens`, `access` the DashMap.  One model token stands
for the pair of random strings of one response.  History variables (`minted`,
`stored`, `successors`, `delivered`, `session`, `deletedAt`) remember what the
properties speak of.

**EntryTables and EntryStore.**  `db` is the committed database, `draft` what
the holder of the lock has made of it; a reader that has not written yet sees
its snapshot, which equals `db` exactly when it may still write.  A row keeps
owner, title, content, extracted text, origin URL and the pairs
(is_archived, archived_at), (is_starred, starred_at), (is_public, uid) as the
sets `marks` and `dates`.  Origin is `"url"`, `"malformed"` or absent, because
`AddEntry` and `UpdateEntry` take any string and `Entry::try_from` parses it.
Labels are mapped to slugs by a function that is not injective, as `slugify`
is not.  `Find`, `Insert`, `Update`, `Delete`, `InsertNewTags`, `Link`, `Trim`,
`DeleteLink`, `Commit`, `Respond` are the statements; `NotFound`,
`TooManyTags`, `AnswerFails`, `UpgradeRefused` and `Abort` the ways to fail.
`Commit` is last in every handler except that `post_entries` commits before it
converts the row.

**Listing.**  One reader, since readers do not meet.  `Count`, `Find`, four
times `LoadCounter`, `Answer` and `Respond` are its steps, in the order of the
kind of request, and `Look`, `FindTags` those of the tags of an article; `Select`
says which of them run in one transaction (the API,
the pages and the search) and which do not (`partial_categories`, the cards
that answer a form).  `View` is what a SELECT sees.  `Found` is every result
the SQL admits: rows with equal keys in any order, the page cut out of the ids
by a sub-select with LIMIT and OFFSET, the join with the tags (an article
without tags comes with a row of NULLs, read as the tag `NoTag`) and, by `Gather`,
the rows gathered by id in the order in which the ids first appear.  `Pages` is `ceil` of a quotient in f64, with a page size of 0
or less as the request may give it.  A search has one term, in the title of
some articles and the text of others; bm25 ranks within the two tiers are left
open.  The writers are what `EntryStore` commits, in one step: any row created,
changed (owner and `created_at` stay) or deleted.  `seen` is a history of the
states that were committed while the request ran.

**Setup.**  `Post`, `Count`, `CountInTx`, `Insert`, `Commit` of `do_setup`; `Run`,
`FindName`, `Insert`, `Commit` of `create_user`, which looks at the password only
when the name is free; `Unprocessable`, `RunInvalid`, `PasswordInvalid`, `BusyName`,
`Redirect`, `InsertRefused` and `Abort` are the other ends.  What is typed is a
sequence of characters, one of which is white space; `UsernameOf` and `PasswordOf`
are the two `try_from`, with their different bounds and with trimming only of the
name, and `FindUser` is `find_user`, which uses neither.  A row remembers what was
typed for it.

**Scraper.**  No state: `Extract` and `ExtractOrFallback` yield the document or the
error of a page and of what the network does (`Faults`), with `MimeOf` for the
header, `HtmlResult` and `PdfDocument` for the extractors.  A name (of a file, a host,
a title in metadata) is a member of a small set with `to_lowercase`, `file_stem` and
the cut at the last dot as functions on it; a block of a PDF is the sizes of its
glyphs and the counts `looks_like_valid_title` computes.  `Scan` goes over the blocks
one by one, by `ScanBlock`, and a title is a set of their positions.  What Readability and MuPDF
find in a body is part of the page.  The headers with a parameter stand for all that begin
with the type, which is what the code looks at.  `IsTitleOf` says what the title should be
without the scan and the nested fallbacks: the metadata's, unless it repeats the name of the
file (`Repeats`: in any case, with or without an extension).  Where the code compares
otherwise is `RepeatsDottedName`, which is left out of what is claimed (section 5).

**Reload.**  `Begin`, `ReadArticles` (the snapshot), then `Scrape` | `ScrapeFails`
and `Update` | `UpdateRefused` for each article, `Commit`; `Abort` anywhere.  `web` has
the page behind each address, and `Scrape` is `Extract` of it.  `draft`
is the work of the run that holds the write lock.  A request of the server is
`Start`, `Find` if it reads first, and `Write` | `WriteFails`, which is the whole of
`EntryStore` seen from outside; what it adds comes from `ExtractOrFallback`.

**Sync.**  A row is `created`, `updated`, a version number and who wrote it last.
`Stamp` reads the clock (for an update of an article the client was told of: `patch_entry`
looks it up only later, and a PATCH of an id that does not exist yet could bring a stamp
older than the article, which the CHECK refuses), `Insert` and `Update` commit later, at most `MaxLag`
later: the wait for a connection of the pool (30 s) and for the lock (5 s).
`ReloadOne` stamps in the open transaction and `ReloadCommit` commits all.  `Pull`
is the client (external): it keeps a mark, which is the time it asked or the
largest `updated_at` it was told, and asks for `since = mark - Overlap`.
`SetBack` sets the server's clock back.

**Migrations.**  `db` holds the rows and the level of the schema, `applied` what
`_sqlx_migrations` records.  A script is an operator on `db`, statement by
statement in effect: rebuilding a table with the foreign keys enforced deletes
what refers to it, because `PRAGMA foreign_keys` does nothing inside the
transaction sqlx runs the script in; `INSERT ... SELECT` keeps ids, `sqlite_sequence`
restarts unless it is set.  `20260728120000` runs without a transaction and is
recorded by a later statement, so `Crash` may fall between (`"unrecorded"`).  While
the server serves, rows change in every way the schema of its level permits; the
queries of older servers are not in the repository.

**WebUi.**  `wire[t]` is the request or the answer a tab waits for, `screen[t]` what
it shows and the rows its forms name.  A request carries the cookie of the moment
it is sent; an answer sets it when it arrives, so that two tabs race for it.  htmx
requests swap, others navigate, `HX-Redirect` and 302 are followed as a browser
does.  The handlers are one step each: their transactions are in other modules.
The first user comes from the setup page (`SubmitSetup`, `DoSetup`) or the command line
(`CreateUser`).  A setup form that another user came before is answered with a plain
302, and as htmx posted it the login page is swapped into the page at `/setup`
(`setup.rs:39-43`, `71-75`): there and nowhere else may the login form lie in a page
that is not its own.  That form then lies in the setup form, whose htmx listener may
take its submit; such a post has none of the fields, is refused and changes nothing, so
that `SubmitLogin` alone is modelled from there.

**ServerLife.**  `Ask`, `Grant`, `GiveBack` are a handler at the pool, which is a
fair queue; `TimeOut` and `Abandon` end it early.  `Signal`, `WorkerEnds`, `StopByForce`
(actix's `shutdown_timeout`), `ServerEnds` (`pool.close()` begins), `Return`.
`Holders` counts what refers to the storage: the clones of the one `web::Data<AppState>`
in the workers and in the closure of the server (`app.rs:103-106`), and the clone of
the storage in the task itself.  Requests also arrive after the signal, on
connections that are kept alive.

### Abstract specifications

`TokenService` says: a token is issued for a live client; it is exchanged once
for one other token with the same client; expired tokens go; deleting a client
revokes its tokens; nothing comes back.  `EntryService` has no transactions: a
request creates, patches, tags, untags or deletes an article in one step and
`reply` is the article as that step left it (for a deletion, as it was).  `ReloadService` has
one step for a run: it puts what their pages now are into articles of one account, leaves what
the user did to them and brings nothing back.  All three are `PROPERTY`s of the
detailed modules by `INSTANCE` (TokenService with
`Lifetime <- RefreshTokenExpirationTime`, EntryService with the fields of `db`,
ReloadService with `rows` and with what `Extract` makes of each page).

## 3. What the runs check

| Run | Instance | Shows |
|---|---|---|
| `token_safety` | 2 clients, 3 tokens, 2 requests, clock to 2 | the seven invariants and `ImplementsService` |
| `token_liveness` | 1 client, 2 tokens, 2 requests, fair | requests end; expired entries are collected |
| `entry_requests` | 2 users, 2 articles, 2 requests | `ImplementsService`, `OneOwner`, `SearchMirrorsEntries`, `FlagsMatchDates`, `UpdatesStayConvertible` |
| `entry_slugs` | 1 user, 1 article, 1 request | violated: finding 1 |
| `listing` | 3 ids, 4 rows, 17 requests, 2 committed states per request | `AnswersOfOneState` (pages, counters, cards and tags), `EachCounterWasTrue` |
| `setup` | 2 forms, 2 command lines, 5 names and 4 passwords as typed | `SetupOnlyFirst`, `NamesDistinct`, `OwnersLogIn` |
| `reload` | 2 articles, 2 users, 2 runs, 1 request, every page of `MCPages` | `NothingNewerOverwritten`, `WholeRunOrNothing`, `ImplementsService`; `AlwaysTitled`, and `LargestPrintIsTitle` against a reference definition |
| `sync` | 1 article, 2 writers, clock to 4 that may be set back, 3 versions, fair client | `OnlyReloadsAreMissed`, `RefusedOnlyAfterSetBack`, `RequestsAreDelivered` |
| `migrations` | 2 users, 2 words, 1 label, 2 ids, 1 crash, fair restarts | `LinksOfOneUser`, `TagIdsNotReused`, `SearchCoversOldEntries`, `StartsAgain` |
| `migrations_references` | 1 user, 1 id, no crash | violated: finding 2 |
| `webui` | 2 users, 2 tabs, 2 rows | `NotFoundIsFinal`, `LoginOutsidePages`, `RedirectsEnd`, `DeletesWhatItShowed` |
| `server_life` | 2 workers, 3 requests, 2 connections, 2 takes each, fair | `CollectorOutlivesWorkers`, `NobodyCutOff`, `RequestsAreAnswered`, `ShutdownCompletes` |

Each module with variables also states its types as `TypeOK`, which is a theorem.

Why the bounds are enough.  *Tokens*: two requests with one refresh token is
the smallest race; three tokens let both mint a successor; an access token
lives one tick and a refresh token two, so that each can expire while the
other, or a request, is under way; two clients let one present the other's
token.  A request starts only while a random string is left for everyone
(`StringsLeft`).  *Articles*: a race on an article takes two requests, and a
foreign link or a recreated tag takes two users; two requests (`Overlapping`), and
the requests only `SharedArticle` has, meet the tables while there is one article
(`Bounded`, a state constraint), because the statements of different articles touch
each other only through tags.  The labels `Rust` and `rust` share a slug, `go` does
not; lists go up to one label too many (`TagLimit` is 2 in place of 32766 / 3).
`MaxEntries` and `MaxTagSeq` cap the two AUTOINCREMENT counters and stop
requests, not states.  *Listing*: every database of three ids is an initial state; three articles give
pages of one and two with a rest and ties across pages, one commit between two
SELECTs is the smallest race, and pages and page sizes include 0 and -1; the
four rows differ in every filter, in the sort keys and in their tags (two, one,
none), one does not convert, one belongs to somebody else.  *Setup*: two of
each kind give every pair of writers; two names, one of them also typed with a
blank before it, two passwords that differ in a blank at the end, and of each what is
blank and what is too long; the two bounds are 2 and 3 in place of 512.  *Reload*: two
articles make a run hold the lock while it fetches; `Asked` is every addition, mark
and deletion, with a look first and without.  The pages of `MCPages` break each step
of a scrape in turn and vary title, metadata, file name and up to three blocks;
everybody runs over an ordinary page, and each other page is met by one run or one
request alone (`Bounded`).  `MaxLength` is 20 and `MaxWords` 1000.  *Sync*:
`MaxLag` 1, `Overlap` 2 and a clock to 4 let a commit fall behind the mark and the
client ask again after it; `MaxVersion` bounds the commits of an article and
`MaxTime` the clock.  The client's margin must exceed `MaxLag`: with
`Overlap` equal to it TLC finds a commit that is missed.  *Migrations*: two ids let an id be given out again; `MaxCrashes` bounds the
faults; `Registered` users have a client, whose refresh tokens only finding 2 is
about.  *WebUi*: two tabs and two users are the smallest set in which a page
outlives its session; `MaxRows` is the number of articles and clients that are ever
created, in any mix, and two let the id of one that is gone be given out again.
*ServerLife*: three requests of two connections each on a pool of two must wait
for each other.

Every property also has a mutant of the code in the module it speaks about
(the operators commented `Mutant`): with it in place TLC finds the property
violated.

**Fairness.**
* `token_liveness`: `WF(Handler(r))`: tokio polls a ready future and the busy
  timeout makes a waiting one ready.  `WF(Gc)`: the task's interval ticks as long as
  the server runs.  Nothing is assumed of users, of deletions, of restarts, or of
  the foreign holder of the write lock: it may keep it for ever, and requests end
  because they time out or are refused.
* `sync`: the client keeps asking.  Nothing is assumed of the writers or
  of the clock.  `RequestsAreDelivered` holds as long as the clock is not set back,
  since then the client's mark is ahead of what is stamped.
* `migrations`: `WF(Start)`: the server goes on to start, and is started again after a
  crash.  That is assumed of the operator or of a supervisor: the service file in
  `dist/alpine` does not respawn.  Crashes are bounded, as otherwise no start could ever finish.
* `server_life`: the pool, handlers that have what they wait for, workers and
  `main`.  Timeouts are not fair: each request of the instance arrives once, and
  handlers end by themselves.  A client that never stops asking on a connection that is
  kept alive would be ended by `shutdown_timeout` (`StopByForce`), and only by it.

## 4. What is proved

For every number of clients, tokens and concurrent requests, all expiration
times and any end of the clock, from `TimesAssumption` and
`DistinctAssumption`, `TokenStorageProofs` proves

* `TypeCorrect`, by the invariant `TypeInv`: `TypeOK` is not inductive because
  an action uses a local an earlier one set; `Locals` says which are set where;
* `RefreshIsSingleUse`, `RefreshIsRedeemable`, `ForeignKeyHolds`,
  `ClaimsAreInherited`, by `TableInv`: it ties the holder of the lock to its
  `pc`, and says that a request that has found its row, and whose snapshot is
  not out of date, still finds that row in the table.  That is SQLite's
  refusal of stale upgrades put as an invariant, and it is why deleting and
  creating a successor cannot happen twice;
* `AccessLasts`, `AccessEndsAfterDeletion`, `ExchangedWasUnexpired`, by
  `TimeInv`, which relates the entries of the map and the rows a request found
  to the clock and to what was minted;
* `Refinement`: every step is a step of `TokenService` or a stutter.

`SetupProofs` proves `TypeCorrect`, `SetupIsFirst`, `NamesAreDistinct` and
`OwnersCanLogIn` for any sets of forms and command lines and texts of any length.
`SetupOnlyFirst` alone is not inductive: `ReadInv` adds that what a writer has read is
still so while its snapshot is current, and from when it holds the lock.
`OwnersLogIn` follows from `RowInv`, what is stored against what was typed, and that
from `FormInv`: what a writer under way has typed makes a user.

The end of `TokenStorageProofs` is about `ServerLife`, whose collector is the task of
that storage.  For any workers, requests and pool size it proves

* `CollectorOutlivesWorkersAlways` and `NobodyCutOffAlways`.  The inductive invariant
  `LifeInv` says why: the task holds a clone of the storage itself, so nothing cancels
  it before `main` has returned; `main` comes to close the pool only when no worker is
  up; and a closed pool grants nothing once every connection is back;
* `PoolTypesCorrect`: the queue has each waiting request once, and no more connections
  are lent than there are.  `LifeTypes` adds what makes that inductive, and a theorem
  of its own, `NobodyWaitsHolding`: who waits for a connection has none.  This is the
  safety half of `RequestsAreAnswered`.  The connections that are lent are a set of
  pairs, so that a grant adds one element and the library's facts about cardinality
  apply; the lemmas from `QueueGrows` to `OneLeaves` are about a queue without repetitions
  that grows at one end and shrinks anywhere.

`EntryStoreProofs` proves `TypeCorrect`, `LinksStayWithTheOwner` (`OneOwner`),
`SearchIsExact` (`SearchMirrorsEntries`), `FlagsAreDated` (`FlagsMatchDates`),
`UpdatesKeepConvertible` and `RequestsAreAtomic`, the refinement of `EntryService`,
for any users, requests, labels and slugs, changes and number of articles.

* The tables: `TablesInv` holds after every statement, of a draft as of what is
  committed, by one lemma per operator of `EntryTables`.  Beside the three
  properties it has the numbering: no id is above its AUTOINCREMENT counter.
  Without that a new row could inherit the links or the postings of an old one.
* The requests: `Final(d, q)` is what a request makes of the tables `d`, computed
  at once; `Based`, `Tagged`, `Joined` and `Relinked` are its stages.  `RequestInv` says
  that the draft of the holder of the lock is the stage its statement starts from, of
  the tables committed *now*, and that a request which has only read still sees
  them unless its snapshot is stale.  A commit is then `Final` of the state it meets.
* The refinement: `EntryService` says what holds after a request, so the lemmas show
  that `Final` has just that effect: every label has one tag and old tags keep their
  ids, the links of the article are those of the labels, others are as they were.

`ReloadProofs` proves `TypeCorrect`, `NothingNewerIsOverwritten`, `RunsAreWhole` and
`ReloadsAreAtomic`, the refinement of `ReloadService`, for any articles, accounts, requests,
runs and pages.  `FreshInv` carries it: the snapshot of a run that holds the lock, or may
still take it, is what is committed.  `DraftInv` adds that the draft differs from
that in texts of the account only, each the text of the page as it is, and
`RunInv` that a run has only such articles before it as its SELECT saw.

It proves of the titles, for pages of any number of blocks and any functions on names:

* `ScanFindsHeading`: the scan block by block keeps just the blocks whose font is within a
  tenth of a point of the largest one.  `ScanFinds` says so of each prefix; in place of
  an induction theorem a least prefix for which it fails is refuted (`Least`).
* `PdfTitleIsMeant`: the chain of fallbacks of the code gives a title, and the one
  `IsTitleOf` asks for, the metadata, then the largest print, then the file, then the
  address, unless `RepeatsDottedName`; there it keeps the metadata's.
* `ExtractedTitled`: every document has a title, neither empty nor too long.
* `ArticlesAreTitled` (`AlwaysTitled`) and `ReloadedTitles` (`LargestPrintIsTitle`) carry this
  to the tables: every text that is stored or fetched comes from such a scrape, and by
  `PageInv` what a run has fetched is what is behind the address.

`ListingProofs` proves `TypeCorrect`, `AnswersOfOneStateAlways` (`AnswersOfOneState`) and
`EachCounterWasTrueAlways` (`EachCounterWasTrue`) for any articles, filters, pages and
any number of commits beside a request.

* The request: `SnapshotInv` says that what a transaction has read so far is what one
  reads in its snapshot, and `PathInv` that the snapshot was committed while the
  request ran; `PoolInv` says of a request without a transaction that each SELECT was
  true of a state of its own, which is all such a request promises.
* The page: `FoundIsListing` says that whatever the SQL admits is the page that was asked
  for: only articles that match, each once with all its tags, sorted, and as many of
  them before it as the earlier pages have.  The sub-select and the join sort separately
  and need not agree on articles with equal keys.  `PlaceOfItem` counts instead: what must come
  before an article of the page is skipped by OFFSET or on the page before it, and what
  is skipped or before it need not come after it.

`SyncProofs` proves `MarginSuffices` (`OnlyReloadsAreMissed`), `RefusalsNeedSetBack`
(`RefusedOnlyAfterSetBack`) and `TypeCorrect` for any articles, writers, lag and margin,
and beside them `CheckHolds` (`updated_at >= created_at`) and `NothingUncommittedIsCopied`.
`ClockInv` says that all that was read from a clock that was never set back lies
behind it: stamps, an open reload, the mark.  A request that commits in time thus
stamps at most `MaxLag` behind the mark, where the client still looks.  `JobInv` and
`StampInv` say that who updates an article read the clock after who created it.

`MigrationsProofs` proves `LinksJoinOneUser`, `TagIdsStay`, `SearchIsComplete` and
`TypeCorrect` for any rows of the oldest schema, and `NeverRefused`: no script fails on
rows an older schema permitted, nor on its own effects after a crash.  `DbInv` says of a
database of each level what the schema of that level promises; `PhaseInv` that only
the script without a transaction is ever ahead of its record; `TagsInv` that every tag
that ever was is numbered below the sequence.

`WebUiProofs` proves `NotFoundStaysFinal`, `LoginStaysOutsidePages`, `RedirectsAreFew`,
`OnlyWhatWasShownGoes` and `TypeCorrect` for any users and any number of tabs.  `DbInv` and
`Shown` say that ids are never above the last one given out, so that what a page
shows is the row of that id or none; `RequestInv` that what a form asks for is on
the page it was sent from; `PageRank` bounds the redirects that may still follow, and
does not grow because the first user only comes and never goes.

**Assumptions.**  Each is an `ASSUME` of its module, which TLC evaluates for the
instance.  Bounds are natural numbers (`MaxVersion` and `Connections` at least 1).  What
stands for NULL, for no row or for nobody is not a row, a text, a request, a time or
a user (`NoRowAssumption`, `NoneAssumption`, `RowsAssumption`, `NamesAssumption`, the
`DistinctAssumption`s): the code has an `Option` there.  In `Scraper` it is no title
either, and pages have their fields (`WebsAssumption`).  Every label has a slug, and lists
consist of labels.  Nothing is assumed of how many there are of anything, but that the articles of `Listing`
and the tags of each are finitely many (`IdsAssumption`, `RowsAssumption`), as rows of a
table are; requests have the fields their handler gives them (`AskedAssumption`).
`OnlyReloadsAreMissed` has its condition, that the margin is greater than the lag, in the
property.

**Only model-checked.**

* Every liveness property (`RequestsEnd`, `ExpiredCollected`, `RequestsAreDelivered`,
  `StartsAgain`, `RequestsAreAnswered`, `ShutdownCompletes`): fairness is beyond the prover.
* The two findings, which are counterexamples.

## 5. Findings

1. `create_and_link` inserts tags with `ON CONFLICT DO NOTHING`, which covers
   the slug as well as the label (`db/src/repository/tags.rs:43`), and then
   links by label.  A label whose slug belongs to another label of the user is
   dropped without a word, and setting it as the only tag of an article that
   has the other leaves it without any; the comment on the function promises
   all tags.  `entry_slugs` shows it.
2. `20260227020848` recreates `entries` after `PRAGMA foreign_keys = OFF`, which has
   no effect inside the transaction of the script: every row of `entry_tags` goes.
   `20260313100939` does the same to the refresh tokens of clients.
   `migrations_references` shows it.

Two more disagreements are seen in the model and have no run of their own.
`gc` keeps an access token only while `expires_at > now`
(`token_storage/src/lib.rs:223`), `validate` accepts it while `expires_at >= now`
(line 147), so in its last valid second a token can be collected; the collector's
test (line 643) speaks of valid tokens as preserved.  `get_pdf_title` compares the
metadata's title, cut at its last dot (`article_scraper/src/pdf.rs:117`), with the
file name without its extension, so that `2310.11703v2` of `2310.11703v2.pdf` passes
as a title, which the comment at line 125 means to exclude; `IsFileName` compares as
the code does, `Repeats` as is meant, and `LargestPrintIsTitle` makes no claim where they
differ.  TLC finds it violated as soon as its conjunct `~RepeatsDottedName` is dropped.

## 6. Not modelled

* Columns of articles no property tells apart.  `EntryStore` leaves out
  `updated_at` and the other clocks; `Listing` has them as numbers a commit
  may change at will, and `Sync` is what they mean.
* What `since` does not announce: changes of tags, deletions.  No code promises it.
* What a search term matches and how matches are ranked within a tier, and that
  PATCH replaces `content` and leaves the extracted text, which search reads.
* What Readability and MuPDF find; argon2; what ammonia removes from HTML.
* `ClientName` beyond being accepted or refused, random identifiers and hashes of
  addresses (`helpers`): functions of one value with nothing to interleave.
* Parsing and rendering of requests, responses and pages (the `dto` modules, the
  error types, templates), routing, configuration and static files, `exists` and
  `version`, which answer with constants.
* Reads of one SELECT that decide nothing (`get_tags`, the list of clients).
* Down scripts, a server older than its database, and a run of `articlerctl` in
  the middle of a migration.
* Deletion of users: no code does it.  So a session is never left without one.
* That hashing a password blocks its worker: time is not modelled in `ServerLife`.

## 7. Plan

Done: every module above, with the proofs of every safety and every action
property the runs check, the types and the three refinements.  What could follow:

1. `gc` against `validate` in the last second of an access token, once it is decided
   which of the two comparisons is meant; then a run can hold the other to it.
2. The extracted text beside the content of an article, if PATCH is to change both.
