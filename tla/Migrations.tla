----------------------------- MODULE Migrations -----------------------------
(***************************************************************************)
(* The start of the server (server/src/main.rs) and the scripts under      *)
(* src/migrations it runs before it serves.  A database written to under   *)
(* an older schema is brought to a newer one, with crashes at any moment.  *)
(*                                                                         *)
(* sqlx runs a script and records it in _sqlx_migrations in one            *)
(* transaction, where PRAGMA foreign_keys has no effect; a script that     *)
(* starts with "-- no-transaction" runs on the bare connection and is      *)
(* recorded by a statement of its own, so a crash may fall in between.     *)
(*                                                                         *)
(* While the server runs, the rows change in every way the tables of its   *)
(* schema permit: the queries of older servers are not in the repository.  *)
(***************************************************************************)
EXTENDS Naturals, FiniteSets

CONSTANTS
    Users,
    Words,       \* what a title or a text may be
    Labels,      \* labels of tags (a slug goes with its label)
    Registered,  \* users with an API client
    MaxId,       \* bound: ids of entries and of tags
    MaxCrashes   \* bound: crashes of the server

NoText == "none"   \* '' as content_text of an entry

ASSUME MigrationsAssumption ==
    /\ Users # {} /\ Words # {} /\ Labels # {} /\ NoText \notin Words
    /\ Registered \subseteq Users
    /\ MaxId \in Nat \ {0} /\ MaxCrashes \in Nat

\* The scripts in their order, by what they are named for.
Init0        == 1
RefreshToken == 2
ContentText  == 3
Search       == 4
ClientNames  == 5
SearchTitle  == 6
TagsPerUser  == 7
Indexes      == 8   \* the two of 20260729, which change no row
Scripts      == 1..Indexes

Ids == 1..MaxId

VARIABLES
    db,       \* the rows of the database and the level of its schema
    applied,  \* the scripts recorded in _sqlx_migrations: 1..applied
    binary,   \* the scripts compiled into the installed server: 1..binary
    phase,    \* of the process: "down", "migrating", "unrecorded", "serving"
    crashes,
    everTag   \* history: every row a tag id has stood for

vars == <<db, applied, binary, phase, crashes, everTag>>

TypeOK ==
    /\ db.level \in 0..Indexes /\ applied \in 0..Indexes
    /\ binary \in Scripts
    /\ db.level \in {applied, applied + 1}
    /\ \A e \in db.entries : e \in [id : Ids, user : Users, title : Words,
                                     text : Words \cup {NoText}]
    /\ \A t \in db.tags : t \in [id : Ids, user : Users, label : Labels]
    /\ db.links \subseteq Ids \X Ids
    /\ db.clients \subseteq Users /\ db.tokens \subseteq Users
    /\ phase \in {"down", "migrating", "unrecorded", "serving"}
    /\ crashes \in 0..MaxCrashes

-----------------------------------------------------------------------------
(* What SQLite does with the rows.                                         *)

\* ON DELETE CASCADE of entry_tags, while the foreign keys are enforced.
Cascade(d) ==
    [d EXCEPT !.links = {l \in @ : /\ \E e \in d.entries : e.id = l[1]
                                   /\ \E t \in d.tags : t.id = l[2]},
              !.tokens = @ \cap d.clients]

\* What the full-text index of a schema holds for an entry.
IndexRow(level, e) ==
    IF level >= SearchTitle THEN <<e.id, e.title, e.text>> ELSE <<e.id, e.text>>

\* INSERT INTO entries_fts(entries_fts) VALUES('rebuild').
Rebuild(d) == [d EXCEPT !.fts = {IndexRow(d.level, e) : e \in d.entries}]

\* The triggers entries_ai, entries_ad and entries_au: the row of the old
\* values goes, the one of the new values comes.
Triggered(d, old, new) ==
    IF d.level < Search THEN d
    ELSE [d EXCEPT !.fts = (@ \ {IndexRow(d.level, e) : e \in old})
                           \cup {IndexRow(d.level, e) : e \in new}]

\* The highest id of a table that is being rebuilt: INSERT ... SELECT of the
\* rows there are, into a table of a fresh sequence.
SeqOf(rows) == IF rows = {} THEN 0
               ELSE CHOOSE i \in {r.id : r \in rows} : \A r \in rows : r.id <= i

-----------------------------------------------------------------------------
(* The scripts.                                                            *)

\* DROP TABLE deletes the rows first; the children go with them, because the
\* PRAGMA of the script has no effect inside its transaction.  The rows come
\* back under the old name with the copy, the children do not.
ContentTextScript(d) ==
    LET dropped == Cascade([d EXCEPT !.entries = {}])
    IN  [dropped EXCEPT !.entries = {[e EXCEPT !.text = NoText] : e \in d.entries},
                        !.entrySeq = SeqOf(d.entries)]

\* Mutant: without the 'rebuild' at the end of the script.
SearchScriptEmpty(d) == d

SearchScript(d) == Rebuild(d)

ClientNamesScript(d) ==
    [Cascade([d EXCEPT !.clients = {}]) EXCEPT !.clients = d.clients]

SearchTitleScript(d) == Rebuild([d EXCEPT !.fts = {}])

\* A link the per-user tags script keeps.
SameUser(d, l) ==
    \E e \in d.entries, t \in d.tags : /\ e.id = l[1] /\ t.id = l[2]
                                       /\ e.user = t.user

\* Mutant: only links to rows that are gone are removed.
TagsPerUserScriptDangling(d) ==
    [Cascade(d) EXCEPT !.tagSeq = IF SeqOf(d.tags) < @ THEN @ ELSE SeqOf(d.tags)]

\* Mutant: the sequence of tags is not put back.
TagsPerUserScriptReset(d) ==
    [d EXCEPT !.links = {l \in @ : SameUser(d, l)}, !.tagSeq = SeqOf(d.tags)]

\* Here the PRAGMA works: dropping tags leaves entry_tags alone, the DELETE
\* removes what does not fit, and the sequence of tags is put back.
TagsPerUserScript(d) ==
    [d EXCEPT !.links = {l \in @ : SameUser(d, l)},
              !.tagSeq = IF SeqOf(d.tags) < @ THEN @ ELSE SeqOf(d.tags)]

Script(n, d) ==
    LET at == [d EXCEPT !.level = n]
    IN  CASE n = ContentText -> ContentTextScript(at)
          [] n = Search      -> SearchScript(at)
          [] n = ClientNames -> ClientNamesScript(at)
          [] n = SearchTitle -> SearchTitleScript(at)
          [] n = TagsPerUser -> TagsPerUserScript(at)
          [] OTHER           -> at

\* Mutant: a script that cannot be run on what it has already changed.
AcceptsOnce(n, d) == d.level < n

\* The copy a script makes meets the constraints of the new table.
Accepts(n, d) ==
    n = TagsPerUser => \A s, t \in d.tags :
                          s.user = t.user /\ s.label = t.label => s = t

NoTransaction == {TagsPerUser}

-----------------------------------------------------------------------------
(* The process.                                                            *)

Init ==
    /\ db = [level |-> 0, entries |-> {}, tags |-> {}, links |-> {},
             clients |-> {}, tokens |-> {}, fts |-> {},
             entrySeq |-> 0, tagSeq |-> 0]
    /\ applied = 0 /\ binary \in Scripts
    /\ phase = "down" /\ crashes = 0 /\ everTag = {}

\* A newer server is put in place of the one that was stopped.
Install(n) ==
    /\ phase = "down" /\ n > binary
    /\ binary' = n
    /\ UNCHANGED <<db, applied, phase, crashes, everTag>>

\* main: connect, then sqlx::migrate!(..).run(&pool).
Boot ==
    /\ phase = "down"
    /\ phase' = "migrating"
    /\ UNCHANGED <<db, applied, binary, crashes, everTag>>

\* A script and its record, in one transaction.
Migrate ==
    /\ phase = "migrating" /\ applied < binary
    /\ applied + 1 \notin NoTransaction /\ Accepts(applied + 1, db)
    /\ db' = Script(applied + 1, db)
    /\ applied' = applied + 1
    /\ UNCHANGED <<binary, phase, crashes, everTag>>

\* A script with a BEGIN and a COMMIT of its own, up to the COMMIT.
MigrateBare ==
    /\ phase = "migrating" /\ applied < binary
    /\ applied + 1 \in NoTransaction /\ Accepts(applied + 1, db)
    /\ db' = Script(applied + 1, db)
    /\ phase' = "unrecorded"
    /\ UNCHANGED <<applied, binary, crashes, everTag>>

Record ==
    /\ phase = "unrecorded"
    /\ applied' = applied + 1
    /\ phase' = "migrating"
    /\ UNCHANGED <<db, binary, crashes, everTag>>

\* http_server(..)?.await
Serve ==
    /\ phase = "migrating" /\ applied = binary
    /\ phase' = "serving"
    /\ UNCHANGED <<db, applied, binary, crashes, everTag>>

\* The server ends, pool.close() and main returns.
Stop ==
    /\ phase = "serving"
    /\ phase' = "down"
    /\ UNCHANGED <<db, applied, binary, crashes, everTag>>

\* A script whose copy does not fit: "Failed to run database migrations".
Refused == /\ phase = "migrating" /\ applied < binary
           /\ ~ Accepts(applied + 1, db)

\* The machine or the process stops, or main panics; a transaction that was
\* open is undone.
Crash ==
    /\ \/ phase # "down" /\ crashes < MaxCrashes
       \/ Refused
    /\ phase' = "down"
    /\ crashes' = IF crashes < MaxCrashes THEN crashes + 1 ELSE crashes
    /\ UNCHANGED <<db, applied, binary, everTag>>

-----------------------------------------------------------------------------
(* What a server does to the rows, as far as its schema lets it.           *)

Writes(d) == phase = "serving" /\ db' = d
             /\ UNCHANGED <<applied, binary, phase, crashes>>

Texts == IF db.level >= ContentText THEN Words ELSE {NoText}

AddEntry(u, w, t) ==
    LET e == [id |-> db.entrySeq + 1, user |-> u, title |-> w, text |-> t]
    IN  /\ db.entrySeq < MaxId /\ t \in Texts
        /\ Writes(Triggered([db EXCEPT !.entries = @ \cup {e},
                                       !.entrySeq = e.id], {}, {e}))
        /\ UNCHANGED everTag

UpdateEntry(e, w, t) ==
    LET n == [e EXCEPT !.title = w, !.text = t]
    IN  /\ t \in Texts /\ n # e
        /\ Writes(Triggered([db EXCEPT !.entries = (@ \ {e}) \cup {n}], {e}, {n}))
        /\ UNCHANGED everTag

DeleteEntry(e) ==
    /\ Writes(Triggered(Cascade([db EXCEPT !.entries = @ \ {e}]), {e}, {}))
    /\ UNCHANGED everTag

\* A label was UNIQUE for everybody before it was UNIQUE (user_id, label).
AddTag(u, b) ==
    LET t == [id |-> db.tagSeq + 1, user |-> u, label |-> b]
    IN  /\ db.tagSeq < MaxId
        /\ ~ \E s \in db.tags : /\ s.label = b
                                /\ db.level >= TagsPerUser => s.user = u
        /\ Writes([db EXCEPT !.tags = @ \cup {t}, !.tagSeq = t.id])
        /\ everTag' = everTag \cup {t}

DeleteTag(t) ==
    /\ Writes(Cascade([db EXCEPT !.tags = @ \ {t}]))
    /\ UNCHANGED everTag

\* entry_tags asks for the two rows only.  Since tags are per user the
\* server's queries link an entry with tags of its user (module EntryTables).
Link(e, t) ==
    /\ db.level >= TagsPerUser => e.user = t.user
    /\ Writes([db EXCEPT !.links = @ \cup {<<e.id, t.id>>}])
    /\ UNCHANGED everTag

\* A client of a user, and a refresh token for it.
AddClient(u) ==
    /\ Writes([db EXCEPT !.clients = @ \cup {u}])
    /\ UNCHANGED everTag

AddToken(u) ==
    /\ db.level >= RefreshToken /\ u \in db.clients
    /\ Writes([db EXCEPT !.tokens = @ \cup {u}])
    /\ UNCHANGED everTag

Write ==
    \/ \E u \in Users, w \in Words, t \in Words \cup {NoText} : AddEntry(u, w, t)
    \/ \E e \in db.entries, w \in Words, t \in Words \cup {NoText} : UpdateEntry(e, w, t)
    \/ \E e \in db.entries : DeleteEntry(e)
    \/ \E u \in Users, b \in Labels : AddTag(u, b)
    \/ \E t \in db.tags : DeleteTag(t)
    \/ \E e \in db.entries, t \in db.tags : Link(e, t)
    \/ \E u \in Registered : AddClient(u) \/ AddToken(u)

Start == Boot \/ Migrate \/ MigrateBare \/ Record \/ Serve

Next == (\E n \in Scripts : Install(n)) \/ Start \/ Stop \/ Crash \/ Write

\* Nothing but a crash keeps main from going on.  That it is started again after
\* one is assumed of the operator: the service of dist/alpine does not respawn.
Spec == Init /\ [][Next]_vars /\ WF_vars(Start)

-----------------------------------------------------------------------------
(* Properties.                                                             *)

\* From the per-user tags script on, every link joins an entry and a tag that
\* exist and are of one user, whatever an older server left behind
\* (20260728120000, lines 26-32).
LinksOfOneUser ==
    db.level >= TagsPerUser => \A l \in db.links : SameUser(db, l)

\* An id that has stood for a tag never stands for another one: what an API
\* client keeps of a tag it saw is about that tag or about none, across the
\* rebuild of the table and a second run of it after a crash (lines 6-7,
\* 34-36).
TagIdsNotReused ==
    \A s, t \in everTag : s.id = t.id => s = t

\* Under every schema that has a search, the index holds what it declares of
\* the entries there are: entries older than the index included (the
\* 'rebuild' of 20260313005121 and of 20260313102652).
SearchCoversOldEntries ==
    db.level >= Search => db.fts = {IndexRow(db.level, e) : e \in db.entries}

\* The server is reached again after every crash, also from between a
\* script's COMMIT and its record: no script gets stuck on what an older
\* schema allowed or on its own earlier run.
StartsAgain == (phase # "serving") ~> (phase = "serving" /\ applied = binary)

\* What the line "PRAGMA foreign_keys = OFF;" of 20260227020848 and of
\* 20260313100939 is there for: to rebuild a table is not to delete the rows
\* that refer to it.  A link between an entry and a tag of one user survives
\* every script, and so does the refresh token of a client.
UpgradeKeepsReferences ==
    [][db'.level > db.level =>
         /\ \A l \in db.links : SameUser(db, l) => l \in db'.links
         /\ db.tokens \subseteq db'.tokens]_vars

=============================================================================
