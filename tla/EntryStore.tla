---------------------------- MODULE EntryStore ----------------------------
(***************************************************************************)
(* The requests that change articles: the handlers of /api/entries and     *)
(* /api/entries/{id}/tags run one statement after another in a transaction *)
(* each, while the web UI and /api/tags write with single statements and   *)
(* other parts of the server commit to the same database.                  *)
(*                                                                         *)
(* `db` is what is committed.  The one transaction that holds the write    *)
(* lock works on `draft`, which nobody else sees.  A transaction that has  *)
(* only read works on the snapshot of its first SELECT: it may write only  *)
(* if nothing was committed since, so the snapshot is then `db`.           *)
(***************************************************************************)
EXTENDS EntryTables

CONSTANTS
    Requests,           \* requests the server handles at the same time
    LabelLists,         \* bound: the lists of labels requests carry
    Changes,            \* bound: the updates requests carry
    Asked,              \* bound: the requests that are made
    Overlapping,        \* bound: those of them that run beside each other
    MaxTagSeq,          \* bound: AUTOINCREMENT of tags stops here
    TagLimit            \* SQLITE_LIMIT_VARIABLE_NUMBER / 3

ASSUME ListsAssumption == LabelLists \subseteq Seq(Labels)

ASSUME ChangesAssumption ==
    Changes \subseteq [title : Texts \cup {None}, content : Texts \cup {None},
                       set : SUBSET Marks, clear : SUBSET Marks,
                       origin : {None, "url", "malformed"}]

VARIABLES
    db,         \* the committed tables
    draft,      \* the tables as the holder of the write lock sees them
    lock,       \* the request that holds the write lock
    stale,      \* requests whose open snapshot is out of date
    pc,         \* the statement each request is at
    req,        \* what each request asks
    read,       \* the entry a delete_full read before it deletes
    reply       \* what a committed request answers, until it is sent

vars == <<db, draft, lock, stale, pc, req, read, reply>>

-----------------------------------------------------------------------------
(* Requests *)

\* post_entries, and do_add of the web UI with no mark, label or origin.
CreateRequests ==
    [op : {"create"}, user : Users, labels : LabelLists,
     document : Texts, marks : SUBSET Marks, origin : {None, "url", "malformed"}]

\* patch_entry; labels is None when the body has no tags.
PatchRequests ==
    [op : {"patch"}, user : Users, entry : EntryIds, change : Changes,
     labels : LabelLists \cup {None}]

\* post_entry_tags.
TagRequests == [op : {"tags"}, user : Users, entry : EntryIds, labels : LabelLists]

\* delete_tag_from_entry.
UntagRequests == [op : {"untag"}, user : Users, entry : EntryIds, tag : 1..MaxTagSeq]

\* delete_entry; `full` answers with the entry that is gone.
DeleteRequests == [op : {"delete_id", "delete_full"}, user : Users, entry : EntryIds]

AllRequests ==
    CreateRequests \cup PatchRequests \cup TagRequests \cup UntagRequests \cup DeleteRequests

ASSUME NoneAssumption ==
    None \notin Requests \cup LabelLists /\ None \notin Tables /\ None \notin Replies

ASSUME AskedAssumption == Asked \subseteq AllRequests /\ Overlapping \subseteq Asked

\* The first statement of each handler.
FirstStatement(q) ==
    CASE q.op = "create" -> "insert"
      [] q.op = "patch" -> "update"
      [] q.op = "delete_id" -> "delete"
      [] q.op \in {"tags", "untag", "delete_full"} -> "find"

\* create_and_link returns early for an empty list.
TagStatement(ls, empty) == IF ls = <<>> THEN empty ELSE "insert_tags"

Statements == {"find", "insert", "update", "delete", "insert_tags", "link_tags",
               "trim_tags", "untag", "answer"}

\* The entry a request is about.
Target(r) == IF req[r].op = "create" THEN draft.entrySeq ELSE req[r].entry

-----------------------------------------------------------------------------
(* Transactions *)

\* Requests that have read and not yet written.
Readers ==
    {r \in Requests : /\ pc[r] \notin {"idle", "find", "respond"}
                      /\ req[r].op \in {"tags", "untag", "delete_full"}
                      /\ lock # r}

\* The tables as r sees them.
Seen(r) == IF lock = r THEN draft ELSE db

\* For a mutant: a write that is not tied to the snapshot of a reader.
WriteUnfenced(r, tables, next) ==
    /\ lock \in {None, r}
    /\ lock' = r
    /\ draft' = tables
    /\ pc' = [pc EXCEPT ![r] = next]
    /\ UNCHANGED <<db, stale, req, read, reply>>

\* r writes and goes on to another statement.
Write(r, tables, next) ==
    /\ lock = r \/ (lock = None /\ r \notin stale)
    /\ lock' = r
    /\ draft' = tables
    /\ pc' = [pc EXCEPT ![r] = next]
    /\ UNCHANGED <<db, stale, req, read, reply>>

\* A commit leaves the snapshots of readers behind, unless it changed nothing.
CommitTables(tables, readers) ==
    /\ db' = tables
    /\ \/ stale' = stale \cup readers
       \/ db' = db /\ UNCHANGED stale

\* r is over without effect: 404, a failure, a lost connection.
Fail(r) ==
    /\ pc' = [pc EXCEPT ![r] = "idle"]
    /\ req' = [req EXCEPT ![r] = None]
    /\ read' = [read EXCEPT ![r] = None]
    /\ lock' = IF lock = r THEN None ELSE lock
    /\ draft' = IF lock = r THEN None ELSE draft
    /\ stale' = stale \ {r}
    /\ UNCHANGED <<db, reply>>

-----------------------------------------------------------------------------
(* The statements of the handlers *)

Start(r, q) ==
    /\ pc[r] = "idle"
    /\ \A p \in Requests : pc[p] # "idle" => {q, req[p]} \subseteq Overlapping
    /\ pc' = [pc EXCEPT ![r] = FirstStatement(q)]
    /\ req' = [req EXCEPT ![r] = q]
    /\ UNCHANGED <<db, draft, lock, stale, read, reply>>

\* exists_by_id or find_by_id: the snapshot of the transaction is taken.
Find(r) ==
    /\ pc[r] = "find"
    /\ Owns(db, req[r].user, req[r].entry)
    /\ pc' = [pc EXCEPT ![r] =
                 CASE req[r].op = "tags" -> TagStatement(req[r].labels, "trim_tags")
                   [] req[r].op = "untag" -> "untag"
                   [] req[r].op = "delete_full" -> "delete"]
    /\ read' = [read EXCEPT ![r] =
                   IF req[r].op = "delete_full" THEN Show(db, req[r].entry) ELSE None]
    /\ UNCHANGED <<db, draft, lock, stale, req, reply>>

\* No row, or nothing updated or deleted: the transaction ends, the answer
\* is 404.
NotFound(r) ==
    /\ pc[r] \in {"find", "update", "delete"}
    /\ pc[r] = "find" \/ (lock = None /\ r \notin Readers)
    /\ ~Owns(db, req[r].user, req[r].entry)
    /\ Fail(r)

\* entries::create.
Insert(r) ==
    LET q == req[r] IN
    /\ pc[r] = "insert"
    /\ db.entrySeq < MaxEntries
    /\ Write(r, InsertEntry(db, NewEntryRow(q.user, q.document, q.marks, q.origin)),
             TagStatement(q.labels, "answer"))

\* entries::update_by_id, then update_tags_by_entry_id if there are tags.
Update(r) ==
    LET q == req[r] IN
    /\ pc[r] = "update"
    /\ Owns(db, q.user, q.entry)
    /\ Write(r, UpdateEntry(db, q.user, q.entry, q.change),
             IF q.labels = None THEN "answer" ELSE TagStatement(q.labels, "trim_tags"))

\* Mutant: the entry is read on the pool and not in the transaction.
DeleteOutsideTx(r) ==
    LET q == req[r] IN
    /\ pc[r] = "delete"
    /\ Owns(db, q.user, q.entry)
    /\ WriteUnfenced(r, DeleteEntry(db, q.user, q.entry), "answer")

\* entries::delete_by_id.
Delete(r) ==
    LET q == req[r] IN
    /\ pc[r] = "delete"
    /\ Owns(db, q.user, q.entry)
    /\ Write(r, DeleteEntry(db, q.user, q.entry), "answer")

\* create_and_link: the tags that are missing ...
InsertNewTags(r) ==
    LET q == req[r] IN
    /\ pc[r] = "insert_tags"
    /\ Len(q.labels) <= TagLimit
    /\ Seen(r).tagSeq + Len(q.labels) <= MaxTagSeq
    /\ Write(r, InsertTags(Seen(r), q.user, q.labels), "link_tags")

TooManyTags(r) ==
    /\ pc[r] = "insert_tags"
    /\ Len(req[r].labels) > TagLimit
    /\ Fail(r)

\* ... and the links.  Only a new entry keeps the links it has.
Link(r) ==
    LET q == req[r] IN
    /\ pc[r] = "link_tags"
    /\ Write(r, LinkTags(draft, q.user, Target(r), q.labels),
             IF q.op = "create" THEN "answer" ELSE "trim_tags")

\* update_tags_by_entry_id: the links that were not asked for.
Trim(r) ==
    LET q == req[r] IN
    /\ pc[r] = "trim_tags"
    /\ Write(r, TrimTags(Seen(r), q.user, q.entry, q.labels), "answer")

DeleteLink(r) ==
    LET q == req[r] IN
    /\ pc[r] = "untag"
    /\ Write(r, Untag(db, q.user, q.entry, q.tag), "answer")

\* What the handler answers: the entry as the transaction leaves it, as it
\* was for a deletion, an error when the row cannot be converted.
Answer(r) ==
    CASE req[r].op = "delete_id" -> DeletedId(req[r].entry)
      [] req[r].op = "delete_full" -> read[r]
      [] req[r].op \notin {"delete_id", "delete_full"} -> Show(draft, Target(r))

Answerable(r) == Answer(r).status # "error"

\* Mutant: commit first, convert the row for the response afterwards.
CommitBeforeAnswer(r) ==
    /\ pc[r] = "answer"
    /\ CommitTables(draft, Readers)
    /\ reply' = [reply EXCEPT ![r] = Answer(r)]
    /\ pc' = [pc EXCEPT ![r] = "respond"]
    /\ lock' = None
    /\ draft' = None
    /\ read' = [read EXCEPT ![r] = None]
    /\ UNCHANGED req

\* Every handler but post_entries converts the row before it commits.
Commit(r) ==
    /\ pc[r] = "answer"
    /\ req[r].op = "create" \/ Answerable(r)
    /\ CommitTables(draft, Readers)
    /\ reply' = [reply EXCEPT ![r] = Answer(r)]
    /\ pc' = [pc EXCEPT ![r] = "respond"]
    /\ lock' = None
    /\ draft' = None
    /\ read' = [read EXCEPT ![r] = None]
    /\ UNCHANGED req

AnswerFails(r) ==
    /\ pc[r] = "answer"
    /\ req[r].op # "create"
    /\ ~Answerable(r)
    /\ Fail(r)

Respond(r) ==
    /\ pc[r] = "respond"
    /\ pc' = [pc EXCEPT ![r] = "idle"]
    /\ req' = [req EXCEPT ![r] = None]
    /\ reply' = [reply EXCEPT ![r] = None]
    /\ UNCHANGED <<db, draft, lock, stale, read>>

\* A reader cannot write: SQLITE_BUSY or SQLITE_BUSY_SNAPSHOT, at once.
UpgradeRefused(r) ==
    /\ r \in Readers
    /\ lock # None \/ r \in stale
    /\ Fail(r)

\* A busy timeout, a failing statement, a lost connection, a restart: what
\* is not committed is rolled back.
Abort(r) ==
    /\ pc[r] \notin {"idle", "respond"}
    /\ Fail(r)

-----------------------------------------------------------------------------
(* Writers of a single statement *)

Autocommit(tables) ==
    /\ lock = None
    /\ CommitTables(tables, Readers)
    /\ UNCHANGED <<draft, lock, pc, req, read, reply>>

\* do_archive, do_favourite and do_edit_title: one flag or the title.
UiChanges ==
    {c \in Changes : /\ c.content = None /\ c.origin = None
                     /\ \/ c.title # None /\ c.set = {} /\ c.clear = {}
                        \/ c.title = None /\ \E m \in Marks : c.set \cup c.clear = {m}}

UiUpdate(u, e, c) ==
    /\ Owns(db, u, e)
    /\ Autocommit(UpdateEntry(db, u, e, c))

\* do_delete.
UiDelete(u, e) ==
    /\ Owns(db, u, e)
    /\ Autocommit(DeleteEntry(db, u, e))

\* delete_tag_by_label and delete_tags_by_label.
DeleteTagsByLabel(u, ls) ==
    /\ Named(db, u, ls) # {}
    /\ Autocommit(DeleteTags(db, Named(db, u, ls)))

\* delete_tag_by_id.
DeleteTagById(t) ==
    /\ t \in db.tags
    /\ Autocommit(DeleteTags(db, {t}))

\* Anybody else commits to other tables: tokens, clients, users.
OtherCommit == Readers # {} /\ Autocommit(db)

-----------------------------------------------------------------------------
Init ==
    /\ db = EmptyTables
    /\ draft = None
    /\ lock = None
    /\ stale = {}
    /\ pc = [r \in Requests |-> "idle"]
    /\ req = [r \in Requests |-> None]
    /\ read = [r \in Requests |-> None]
    /\ reply = [r \in Requests |-> None]

\* The next statement of a request that is under way.
Handler(r) ==
    \/ Find(r) \/ NotFound(r)
    \/ Insert(r) \/ Update(r) \/ Delete(r) \/ DeleteLink(r)
    \/ InsertNewTags(r) \/ TooManyTags(r) \/ Link(r) \/ Trim(r)
    \/ Commit(r) \/ AnswerFails(r) \/ Respond(r) \/ UpgradeRefused(r)

Next ==
    \/ \E r \in Requests : Handler(r) \/ Abort(r)
    \/ \E r \in Requests, q \in Asked : Start(r, q)
    \/ \E u \in Users, e \in EntryIds :
          UiDelete(u, e) \/ \E c \in UiChanges : UiUpdate(u, e, c)
    \/ \E u \in Users, ls \in LabelLists : DeleteTagsByLabel(u, ls)
    \/ \E t \in db.tags : DeleteTagById(t)
    \/ OtherCommit

Spec == Init /\ [][Next]_vars

-----------------------------------------------------------------------------
(* Properties *)

\* The tables, the draft and the requests have the shape of the schema and
\* of the handlers' parameters.
TypeOK ==
    /\ db \in Tables
    /\ draft \in Tables \cup {None}
    /\ lock \in Requests \cup {None}
    /\ stale \in SUBSET Requests
    /\ pc \in [Requests -> Statements \cup {"idle", "respond"}]
    /\ req \in [Requests -> AllRequests \cup {None}]
    /\ read \in [Requests -> Replies \cup {None}]
    /\ reply \in [Requests -> Replies \cup {None}]

\* No link joins an entry with a tag that is gone, was replaced by another
\* of the same label, or belongs to another user.
OneOwner == LinksJoinOneOwner(db)

\* Search sees every row as it is stored: triggers, cascades and rollbacks
\* keep entries_fts in step with title and content_text.
SearchMirrorsEntries == IndexMirrors(db)

\* An article is archived, starred or public exactly when archived_at,
\* starred_at or uid says so, whichever of the API and the UI wrote last.
FlagsMatchDates == MarksDated(db)

\* A row the API can show stays one: an update whose row cannot be converted
\* is rolled back.  (A row that cannot be shown fails every listing it is in.)
UpdatesStayConvertible ==
    [][\A e \in EntryIds :
          db.entries[e] # None /\ Convertible(db.entries[e]) /\ db.entries'[e] # None
              => Convertible(db.entries'[e])]_vars

\* The statements of the handlers and of the UI implement the atomic
\* operations of EntryService, and a committed request is answered with the
\* article as its own commit left it.
Service == INSTANCE EntryService WITH
    entries <- db.entries, tags <- db.tags, links <- db.links, index <- db.index

ImplementsService == Service!Spec

\* tags.rs: create_and_link returns the tags that are linked, "ALL tags".
\* Violated when two labels of a user have one slug.
AllTagsLinked ==
    [][\A r \in Requests :
          Commit(r) /\ req[r].op = "tags" =>
              {t.label : t \in reply'[r].tags} = LabelsOf(req[r].labels)]_vars
=============================================================================
