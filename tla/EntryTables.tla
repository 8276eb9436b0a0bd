---------------------------- MODULE EntryTables ----------------------------
(***************************************************************************)
(* The tables entries, tags and entry_tags with the full-text index        *)
(* entries_fts, and the statements of db::repository::entries and          *)
(* db::repository::tags as functions from one state of the tables to the   *)
(* next, foreign keys and triggers included.                               *)
(*                                                                         *)
(* Marks stands for the three pairs of columns a user can set and clear:   *)
(* is_archived with archived_at, is_starred with starred_at, is_public     *)
(* with uid.  A row keeps the flags in `marks` and the companions that are *)
(* not NULL in `dates`.  Columns no property tells apart are left out.     *)
(***************************************************************************)
EXTENDS Integers, Sequences

CONSTANTS
    Users,          \* rows of the table users
    Labels,         \* labels a user can give
    Slug,           \* slugify: [Labels -> slugs], not injective
    Texts,          \* titles, contents and extracted texts
    Marks,          \* the three pairs of columns
    MaxEntries,     \* bound: AUTOINCREMENT of entries stops here
    None            \* NULL, absence of a row, an update that is not asked

ASSUME SlugAssumption == Labels \subseteq DOMAIN Slug

ASSUME MaxEntriesAssumption == MaxEntries \in Nat

EntryIds == 1..MaxEntries

\* EntryRow.  origin_url is free text: some of it is not a URL.
Row == [owner : Users, title : Texts, content : Texts, text : Texts,
        marks : SUBSET Marks, dates : SUBSET Marks,
        origin : {None, "url", "malformed"}]

ASSUME NoRowAssumption == None \notin Row

\* TagRow; the slug of a tag is that of its label.
Tag == [id : Nat, owner : Users, label : Labels]

Tables == [entries : [EntryIds -> Row \cup {None}], entrySeq : 0..MaxEntries,
           tags : SUBSET Tag, tagSeq : Nat,
           links : SUBSET (EntryIds \X Nat),
           index : SUBSET (EntryIds \X Texts \X Texts)]

EmptyTables == [entries |-> [e \in EntryIds |-> None], entrySeq |-> 0,
                tags |-> {}, tagSeq |-> 0, links |-> {}, index |-> {}]

Owns(d, u, e) == d.entries[e] # None /\ d.entries[e].owner = u

\* What the index holds for one row.
Posting(e, row) == <<e, row.title, row.text>>

\* A row that is there and that Entry::try_from turns into a response.
Convertible(row) == row # None /\ row.origin # "malformed"

LabelsOf(ls) == {ls[i] : i \in 1..Len(ls)}

\* The tags of a user with one of these labels.
Named(d, u, ls) == {t \in d.tags : t.owner = u /\ t.label \in LabelsOf(ls)}

Ids(tags) == {t.id : t \in tags}

-----------------------------------------------------------------------------
(* entries *)

\* CreateEntry: the text is extracted from the content it comes with, the
\* timestamps and the uid are set where the flag is.
NewEntryRow(u, document, marks, origin) ==
    [owner |-> u, title |-> document, content |-> document, text |-> document,
     marks |-> marks, dates |-> marks, origin |-> origin]

\* INSERT INTO entries; the trigger entries_ai adds the row to the index.
InsertEntry(d, row) ==
    LET e == d.entrySeq + 1
    IN  [d EXCEPT !.entries = [@ EXCEPT ![e] = row],
                  !.entrySeq = e,
                  !.index = @ \cup {Posting(e, row)}]

\* Mutant: archiving sets the date, unarchiving forgets to reset it.
ApplyKeepingDates(row, c) ==
    [row EXCEPT !.title = IF c.title = None THEN @ ELSE c.title,
                !.content = IF c.content = None THEN @ ELSE c.content,
                !.marks = (@ \ c.clear) \cup c.set,
                !.dates = @ \cup c.set,
                !.origin = IF c.origin = None THEN @ ELSE c.origin]

\* UpdateEntry: None leaves a column alone; a flag moves with its companion.
\* No caller in the server sets content_text.
ApplyChange(row, c) ==
    [row EXCEPT !.title = IF c.title = None THEN @ ELSE c.title,
                !.content = IF c.content = None THEN @ ELSE c.content,
                !.marks = (@ \ c.clear) \cup c.set,
                !.dates = (@ \ c.clear) \cup c.set,
                !.origin = IF c.origin = None THEN @ ELSE c.origin]

\* Mutant: the trigger adds the new posting and leaves the old one.
ReindexAdding(index, e, old, new) == index \cup {Posting(e, new)}

\* The trigger entries_au: 'delete' the old values, insert the new ones.
Reindex(index, e, old, new) ==
    (index \ {Posting(e, old)}) \cup {Posting(e, new)}

\* UPDATE entries ... WHERE id = e AND user_id = u.  The trigger fires when
\* the statement names title or content_text.
UpdateEntry(d, u, e, c) ==
    IF ~Owns(d, u, e) THEN d
    ELSE LET old == d.entries[e]
             new == ApplyChange(old, c)
         IN  [d EXCEPT !.entries = [@ EXCEPT ![e] = new],
                       !.index = IF c.title = None THEN @
                                 ELSE Reindex(@, e, old, new)]

\* DELETE FROM entries WHERE id = e AND user_id = u: entry_tags cascades, the
\* trigger entries_ad takes the row out of the index.
DeleteEntry(d, u, e) ==
    IF ~Owns(d, u, e) THEN d
    ELSE [d EXCEPT !.entries = [@ EXCEPT ![e] = None],
                   !.links = {l \in @ : l[1] # e},
                   !.index = @ \ {Posting(e, d.entries[e])}]

-----------------------------------------------------------------------------
(* tags and entry_tags *)

\* The positions of a list of labels that become new tags: INSERT runs in
\* order and skips a label whose slug the user already has.  Equal labels
\* have equal slugs, so the constraint on labels adds nothing.
NewPositions(d, u, ls) ==
    {i \in 1..Len(ls) :
        /\ \A t \in d.tags : t.owner = u => Slug[t.label] # Slug[ls[i]]
        /\ \A j \in 1..(i - 1) : Slug[ls[j]] # Slug[ls[i]]}

\* INSERT INTO tags ... ON CONFLICT DO NOTHING; AUTOINCREMENT hands out a
\* number to every label, to the skipped ones too.
InsertTags(d, u, ls) ==
    [d EXCEPT !.tags = @ \cup {[id |-> d.tagSeq + i, owner |-> u, label |-> ls[i]]
                                  : i \in NewPositions(d, u, ls)},
              !.tagSeq = @ + Len(ls)]

\* Mutant: the tags are looked up by label only.
LinkTagsOfAnyone(d, u, e, ls) ==
    IF ~Owns(d, u, e) THEN d
    ELSE [d EXCEPT !.links = @ \cup ({e} \X Ids({t \in d.tags : t.label \in LabelsOf(ls)}))]

\* INSERT INTO entry_tags SELECT the user's tags with these labels.
LinkTags(d, u, e, ls) ==
    IF ~Owns(d, u, e) THEN d
    ELSE [d EXCEPT !.links = @ \cup ({e} \X Ids(Named(d, u, ls)))]

\* DELETE FROM entry_tags the links of e to other tags than these.
TrimTags(d, u, e, ls) ==
    IF ~Owns(d, u, e) THEN d
    ELSE [d EXCEPT !.links = {l \in @ : l[1] = e => l[2] \in Ids(Named(d, u, ls))}]

\* entries::delete_tag_by_tag_id.
Untag(d, u, e, t) ==
    IF ~Owns(d, u, e) THEN d
    ELSE [d EXCEPT !.links = @ \ {<<e, t>>}]

\* DELETE FROM tags; entry_tags cascades.
DeleteTags(d, gone) ==
    [d EXCEPT !.tags = @ \ gone,
              !.links = {l \in @ : l[2] \notin Ids(gone)}]

\* find_by_id and Entry::try_from: the row and the tags linked to it, or an
\* error when there is no row or it cannot be converted.
Show(d, e) ==
    IF Convertible(d.entries[e])
    THEN [status |-> "shown", row |-> d.entries[e],
          tags |-> {t \in d.tags : <<e, t.id>> \in d.links}]
    ELSE [status |-> "error"]

\* DeleteEntryResponse::Id.
DeletedId(e) == [status |-> "deleted", entry |-> e]

Replies == [status : {"shown"}, row : Row, tags : SUBSET Tag]
           \cup [status : {"deleted"}, entry : EntryIds]
           \cup [status : {"error"}]

-----------------------------------------------------------------------------
(* What the tables must satisfy *)

\* A link joins an entry and a tag of one user.
LinksJoinOneOwner(d) ==
    \A l \in d.links : \E t \in d.tags :
        /\ t.id = l[2]
        /\ Owns(d, t.owner, l[1])

\* The index holds exactly the titles and texts of the rows.
IndexMirrors(d) ==
    d.index = {Posting(e, d.entries[e]) : e \in {i \in EntryIds : d.entries[i] # None}}

\* A flag is set exactly when its companion is.
MarksDated(d) ==
    \A e \in EntryIds : d.entries[e] # None => d.entries[e].marks = d.entries[e].dates
=============================================================================
