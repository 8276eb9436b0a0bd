-------------------------- MODULE MigrationsProofs --------------------------
(***************************************************************************)
(* The properties of Migrations for any rows and any moment of a crash.    *)
(*                                                                         *)
(* Every script takes rows the schema of its level permits to rows the     *)
(* next one permits (DbInv), and so does every use of the database between *)
(* two scripts.  Only the script that runs outside a transaction can be    *)
(* ahead of its record (PhaseInv); it is done a second time after a crash  *)
(* and accepts what it left.  Ids of tags are numbered in everTag, so that *)
(* a rebuild which forgot the sequence would give one out again.           *)
(***************************************************************************)
EXTENDS Migrations, WellFoundedInduction, TLAPS

LEMMA IdsAreNumbers ==
    MaxId \in Nat /\ \A i \in Ids : i \in Nat /\ i <= MaxId /\ MaxId - i \in Nat
  BY MigrationsAssumption DEF Ids

\* A set of ids has a largest one: the smallest distance to the bound.
LEMMA LargestId ==
    ASSUME NEW S \in SUBSET Ids, S # {}
    PROVE  \E i \in S : \A j \in S : j <= i
<1> DEFINE T == {MaxId - i : i \in S}
           R == OpToRel(<, Nat)
<1>1. IsWellFoundedOn(R, Nat)
  BY NatLessThanWellFounded
<1>2. T \subseteq Nat /\ T # {}
  BY IdsAreNumbers
<1> HIDE DEF R
<1>3. PICK x \in T : \A y \in T : ~ (<<y, x>> \in R)
  BY <1>1, <1>2, WFMin
<1>4. PICK i \in S : x = MaxId - i
  OBVIOUS
<1>5. ASSUME NEW j \in S PROVE j <= i
  <2>1. MaxId - j \in T /\ ~ (<<MaxId - j, x>> \in R)
    BY <1>3
  <2>2. ~ (MaxId - j < x)
    BY <1>2, <2>1 DEF R, OpToRel
  <2> QED
    BY <1>4, <2>2, IdsAreNumbers
<1> QED
  BY <1>5

LEMMA SeqOfRows ==
    ASSUME NEW rows, \A r \in rows : r.id \in Ids
    PROVE  /\ SeqOf(rows) \in 0..MaxId
           /\ \A r \in rows : r.id <= SeqOf(rows)
           /\ rows # {} => \E r \in rows : r.id = SeqOf(rows)
<1> DEFINE S == {r.id : r \in rows}
<1>1. CASE rows = {}
  BY <1>1, IdsAreNumbers DEF SeqOf
<1>2. CASE rows # {}
  <2>1. PICK i \in S : \A j \in S : j <= i
    <3>1. S \in SUBSET Ids /\ S # {}
      BY <1>2
    <3> HIDE DEF S
    <3> QED
      BY <3>1, LargestId
  <2>2. \E k \in S : \A r \in rows : r.id <= k
    BY <2>1
  <2>3. SeqOf(rows) \in S /\ \A r \in rows : r.id <= SeqOf(rows)
    BY <1>2, <2>2 DEF SeqOf
  <2> QED
    BY <2>3, IdsAreNumbers
<1> QED
  BY <1>1, <1>2

-----------------------------------------------------------------------------
(* The invariant.                                                          *)

Entry == [id : Ids, user : Users, title : Words, text : Words \cup {NoText}]
Tag   == [id : Ids, user : Users, label : Labels]

Fields == {"level", "entries", "tags", "links", "clients", "tokens", "fts",
           "entrySeq", "tagSeq"}

Typed(d) ==
    /\ DOMAIN d = Fields
    /\ d.level \in 0..Indexes
    /\ d.entries \subseteq Entry /\ d.tags \subseteq Tag
    /\ d.links \subseteq Ids \X Ids
    /\ d.clients \subseteq Users /\ d.tokens \subseteq Users
    /\ d.entrySeq \in 0..MaxId /\ d.tagSeq \in 0..MaxId

\* Ids are given out in order and stand for one row.
Numbered(rows, seq) ==
    /\ \A r \in rows : r.id <= seq
    /\ \A r, s \in rows : r.id = s.id => r = s

\* The constraint UNIQUE of the tags, before and after they are per user.
UniqueLabels(level, tags) ==
    \A s, t \in tags : /\ s.label = t.label
                       /\ level >= TagsPerUser => s.user = t.user
                       => s = t

Linked(d) == d.level >= TagsPerUser => \A l \in d.links : SameUser(d, l)

Indexed(d) == d.level >= Search => d.fts = {IndexRow(d.level, e) : e \in d.entries}

DbInv(d) ==
    /\ Typed(d)
    /\ Numbered(d.entries, d.entrySeq) /\ Numbered(d.tags, d.tagSeq)
    /\ UniqueLabels(d.level, d.tags) /\ Linked(d) /\ Indexed(d)

\* Only the script that runs without a transaction can be ahead of its record.
PhaseInv ==
    /\ applied \in 0..Indexes /\ binary \in Scripts /\ crashes \in 0..MaxCrashes
    /\ phase \in {"down", "migrating", "unrecorded", "serving"}
    /\ db.level = applied \/ (applied = SearchTitle /\ db.level = TagsPerUser)
    /\ phase = "unrecorded" => applied = SearchTitle /\ db.level = TagsPerUser

TagsInv == db.tags \subseteq everTag /\ everTag \subseteq Tag /\ Numbered(everTag, db.tagSeq)

IInv == DbInv(db) /\ PhaseInv /\ TagsInv

-----------------------------------------------------------------------------
(* Fields.                                                                 *)

\* Two states of the database agree on all fields but some.
Alike(c, d, but) == DOMAIN c = Fields /\ \A f \in Fields \ but : c[f] = d[f]

LEMMA CascadeFields ==
    ASSUME NEW d, DOMAIN d = Fields
    PROVE  /\ Alike(Cascade(d), d, {"links", "tokens"})
           /\ Cascade(d).links = {l \in d.links : /\ \E e \in d.entries : e.id = l[1]
                                                  /\ \E t \in d.tags : t.id = l[2]}
           /\ Cascade(d).tokens = d.tokens \cap d.clients
  BY DEF Alike, Cascade, Fields

LEMMA RebuildFields ==
    ASSUME NEW d, DOMAIN d = Fields
    PROVE  /\ Alike(Rebuild(d), d, {"fts"})
           /\ Rebuild(d).fts = {IndexRow(d.level, e) : e \in d.entries}
  BY DEF Alike, Rebuild, Fields

LEMMA TriggeredFields ==
    ASSUME NEW d, DOMAIN d = Fields, d.level \in Nat, NEW old, NEW new
    PROVE  /\ Alike(Triggered(d, old, new), d, {"fts"})
           /\ d.level >= Search =>
                Triggered(d, old, new).fts =
                    (d.fts \ {IndexRow(d.level, e) : e \in old})
                        \cup {IndexRow(d.level, e) : e \in new}
<1> DEFINE changed == [d EXCEPT !.fts = (@ \ {IndexRow(d.level, e) : e \in old})
                                        \cup {IndexRow(d.level, e) : e \in new}]
<1>1. CASE d.level < Search
  BY <1>1 DEF Alike, Triggered, Search
<1>2. CASE ~ (d.level < Search)
  <2>1. Triggered(d, old, new) = changed
    BY <1>2 DEF Triggered
  <2>2. Alike(changed, d, {"fts"})
        /\ changed.fts = (d.fts \ {IndexRow(d.level, e) : e \in old})
                              \cup {IndexRow(d.level, e) : e \in new}
    BY DEF Alike, Fields
  <2> QED
    BY <2>1, <2>2
<1> QED
  BY <1>1, <1>2

\* A script changes the level of the schema first.
LEMMA LevelFields ==
    ASSUME NEW d, DOMAIN d = Fields, NEW n
    PROVE  Alike([d EXCEPT !.level = n], d, {"level"}) /\ [d EXCEPT !.level = n].level = n
  BY DEF Alike, Fields

\* The index rows of different entries differ, and newer schemas change none but
\* in the script that builds the index anew.
LEMMA IndexRows ==
    ASSUME NEW level \in Nat
    PROVE  /\ \A d, e : IndexRow(level, d) = IndexRow(level, e) => d.id = e.id
           /\ \A e : level # 5 => IndexRow(level + 1, e) = IndexRow(level, e)
<1>1. CASE level >= SearchTitle
  BY <1>1 DEF IndexRow, SearchTitle
<1>2. CASE ~ (level >= SearchTitle)
  BY <1>2 DEF IndexRow, SearchTitle
<1> QED
  BY <1>1, <1>2

-----------------------------------------------------------------------------
(* The scripts.                                                            *)

\* What a script does to the rows: tags stay, and no id becomes free again.
Kept(c, d) == c.level = d.level /\ c.tags = d.tags /\ c.tagSeq = d.tagSeq

LEMMA ContentTextKeeps ==
    ASSUME NEW d, DbInv(d), d.level = ContentText
    PROVE  DbInv(ContentTextScript(d)) /\ Kept(ContentTextScript(d), d)
<1> DEFINE emptied == [d EXCEPT !.entries = {}]
           dropped == Cascade(emptied)
           copy    == {[e EXCEPT !.text = NoText] : e \in d.entries}
           c       == [dropped EXCEPT !.entries = copy, !.entrySeq = SeqOf(d.entries)]
<1>0. DOMAIN d = Fields
  BY DEF DbInv, Typed
<1>1. Alike(emptied, d, {"entries"})
  BY <1>0 DEF Alike, Fields
<1>2. Alike(dropped, emptied, {"links", "tokens"}) /\ dropped.links \subseteq d.links
      /\ dropped.tokens \subseteq d.tokens
  BY <1>1, CascadeFields DEF Alike, Fields
<1>3. Alike(c, dropped, {"entries", "entrySeq"}) /\ c.entries = copy
      /\ c.entrySeq = SeqOf(d.entries)
  BY <1>2 DEF Alike, Fields
<1>4. ContentTextScript(d) = c
  BY DEF ContentTextScript
<1> HIDE DEF emptied, dropped, c
<1>5. /\ DOMAIN c = Fields /\ c.level = 3 /\ c.entries = copy /\ c.tags = d.tags
      /\ c.links \subseteq d.links /\ c.clients = d.clients /\ c.tokens \subseteq d.tokens
      /\ c.entrySeq = SeqOf(d.entries) /\ c.tagSeq = d.tagSeq
  BY <1>1, <1>2, <1>3 DEF Alike, Fields, ContentText
<1>6. /\ copy \subseteq Entry
      /\ \A r \in copy : \E e \in d.entries : r = [e EXCEPT !.text = NoText] /\ r.id = e.id
  BY DEF DbInv, Typed, Entry
<1>7. SeqOf(d.entries) \in 0..MaxId /\ \A e \in d.entries : e.id <= SeqOf(d.entries)
  BY SeqOfRows DEF DbInv, Typed, Entry
<1> HIDE DEF copy
<1>8. Numbered(copy, SeqOf(d.entries))
  BY <1>6, <1>7 DEF Numbered, DbInv
<1>9. Typed(c)
  BY <1>5, <1>6, <1>7 DEF Typed, DbInv, Indexes
<1>10. Linked(c) /\ Indexed(c)
  BY <1>5 DEF Linked, Indexed, TagsPerUser, Search
<1>11. UniqueLabels(c.level, c.tags)
  BY <1>5 DEF DbInv, ContentText
<1> QED
  BY <1>4, <1>5, <1>8, <1>9, <1>10, <1>11 DEF DbInv, Kept, ContentText

\* What holds of the rows whatever the schema says of links and index.
RowsInv(d) ==
    /\ Typed(d)
    /\ Numbered(d.entries, d.entrySeq) /\ Numbered(d.tags, d.tagSeq)
    /\ UniqueLabels(d.level, d.tags)

LEMMA SearchKeeps ==
    ASSUME NEW d, RowsInv(d), d.level \in {Search, SearchTitle}, NEW c,
           c = SearchScript(d) \/ c = SearchTitleScript(d)
    PROVE  DbInv(c) /\ Kept(c, d)
<1>1. PICK b : Alike(b, d, {"fts"}) /\ c = Rebuild(b)
  <2>1. Alike(d, d, {"fts"}) /\ Alike([d EXCEPT !.fts = {}], d, {"fts"})
    BY DEF Alike, RowsInv, Typed, Fields
  <2> QED
    BY <2>1 DEF SearchScript, SearchTitleScript
<1>2. Alike(c, b, {"fts"}) /\ c.fts = {IndexRow(b.level, e) : e \in b.entries}
  BY <1>1, RebuildFields DEF Alike
<1>3. /\ DOMAIN c = Fields /\ c.level = d.level /\ c.entries = d.entries /\ c.tags = d.tags
      /\ c.links = d.links /\ c.clients = d.clients /\ c.tokens = d.tokens
      /\ c.entrySeq = d.entrySeq /\ c.tagSeq = d.tagSeq
      /\ c.fts = {IndexRow(c.level, e) : e \in c.entries}
  BY <1>1, <1>2 DEF Alike, Fields
<1>4. RowsInv(c)
  BY <1>3 DEF RowsInv, Typed
<1>5. Linked(c) /\ Indexed(c)
  BY <1>3 DEF Linked, Indexed, TagsPerUser, Search, SearchTitle
<1> QED
  BY <1>3, <1>4, <1>5 DEF DbInv, RowsInv, Kept

LEMMA ClientNamesKeeps ==
    ASSUME NEW d, RowsInv(d), Indexed(d), d.level = ClientNames
    PROVE  DbInv(ClientNamesScript(d)) /\ Kept(ClientNamesScript(d), d)
<1> DEFINE emptied == [d EXCEPT !.clients = {}]
           dropped == Cascade(emptied)
           c       == [dropped EXCEPT !.clients = d.clients]
<1>0. DOMAIN d = Fields
  BY DEF RowsInv, Typed
<1>1. Alike(emptied, d, {"clients"})
  BY <1>0 DEF Alike, Fields
<1>2. Alike(dropped, emptied, {"links", "tokens"}) /\ dropped.links \subseteq d.links
      /\ dropped.tokens \subseteq d.tokens
  BY <1>1, CascadeFields DEF Alike, Fields
<1>3. Alike(c, dropped, {"clients"}) /\ c.clients = d.clients
  BY <1>2 DEF Alike, Fields
<1>4. ClientNamesScript(d) = c
  BY DEF ClientNamesScript
<1> HIDE DEF emptied, dropped, c
<1>5. /\ DOMAIN c = Fields /\ c.level = d.level /\ c.entries = d.entries /\ c.tags = d.tags
      /\ c.links \subseteq d.links /\ c.clients = d.clients /\ c.tokens \subseteq d.tokens
      /\ c.fts = d.fts /\ c.entrySeq = d.entrySeq /\ c.tagSeq = d.tagSeq
  BY <1>1, <1>2, <1>3 DEF Alike, Fields
<1>6. RowsInv(c)
  BY <1>5 DEF RowsInv, Typed
<1>7. Linked(c) /\ Indexed(c)
  BY <1>5 DEF Linked, Indexed, TagsPerUser, ClientNames, Search
<1> QED
  BY <1>4, <1>5, <1>6, <1>7 DEF DbInv, RowsInv, Kept

LEMMA TagsPerUserKeeps ==
    ASSUME NEW d, RowsInv(d), Indexed(d), d.level = TagsPerUser
    PROVE  DbInv(TagsPerUserScript(d)) /\ Kept(TagsPerUserScript(d), d)
<1> DEFINE c == TagsPerUserScript(d)
<1>1. /\ Alike(c, d, {"links", "tagSeq"})
      /\ c.links = {l \in d.links : SameUser(d, l)}
      /\ c.tagSeq = IF SeqOf(d.tags) < d.tagSeq THEN d.tagSeq ELSE SeqOf(d.tags)
  BY DEF RowsInv, Typed, Alike, Fields, TagsPerUserScript
<1> HIDE DEF c
<1>2. SeqOf(d.tags) \in 0..MaxId /\ d.tagSeq \in 0..MaxId /\ SeqOf(d.tags) <= d.tagSeq
  <2>1. \A t \in d.tags : t.id \in Ids /\ t.id <= d.tagSeq
    BY DEF RowsInv, Typed, Tag, Numbered
  <2>2. SeqOf(d.tags) \in 0..MaxId /\ d.tagSeq \in 0..MaxId
    BY <2>1, SeqOfRows DEF RowsInv, Typed
  <2>3. CASE d.tags = {}
    BY <2>2, <2>3, IdsAreNumbers DEF SeqOf
  <2>4. CASE d.tags # {}
    BY <2>1, <2>2, <2>4, SeqOfRows
  <2> QED
    BY <2>2, <2>3, <2>4
<1>3. c.tagSeq = d.tagSeq
  BY <1>1, <1>2, IdsAreNumbers
<1>4. /\ DOMAIN c = Fields /\ c.level = d.level /\ c.entries = d.entries /\ c.tags = d.tags
      /\ c.links = {l \in d.links : SameUser(d, l)} /\ c.clients = d.clients
      /\ c.tokens = d.tokens /\ c.fts = d.fts /\ c.entrySeq = d.entrySeq
  BY <1>1 DEF Alike, Fields
<1>5. RowsInv(c)
  BY <1>3, <1>4 DEF RowsInv, Typed
<1>6. Linked(c) /\ Indexed(c)
  BY <1>4 DEF Linked, Indexed, SameUser
<1> QED
  BY <1>3, <1>4, <1>5, <1>6 DEF DbInv, RowsInv, Kept, c

\* The script after those that were run, and the one for tags a second time.
LEMMA ScriptKeeps ==
    ASSUME NEW d, DbInv(d), NEW n \in Scripts,
           n = d.level + 1 \/ (n = TagsPerUser /\ d.level = TagsPerUser)
    PROVE  /\ DbInv(Script(n, d)) /\ Script(n, d).level = n
           /\ Script(n, d).tags = d.tags /\ Script(n, d).tagSeq = d.tagSeq
<1> DEFINE at == [d EXCEPT !.level = n]
<1>0. DOMAIN d = Fields /\ d.level \in 0..8 /\ n \in 1..8
  BY DEF DbInv, Typed, Indexes, Scripts
<1>1. Alike(at, d, {"level"}) /\ at.level = n
  BY <1>0, LevelFields
<1> HIDE DEF at
<1>2. /\ DOMAIN at = Fields /\ at.entries = d.entries /\ at.tags = d.tags
      /\ at.links = d.links /\ at.clients = d.clients /\ at.tokens = d.tokens
      /\ at.fts = d.fts /\ at.entrySeq = d.entrySeq /\ at.tagSeq = d.tagSeq
  BY <1>1 DEF Alike, Fields
<1>3. UniqueLabels(n, d.tags)
  BY <1>0 DEF DbInv, UniqueLabels, TagsPerUser
<1>4. RowsInv(at)
  BY <1>1, <1>2, <1>3 DEF DbInv, RowsInv, Typed, Scripts, Indexes
<1>5. n \notin {Search, SearchTitle} => Indexed(at)
  <2> SUFFICES ASSUME n \notin {4, 6}, n >= 4
               PROVE  at.fts = {IndexRow(n, e) : e \in at.entries}
    BY <1>1 DEF Indexed, Search, SearchTitle
  <2>1. d.level >= 4 /\ (n = d.level \/ (n = d.level + 1 /\ d.level # 5))
    BY <1>0 DEF TagsPerUser
  <2>2. d.fts = {IndexRow(d.level, e) : e \in d.entries}
    BY <2>1 DEF DbInv, Indexed, Search
  <2>3. \A e : IndexRow(n, e) = IndexRow(d.level, e)
    BY <1>0, <2>1, IndexRows
  <2> QED
    BY <1>2, <2>2, <2>3
<1>6. n < TagsPerUser => Linked(at)
  BY <1>0, <1>1 DEF Linked, TagsPerUser
<1>7. n > TagsPerUser => Linked(at)
  <2> SUFFICES ASSUME n > 7 PROVE \A l \in at.links : SameUser(at, l)
    BY <1>0 DEF Linked, TagsPerUser
  <2>1. \A l \in d.links : SameUser(d, l)
    BY <1>0 DEF DbInv, Linked, TagsPerUser
  <2> QED
    BY <1>2, <2>1 DEF SameUser
<1>8. ASSUME DbInv(Script(n, d)), Kept(Script(n, d), at)
      PROVE  /\ DbInv(Script(n, d)) /\ Script(n, d).level = n
             /\ Script(n, d).tags = d.tags /\ Script(n, d).tagSeq = d.tagSeq
  BY <1>1, <1>2, <1>8 DEF Kept
<1>9. CASE n \notin {ContentText, Search, ClientNames, SearchTitle, TagsPerUser}
  <2>1. Script(n, d) = at
    BY <1>9 DEF Script, at
  <2>2. DbInv(at)
    <3>1. Linked(at)
      BY <1>0, <1>6, <1>7, <1>9 DEF TagsPerUser
    <3> QED
      BY <1>4, <1>5, <1>9, <3>1 DEF DbInv, RowsInv
  <2> QED
    BY <1>8, <2>1, <2>2 DEF Kept
<1>10. CASE n = ContentText
  <2>1. Script(n, d) = ContentTextScript(at)
    BY <1>10 DEF Script, at, ContentText, Search, ClientNames, SearchTitle, TagsPerUser
  <2>2. Linked(at) /\ Indexed(at)
    BY <1>5, <1>6, <1>10 DEF TagsPerUser, ContentText, Search, SearchTitle
  <2>3. DbInv(at)
    BY <1>4, <2>2 DEF DbInv, RowsInv
  <2> QED
    BY <1>1, <1>8, <1>10, <2>1, <2>3, ContentTextKeeps
<1>11. CASE n \in {Search, SearchTitle}
  <2>1. Script(n, d) = SearchScript(at) \/ Script(n, d) = SearchTitleScript(at)
    BY <1>11 DEF Script, at, ContentText, Search, ClientNames, SearchTitle, TagsPerUser
  <2> QED
    BY <1>1, <1>4, <1>8, <1>11, <2>1, SearchKeeps
<1>12. CASE n = ClientNames
  <2>1. Script(n, d) = ClientNamesScript(at)
    BY <1>12 DEF Script, at, ContentText, Search, ClientNames, SearchTitle, TagsPerUser
  <2>2. Indexed(at)
    BY <1>5, <1>12 DEF ClientNames, Search, SearchTitle
  <2> QED
    BY <1>1, <1>4, <1>8, <1>12, <2>1, <2>2, ClientNamesKeeps
<1>13. CASE n = TagsPerUser
  <2>1. Script(n, d) = TagsPerUserScript(at)
    BY <1>13 DEF Script, at, ContentText, Search, ClientNames, SearchTitle, TagsPerUser
  <2>2. Indexed(at)
    BY <1>5, <1>13 DEF TagsPerUser, Search, SearchTitle
  <2> QED
    BY <1>1, <1>4, <1>8, <1>13, <2>1, <2>2, TagsPerUserKeeps
<1> QED
  BY <1>9, <1>10, <1>11, <1>12, <1>13

-----------------------------------------------------------------------------
(* The writes.                                                             *)

IndexOf(d, rows) == {IndexRow(d.level, e) : e \in rows}

\* The triggers bring the index up to date with the rows.
LEMMA TriggeredKeeps ==
    ASSUME NEW b, RowsInv(b), Linked(b), NEW old, NEW new,
           b.level >= Search =>
               (b.fts \ IndexOf(b, old)) \cup IndexOf(b, new) = IndexOf(b, b.entries)
    PROVE  DbInv(Triggered(b, old, new)) /\ Kept(Triggered(b, old, new), b)
<1> DEFINE c == Triggered(b, old, new)
<1>0. DOMAIN b = Fields /\ b.level \in Nat
  BY DEF RowsInv, Typed
<1>1. /\ Alike(c, b, {"fts"})
      /\ b.level >= Search => c.fts = (b.fts \ IndexOf(b, old)) \cup IndexOf(b, new)
  BY <1>0, TriggeredFields DEF IndexOf
<1> HIDE DEF c
<1>2. /\ DOMAIN c = Fields /\ c.level = b.level /\ c.entries = b.entries /\ c.tags = b.tags
      /\ c.links = b.links /\ c.clients = b.clients /\ c.tokens = b.tokens
      /\ c.entrySeq = b.entrySeq /\ c.tagSeq = b.tagSeq
  BY <1>1 DEF Alike, Fields
<1>3. RowsInv(c)
  BY <1>2 DEF RowsInv, Typed
<1>4. Linked(c)
  BY <1>2 DEF Linked, SameUser
<1>5. Indexed(c)
  BY <1>1, <1>2 DEF Indexed, IndexOf
<1> QED
  BY <1>2, <1>3, <1>4, <1>5 DEF DbInv, RowsInv, Kept, c

LEMMA AddEntryKeeps ==
    ASSUME DbInv(db), NEW u \in Users, NEW w \in Words, NEW t \in Words \cup {NoText},
           AddEntry(u, w, t)
    PROVE  DbInv(db') /\ Kept(db', db)
<1> DEFINE e == [id |-> db.entrySeq + 1, user |-> u, title |-> w, text |-> t]
           b == [db EXCEPT !.entries = @ \cup {e}, !.entrySeq = e.id]
<1>0. DOMAIN db = Fields /\ db.entrySeq \in 0..MaxId /\ MaxId \in Nat
  BY IdsAreNumbers DEF DbInv, Typed
<1>1. e \in Entry /\ e.id = db.entrySeq + 1 /\ e.id \in 1..MaxId
  BY <1>0 DEF AddEntry, Entry, Ids
<1>2. /\ Alike(b, db, {"entries", "entrySeq"})
      /\ b.entries = db.entries \cup {e} /\ b.entrySeq = e.id
  BY <1>0 DEF Alike, Fields
<1>3. db' = Triggered(b, {}, {e})
  BY DEF AddEntry, Writes
<1> HIDE DEF e, b
<1>4. /\ DOMAIN b = Fields /\ b.level = db.level /\ b.tags = db.tags
      /\ b.links = db.links /\ b.clients = db.clients /\ b.tokens = db.tokens
      /\ b.fts = db.fts /\ b.tagSeq = db.tagSeq
  BY <1>2 DEF Alike, Fields
<1>5. \A o \in db.entries : o.id \in Nat /\ o.id <= db.entrySeq
  BY IdsAreNumbers DEF DbInv, Typed, Entry, Numbered
<1>6. Numbered(b.entries, b.entrySeq)
  BY <1>0, <1>1, <1>2, <1>5 DEF DbInv, Numbered
<1>7. RowsInv(b)
  <2>1. Typed(b)
    BY <1>1, <1>2, <1>4 DEF DbInv, Typed
  <2> QED
    BY <1>4, <1>6, <2>1 DEF DbInv, RowsInv
<1>8. Linked(b)
  BY <1>2, <1>4 DEF DbInv, Linked, SameUser
<1>9. b.level >= Search =>
          (b.fts \ IndexOf(b, {})) \cup IndexOf(b, {e}) = IndexOf(b, b.entries)
  BY <1>2, <1>4 DEF DbInv, Indexed, IndexOf
<1>10. DbInv(db') /\ Kept(db', b)
  BY <1>3, <1>7, <1>8, <1>9, TriggeredKeeps
<1> QED
  BY <1>4, <1>10 DEF Kept

LEMMA UpdateEntryKeeps ==
    ASSUME DbInv(db), NEW e \in db.entries, NEW w \in Words, NEW t \in Words \cup {NoText},
           UpdateEntry(e, w, t)
    PROVE  DbInv(db') /\ Kept(db', db)
<1> DEFINE n == [e EXCEPT !.title = w, !.text = t]
           b == [db EXCEPT !.entries = (@ \ {e}) \cup {n}]
<1>0. DOMAIN db = Fields /\ e \in Entry /\ db.level \in Nat
  BY DEF DbInv, Typed
<1>1. n \in Entry /\ n.id = e.id /\ n.user = e.user
  BY <1>0 DEF Entry
<1>2. Alike(b, db, {"entries"}) /\ b.entries = (db.entries \ {e}) \cup {n}
  BY <1>0 DEF Alike, Fields
<1>3. db' = Triggered(b, {e}, {n})
  BY DEF UpdateEntry, Writes
<1> HIDE DEF n, b
<1>4. /\ DOMAIN b = Fields /\ b.level = db.level /\ b.tags = db.tags
      /\ b.links = db.links /\ b.clients = db.clients /\ b.tokens = db.tokens
      /\ b.fts = db.fts /\ b.entrySeq = db.entrySeq /\ b.tagSeq = db.tagSeq
  BY <1>2 DEF Alike, Fields
<1>5. Numbered(b.entries, b.entrySeq)
  BY <1>1, <1>2, <1>4 DEF DbInv, Numbered
<1>6. RowsInv(b)
  <2>1. Typed(b)
    BY <1>1, <1>2, <1>4 DEF DbInv, Typed
  <2> QED
    BY <1>4, <1>5, <2>1 DEF DbInv, RowsInv
<1>7. Linked(b)
  <2>1. \A l : SameUser(db, l) => SameUser(b, l)
    BY <1>1, <1>2, <1>4 DEF SameUser
  <2> QED
    BY <1>4, <2>1 DEF DbInv, Linked
<1>8. b.level >= Search =>
          (b.fts \ IndexOf(b, {e})) \cup IndexOf(b, {n}) = IndexOf(b, b.entries)
  <2>1. \A o \in db.entries \ {e} : IndexRow(db.level, o) # IndexRow(db.level, e)
    BY <1>0, IndexRows DEF DbInv, Numbered
  <2>2. db.level >= Search => db.fts = IndexOf(db, db.entries)
    BY DEF DbInv, Indexed, IndexOf
  <2> QED
    BY <1>2, <1>4, <2>1, <2>2 DEF IndexOf
<1>9. DbInv(db') /\ Kept(db', b)
  BY <1>3, <1>6, <1>7, <1>8, TriggeredKeeps
<1> QED
  BY <1>4, <1>9 DEF Kept

LEMMA DeleteEntryKeeps ==
    ASSUME DbInv(db), NEW e \in db.entries, DeleteEntry(e)
    PROVE  DbInv(db') /\ Kept(db', db)
<1> DEFINE a == [db EXCEPT !.entries = @ \ {e}]
           b == Cascade(a)
<1>0. DOMAIN db = Fields /\ db.level \in Nat
  BY DEF DbInv, Typed
<1>1. Alike(a, db, {"entries"}) /\ a.entries = db.entries \ {e}
  BY <1>0 DEF Alike, Fields
<1>2. db' = Triggered(b, {e}, {})
  BY DEF DeleteEntry, Writes
<1>3. /\ Alike(b, a, {"links", "tokens"}) /\ b.tokens \subseteq a.tokens
      /\ b.links = {l \in a.links : /\ \E o \in a.entries : o.id = l[1]
                                    /\ \E t \in a.tags : t.id = l[2]}
  BY <1>1, CascadeFields DEF Alike
<1> HIDE DEF a, b
<1>4. /\ DOMAIN b = Fields /\ b.level = db.level /\ b.entries = db.entries \ {e}
      /\ b.tags = db.tags /\ b.clients = db.clients /\ b.tokens \subseteq db.tokens
      /\ b.fts = db.fts /\ b.entrySeq = db.entrySeq /\ b.tagSeq = db.tagSeq
      /\ b.links \subseteq db.links /\ \A l \in b.links : \E o \in b.entries : o.id = l[1]
  BY <1>1, <1>3 DEF Alike, Fields
<1>5. RowsInv(b)
  BY <1>4 DEF DbInv, RowsInv, Typed, Numbered
<1>6. Linked(b)
  <2>1. ASSUME NEW l \in b.links, SameUser(db, l) PROVE SameUser(b, l)
    BY <1>4, <2>1 DEF SameUser, DbInv, Numbered
  <2> QED
    BY <1>4, <2>1 DEF DbInv, Linked
<1>7. b.level >= Search =>
          (b.fts \ IndexOf(b, {e})) \cup IndexOf(b, {}) = IndexOf(b, b.entries)
  <2>1. \A o \in db.entries \ {e} : IndexRow(db.level, o) # IndexRow(db.level, e)
    BY <1>0, IndexRows DEF DbInv, Numbered
  <2>2. db.level >= Search => db.fts = IndexOf(db, db.entries)
    BY DEF DbInv, Indexed, IndexOf
  <2> QED
    BY <1>4, <2>1, <2>2 DEF IndexOf
<1>8. DbInv(db') /\ Kept(db', b)
  BY <1>2, <1>5, <1>6, <1>7, TriggeredKeeps
<1> QED
  BY <1>4, <1>8 DEF Kept

LEMMA AddTagKeeps ==
    ASSUME DbInv(db), TagsInv, NEW u \in Users, NEW b \in Labels, AddTag(u, b)
    PROVE  DbInv(db') /\ TagsInv' /\ db'.level = db.level
<1> DEFINE t == [id |-> db.tagSeq + 1, user |-> u, label |-> b]
<1>0. DOMAIN db = Fields /\ db.tagSeq \in 0..MaxId /\ MaxId \in Nat /\ db.level \in Nat
  BY IdsAreNumbers DEF DbInv, Typed
<1>1. t \in Tag /\ t.id = db.tagSeq + 1 /\ t.user = u /\ t.label = b /\ t.id \in 1..MaxId
  BY <1>0 DEF AddTag, Tag, Ids
<1>2. db' = [db EXCEPT !.tags = @ \cup {t}, !.tagSeq = t.id] /\ everTag' = everTag \cup {t}
  BY DEF AddTag, Writes
<1> HIDE DEF t
<1>3. Alike(db', db, {"tags", "tagSeq"}) /\ db'.tags = db.tags \cup {t} /\ db'.tagSeq = t.id
  BY <1>0, <1>2 DEF Alike, Fields
<1>4. /\ DOMAIN db' = Fields /\ db'.level = db.level /\ db'.entries = db.entries
      /\ db'.links = db.links /\ db'.clients = db.clients /\ db'.tokens = db.tokens
      /\ db'.fts = db.fts /\ db'.entrySeq = db.entrySeq
  BY <1>3 DEF Alike, Fields
<1>5. \A o \in everTag : o.id \in Nat /\ o.id <= db.tagSeq
  BY IdsAreNumbers DEF TagsInv, Numbered, Tag
<1>6. Numbered(everTag', db'.tagSeq) /\ db'.tags \subseteq everTag' /\ everTag' \subseteq Tag
  BY <1>0, <1>1, <1>2, <1>3, <1>5 DEF TagsInv, Numbered
<1>7. Numbered(db'.tags, db'.tagSeq)
  BY <1>6 DEF Numbered
<1>8. UniqueLabels(db'.level, db'.tags)
  <2>1. \A s \in db.tags : s.label = b => db.level >= TagsPerUser /\ s.user # u
    BY DEF AddTag
  <2> QED
    BY <1>1, <1>3, <1>4, <2>1 DEF DbInv, UniqueLabels
<1>9. Typed(db')
  BY <1>1, <1>3, <1>4 DEF DbInv, Typed
<1>10. Linked(db') /\ Indexed(db')
  BY <1>3, <1>4 DEF DbInv, Linked, Indexed, SameUser
<1> QED
  BY <1>4, <1>6, <1>7, <1>8, <1>9, <1>10 DEF DbInv, TagsInv

LEMMA DeleteTagKeeps ==
    ASSUME DbInv(db), NEW t \in db.tags, DeleteTag(t)
    PROVE  /\ DbInv(db') /\ db'.level = db.level
           /\ db'.tags \subseteq db.tags /\ db'.tagSeq = db.tagSeq
<1> DEFINE a == [db EXCEPT !.tags = @ \ {t}]
<1>0. DOMAIN db = Fields /\ db.level \in Nat
  BY DEF DbInv, Typed
<1>1. Alike(a, db, {"tags"}) /\ a.tags = db.tags \ {t}
  BY <1>0 DEF Alike, Fields
<1>2. db' = Cascade(a)
  BY DEF DeleteTag, Writes
<1>3. /\ Alike(db', a, {"links", "tokens"}) /\ db'.tokens \subseteq a.tokens
      /\ db'.links = {l \in a.links : /\ \E e \in a.entries : e.id = l[1]
                                      /\ \E o \in a.tags : o.id = l[2]}
  BY <1>1, <1>2, CascadeFields DEF Alike
<1> HIDE DEF a
<1>4. /\ DOMAIN db' = Fields /\ db'.level = db.level /\ db'.entries = db.entries
      /\ db'.tags = db.tags \ {t} /\ db'.clients = db.clients /\ db'.tokens \subseteq db.tokens
      /\ db'.fts = db.fts /\ db'.entrySeq = db.entrySeq /\ db'.tagSeq = db.tagSeq
      /\ db'.links \subseteq db.links /\ \A l \in db'.links : \E o \in db'.tags : o.id = l[2]
  BY <1>1, <1>3 DEF Alike, Fields
<1>5. RowsInv(db')
  BY <1>4 DEF DbInv, RowsInv, Typed, Numbered, UniqueLabels
<1>6. Linked(db')
  <2>1. ASSUME NEW l \in db'.links, SameUser(db, l) PROVE SameUser(db', l)
    BY <1>4, <2>1 DEF SameUser, DbInv, Numbered
  <2> QED
    BY <1>4, <2>1 DEF DbInv, Linked
<1>7. Indexed(db')
  BY <1>4 DEF DbInv, Indexed
<1> QED
  BY <1>4, <1>5, <1>6, <1>7 DEF DbInv, RowsInv

LEMMA LinkKeeps ==
    ASSUME DbInv(db), NEW e \in db.entries, NEW t \in db.tags, Link(e, t)
    PROVE  DbInv(db') /\ Kept(db', db)
<1>0. DOMAIN db = Fields /\ e \in Entry /\ t \in Tag
  BY DEF DbInv, Typed
<1>1. Alike(db', db, {"links"}) /\ db'.links = db.links \cup {<<e.id, t.id>>}
  BY <1>0 DEF Alike, Fields, Link, Writes
<1>2. /\ DOMAIN db' = Fields /\ db'.level = db.level /\ db'.entries = db.entries
      /\ db'.tags = db.tags /\ db'.clients = db.clients /\ db'.tokens = db.tokens
      /\ db'.fts = db.fts /\ db'.entrySeq = db.entrySeq /\ db'.tagSeq = db.tagSeq
  BY <1>1 DEF Alike, Fields
<1>3. <<e.id, t.id>> \in Ids \X Ids
  BY <1>0 DEF Entry, Tag
<1>4. RowsInv(db') /\ Indexed(db')
  BY <1>1, <1>2, <1>3 DEF DbInv, RowsInv, Typed, Indexed
<1>5. db.level >= TagsPerUser => SameUser(db, <<e.id, t.id>>)
  BY DEF Link, SameUser
<1>6. Linked(db')
  BY <1>1, <1>2, <1>5 DEF DbInv, Linked, SameUser
<1> QED
  BY <1>2, <1>4, <1>6 DEF DbInv, RowsInv, Kept

LEMMA ClientKeeps ==
    ASSUME DbInv(db), NEW u \in Registered, AddClient(u) \/ AddToken(u)
    PROVE  DbInv(db') /\ Kept(db', db)
<1>0. DOMAIN db = Fields /\ u \in Users
  BY MigrationsAssumption DEF DbInv, Typed
<1>1. /\ Alike(db', db, {"clients", "tokens"})
      /\ db'.clients \subseteq db.clients \cup {u} /\ db'.tokens \subseteq db.tokens \cup {u}
  BY <1>0 DEF Alike, Fields, AddClient, AddToken, Writes
<1>2. /\ DOMAIN db' = Fields /\ db'.level = db.level /\ db'.entries = db.entries
      /\ db'.tags = db.tags /\ db'.links = db.links
      /\ db'.fts = db.fts /\ db'.entrySeq = db.entrySeq /\ db'.tagSeq = db.tagSeq
  BY <1>1 DEF Alike, Fields
<1>3. RowsInv(db') /\ Indexed(db')
  BY <1>0, <1>1, <1>2 DEF DbInv, RowsInv, Typed, Indexed
<1>4. Linked(db')
  BY <1>2 DEF DbInv, Linked, SameUser
<1> QED
  BY <1>2, <1>3, <1>4 DEF DbInv, RowsInv, Kept

-----------------------------------------------------------------------------
(* The invariant holds.                                                    *)

LEMMA InitInv == Init => IInv
<1> SUFFICES ASSUME Init PROVE IInv
  OBVIOUS
<1>1. Typed(db) /\ Numbered(db.entries, db.entrySeq) /\ Numbered(db.tags, db.tagSeq)
  BY IdsAreNumbers DEF Init, Typed, Numbered, Fields, Indexes
<1>2. UniqueLabels(db.level, db.tags) /\ Linked(db) /\ Indexed(db)
  BY DEF Init, UniqueLabels, Linked, Indexed, TagsPerUser, Search
<1>3. PhaseInv /\ TagsInv
  BY MigrationsAssumption DEF Init, PhaseInv, TagsInv, Numbered, Indexes
<1> QED
  BY <1>1, <1>2, <1>3 DEF IInv, DbInv

\* No script meets rows it cannot copy.
LEMMA Accepted == ASSUME IInv PROVE Accepts(applied + 1, db)
<1> SUFFICES ASSUME applied + 1 = TagsPerUser,
                    NEW s \in db.tags, NEW t \in db.tags, s.user = t.user, s.label = t.label
             PROVE  s = t
  BY DEF Accepts
<1> QED
  BY DEF IInv, DbInv, UniqueLabels

LEMMA MigrateStep ==
    ASSUME IInv, Migrate \/ MigrateBare
    PROVE  IInv'
<1> DEFINE n == applied + 1
<1>1. /\ applied \in 0..8 /\ binary \in 1..8 /\ applied < binary /\ n \in 1..8
      /\ db' = Script(n, db)
  BY DEF IInv, PhaseInv, Migrate, MigrateBare, Scripts, Indexes
<1>2. n = db.level + 1 \/ (n = TagsPerUser /\ db.level = TagsPerUser)
  BY <1>1 DEF IInv, PhaseInv, SearchTitle, TagsPerUser
<1>3. DbInv(db') /\ db'.level = n /\ db'.tags = db.tags /\ db'.tagSeq = db.tagSeq
  BY <1>1, <1>2, ScriptKeeps DEF IInv, Scripts, Indexes
<1>4. PhaseInv'
  BY <1>1, <1>3 DEF IInv, PhaseInv, Migrate, MigrateBare, NoTransaction, SearchTitle,
                    TagsPerUser, Scripts, Indexes
<1>5. TagsInv'
  BY <1>3 DEF IInv, TagsInv, Migrate, MigrateBare
<1> QED
  BY <1>3, <1>4, <1>5 DEF IInv

LEMMA WriteStep ==
    ASSUME IInv, Write
    PROVE  IInv'
<1>1. DbInv(db')
      /\ \/ Kept(db', db) /\ UNCHANGED everTag
         \/ TagsInv' /\ db'.level = db.level
         \/ /\ db'.level = db.level /\ db'.tags \subseteq db.tags
            /\ db'.tagSeq = db.tagSeq /\ UNCHANGED everTag
  BY AddEntryKeeps, UpdateEntryKeeps, DeleteEntryKeeps, AddTagKeeps, DeleteTagKeeps,
     LinkKeeps, ClientKeeps
     DEF IInv, Write, AddEntry, UpdateEntry, DeleteEntry, DeleteTag, Link, AddClient, AddToken
<1>2. UNCHANGED <<applied, binary, phase, crashes>>
  BY DEF Write, AddEntry, UpdateEntry, DeleteEntry, AddTag, DeleteTag, Link, AddClient,
         AddToken, Writes
<1>3. TagsInv' /\ db'.level = db.level
  BY <1>1 DEF IInv, TagsInv, Kept
<1> QED
  BY <1>1, <1>2, <1>3 DEF IInv, PhaseInv

LEMMA NextInv == IInv /\ [Next]_vars => IInv'
<1> SUFFICES ASSUME IInv, [Next]_vars PROVE IInv'
  OBVIOUS
<1>1. ASSUME NEW n \in Scripts, Install(n) PROVE IInv'
  BY <1>1 DEF Install, IInv, PhaseInv, TagsInv
<1>2. CASE Boot \/ Serve \/ Stop
  BY <1>2 DEF Boot, Serve, Stop, IInv, PhaseInv, TagsInv
<1>3. CASE Migrate \/ MigrateBare
  BY <1>3, MigrateStep
<1>4. CASE Record
  BY <1>4 DEF Record, IInv, PhaseInv, TagsInv, SearchTitle, TagsPerUser, Indexes
<1>5. CASE Crash
  BY <1>5, MigrationsAssumption DEF Crash, IInv, PhaseInv, TagsInv
<1>6. CASE Write
  BY <1>6, WriteStep
<1>7. CASE UNCHANGED vars
  BY <1>7 DEF vars, IInv, PhaseInv, TagsInv
<1> QED
  BY <1>1, <1>2, <1>3, <1>4, <1>5, <1>6, <1>7 DEF Next, Start

LEMMA IInvAlways == Spec => []IInv
  BY InitInv, NextInv, PTL DEF Spec

-----------------------------------------------------------------------------
(* The theorems.                                                           *)

\* The schema is at most one script ahead of what is recorded, and the rows are
\* what its tables declare, after any upgrades and crashes (server/src/main.rs).
THEOREM TypeCorrect == Spec => []TypeOK
<1>1. IInv => TypeOK
  BY DEF IInv, DbInv, Typed, PhaseInv, TypeOK, Entry, Tag, SearchTitle, TagsPerUser, Scripts,
         Indexes
<1> QED
  BY <1>1, IInvAlways, PTL

\* Since tags are per user, links join rows of one user, whatever an older schema
\* permitted (20260728120000, lines 26-32).
THEOREM LinksJoinOneUser == Spec => []LinksOfOneUser
<1>1. IInv => LinksOfOneUser
  BY DEF IInv, DbInv, Linked, LinksOfOneUser
<1> QED
  BY <1>1, IInvAlways, PTL

\* The id of a tag stands for it for ever: neither the rebuild of the table nor its
\* second run after a crash gives out an id again (20260728120000, lines 34-36).
THEOREM TagIdsStay == Spec => []TagIdsNotReused
<1>1. IInv => TagIdsNotReused
  BY DEF IInv, TagsInv, Numbered, TagIdsNotReused
<1> QED
  BY <1>1, IInvAlways, PTL

\* The full-text index holds every entry there is, also those older than it, and
\* nothing else (20260313005121, 20260313102652).
THEOREM SearchIsComplete == Spec => []SearchCoversOldEntries
<1>1. IInv => SearchCoversOldEntries
  BY DEF IInv, DbInv, Indexed, SearchCoversOldEntries
<1> QED
  BY <1>1, IInvAlways, PTL

\* No script is ever refused by rows an older schema permitted or its own earlier
\* run left: the server does not fail to start for what is in its database.
THEOREM NeverRefused == Spec => [](~ Refused)
<1>1. IInv => ~ Refused
  BY Accepted DEF Refused
<1> QED
  BY <1>1, IInvAlways, PTL
=============================================================================
