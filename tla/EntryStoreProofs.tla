-------------------------- MODULE EntryStoreProofs --------------------------
(***************************************************************************)
(* The properties of EntryStore for any users, articles, labels, changes   *)
(* and requests.                                                           *)
(*                                                                         *)
(* Every statement keeps TablesInv, on the committed tables and on a       *)
(* draft.  Final(d, q) is what request q makes of the tables d, computed   *)
(* at once; Based, Tagged, Joined and Relinked are the stages in between.  *)
(* The invariant says that the draft of the request with the write lock is *)
(* the stage its statement starts from, of the tables as they are          *)
(* committed NOW, and that a request which has only read still sees them   *)
(* unless its snapshot is stale.  A commit is then Final on the state it   *)
(* meets, which is what EntryService promises.                             *)
(***************************************************************************)
EXTENDS EntryStore, WellFoundedInduction, TLAPS

-----------------------------------------------------------------------------
(* The tables.                                                             *)

\* What the tables are, field by field.
Is(d, entries, entrySeq, tags, tagSeq, links, index) ==
    /\ d \in Tables
    /\ d.entries = entries /\ d.entrySeq = entrySeq /\ d.tags = tags
    /\ d.tagSeq = tagSeq /\ d.links = links /\ d.index = index

LEMMA TableFields ==
    ASSUME NEW d \in Tables
    PROVE  /\ d.entries \in [EntryIds -> Row \cup {None}] /\ d.entrySeq \in 0..MaxEntries
           /\ d.tags \in SUBSET Tag /\ d.tagSeq \in Nat
           /\ d.links \in SUBSET (EntryIds \X Nat)
           /\ d.index \in SUBSET (EntryIds \X Texts \X Texts)
  BY DEF Tables

LEMMA InsertEntryFields ==
    ASSUME NEW d \in Tables, NEW row \in Row, d.entrySeq < MaxEntries, NEW e,
           e = d.entrySeq + 1
    PROVE  /\ e \in EntryIds
           /\ Is(InsertEntry(d, row), [d.entries EXCEPT ![e] = row], e, d.tags, d.tagSeq,
                 d.links, d.index \cup {Posting(e, row)})
<1>1. e \in EntryIds /\ e \in 0..MaxEntries
  BY MaxEntriesAssumption, TableFields DEF EntryIds
<1>2. Posting(e, row) \in EntryIds \X Texts \X Texts
  BY <1>1 DEF Posting, Row
<1>3. [d.entries EXCEPT ![e] = row] \in [EntryIds -> Row \cup {None}]
  BY <1>1, TableFields
<1> QED
  BY <1>1, <1>2, <1>3 DEF Is, InsertEntry, Tables

LEMMA UpdateFields ==
    ASSUME NEW d \in Tables, NEW u, NEW e \in EntryIds, NEW c \in Changes, Owns(d, u, e),
           NEW new, new = ApplyChange(d.entries[e], c)
    PROVE  /\ new \in Row /\ d.entries[e] \in Row
           /\ new.owner = d.entries[e].owner /\ new.text = d.entries[e].text
           /\ c.title = None => new.title = d.entries[e].title
           /\ d.entries[e].marks = d.entries[e].dates => new.marks = new.dates
           /\ Is(UpdateEntry(d, u, e, c), [d.entries EXCEPT ![e] = new], d.entrySeq, d.tags,
                 d.tagSeq, d.links,
                 IF c.title = None THEN d.index
                 ELSE Reindex(d.index, e, d.entries[e], new))
<1>1. d.entries[e] \in Row
  BY TableFields DEF Owns
<1>2. /\ new \in Row
      /\ new.owner = d.entries[e].owner /\ new.text = d.entries[e].text
      /\ c.title = None => new.title = d.entries[e].title
      /\ d.entries[e].marks = d.entries[e].dates => new.marks = new.dates
  <2>1. PICK row \in Row : row = d.entries[e]
    BY <1>1
  <2>2. /\ c.title \in Texts \cup {None} /\ c.content \in Texts \cup {None}
        /\ c.set \subseteq Marks /\ c.origin \in {None, "url", "malformed"}
    BY ChangesAssumption
  <2>3. PICK title \in Texts : title = IF c.title = None THEN row.title ELSE c.title
    BY <2>2 DEF Row
  <2>4. PICK content \in Texts : content = IF c.content = None THEN row.content ELSE c.content
    BY <2>2 DEF Row
  <2>5. PICK marks \in SUBSET Marks : marks = (row.marks \ c.clear) \cup c.set
    BY <2>2 DEF Row
  <2>6. PICK dates \in SUBSET Marks : dates = (row.dates \ c.clear) \cup c.set
    BY <2>2 DEF Row
  <2>7. PICK origin \in {None, "url", "malformed"} :
           origin = IF c.origin = None THEN row.origin ELSE c.origin
    BY <2>2 DEF Row
  <2>8. new = [row EXCEPT !.title = title, !.content = content, !.marks = marks,
                          !.dates = dates, !.origin = origin]
    BY <2>1, <2>3, <2>4, <2>5, <2>6, <2>7 DEF ApplyChange
  <2>9. /\ c.title = None => title = row.title
        /\ row.marks = row.dates => marks = dates
    BY <2>3, <2>5, <2>6
  <2>10. /\ new \in Row /\ new.owner = row.owner /\ new.text = row.text
         /\ new.title = title /\ new.marks = marks /\ new.dates = dates
    BY <2>8 DEF Row
  <2> QED
    BY <2>1, <2>9, <2>10
<1>3. Posting(e, new) \in EntryIds \X Texts \X Texts
  BY <1>2 DEF Posting, Row
<1>4. [d.entries EXCEPT ![e] = new] \in [EntryIds -> Row \cup {None}]
  BY <1>2, TableFields
<1>5. Is(UpdateEntry(d, u, e, c), [d.entries EXCEPT ![e] = new], d.entrySeq, d.tags,
         d.tagSeq, d.links,
         IF c.title = None THEN d.index ELSE Reindex(d.index, e, d.entries[e], new))
  <2>1. UpdateEntry(d, u, e, c) =
          [d EXCEPT !.entries = [@ EXCEPT ![e] = new],
                    !.index = IF c.title = None THEN @
                              ELSE Reindex(@, e, d.entries[e], new)]
    BY DEF UpdateEntry
  <2>2. Reindex(d.index, e, d.entries[e], new) \in SUBSET (EntryIds \X Texts \X Texts)
    BY <1>3, TableFields DEF Reindex
  <2> QED
    BY <1>4, <2>1, <2>2 DEF Is, Tables
<1> QED
  BY <1>1, <1>2, <1>5

LEMMA DeleteFields ==
    ASSUME NEW d \in Tables, NEW u, NEW e \in EntryIds, Owns(d, u, e)
    PROVE  Is(DeleteEntry(d, u, e), [d.entries EXCEPT ![e] = None], d.entrySeq, d.tags,
              d.tagSeq, {l \in d.links : l[1] # e}, d.index \ {Posting(e, d.entries[e])})
<1>1. [d.entries EXCEPT ![e] = None] \in [EntryIds -> Row \cup {None}]
  BY TableFields
<1> QED
  BY <1>1 DEF Is, DeleteEntry, Tables

LEMMA InsertTagsFields ==
    ASSUME NEW d \in Tables, NEW u \in Users, NEW ls \in Seq(Labels), NEW new,
           new = {[id |-> d.tagSeq + i, owner |-> u, label |-> ls[i]]
                     : i \in NewPositions(d, u, ls)}
    PROVE  /\ Len(ls) \in Nat /\ new \subseteq Tag
           /\ Is(InsertTags(d, u, ls), d.entries, d.entrySeq, d.tags \cup new,
                 d.tagSeq + Len(ls), d.links, d.index)
<1>1. Len(ls) \in Nat /\ d.tagSeq + Len(ls) \in Nat
      /\ \A i \in 1..Len(ls) : i \in Nat /\ ls[i] \in Labels
  BY TableFields
<1>2. new \subseteq Tag
  BY <1>1, TableFields DEF Tag, NewPositions
<1> QED
  BY <1>1, <1>2 DEF Is, InsertTags, Tables

LEMMA LinkFields ==
    ASSUME NEW d \in Tables, NEW u, NEW e \in EntryIds, Owns(d, u, e), NEW ls
    PROVE  /\ Is(LinkTags(d, u, e, ls), d.entries, d.entrySeq, d.tags, d.tagSeq,
                 d.links \cup ({e} \X Ids(Named(d, u, ls))), d.index)
           /\ Is(TrimTags(d, u, e, ls), d.entries, d.entrySeq, d.tags, d.tagSeq,
                 {l \in d.links : l[1] = e => l[2] \in Ids(Named(d, u, ls))}, d.index)
           /\ \A t : Is(Untag(d, u, e, t), d.entries, d.entrySeq, d.tags, d.tagSeq,
                       d.links \ {<<e, t>>}, d.index)
<1>1. Ids(Named(d, u, ls)) \subseteq Nat
  BY TableFields DEF Ids, Named, Tag
<1>2. {e} \X Ids(Named(d, u, ls)) \subseteq EntryIds \X Nat
  BY <1>1
<1>3. Is(LinkTags(d, u, e, ls), d.entries, d.entrySeq, d.tags, d.tagSeq,
         d.links \cup ({e} \X Ids(Named(d, u, ls))), d.index)
  BY <1>2 DEF Is, LinkTags, Tables
<1>4. Is(TrimTags(d, u, e, ls), d.entries, d.entrySeq, d.tags, d.tagSeq,
         {l \in d.links : l[1] = e => l[2] \in Ids(Named(d, u, ls))}, d.index)
  BY DEF Is, TrimTags, Tables
<1>5. \A t : Is(Untag(d, u, e, t), d.entries, d.entrySeq, d.tags, d.tagSeq,
               d.links \ {<<e, t>>}, d.index)
  BY DEF Is, Untag, Tables
<1> QED
  BY <1>3, <1>4, <1>5

LEMMA DeleteTagsFields ==
    ASSUME NEW d \in Tables, NEW gone
    PROVE  Is(DeleteTags(d, gone), d.entries, d.entrySeq, d.tags \ gone, d.tagSeq,
              {l \in d.links : l[2] \notin Ids(gone)}, d.index)
  BY DEF Is, DeleteTags, Tables

\* Ids of entries and of tags are given out in order, and a tag's only once.
Numbered(d) ==
    /\ \A e \in EntryIds : d.entries[e] # None => e <= d.entrySeq
    /\ \A t \in d.tags : t.id <= d.tagSeq
    /\ \A s, t \in d.tags : s.id = t.id => s = t

\* What holds of the tables after every statement, committed or not.
TablesInv(d) ==
    d \in Tables /\ Numbered(d) /\ LinksJoinOneOwner(d) /\ IndexMirrors(d) /\ MarksDated(d)

\* Postings name the entry they are of.
LEMMA Postings ==
    \A e, f, row, o : Posting(e, row) = Posting(f, o) => e = f
  BY DEF Posting

LEMMA EmptyInv == TablesInv(EmptyTables)
<1>1. EmptyTables \in Tables
  BY MaxEntriesAssumption DEF EmptyTables, Tables
<1>2. \A e \in EntryIds : EmptyTables.entries[e] = None
  BY DEF EmptyTables
<1>3. EmptyTables.tags = {} /\ EmptyTables.links = {} /\ EmptyTables.index = {}
  BY DEF EmptyTables
<1> QED
  BY <1>1, <1>2, <1>3 DEF TablesInv, Numbered, LinksJoinOneOwner, IndexMirrors, MarksDated

LEMMA InsertEntryInv ==
    ASSUME NEW d, TablesInv(d), NEW row \in Row, d.entrySeq < MaxEntries, row.marks = row.dates
    PROVE  TablesInv(InsertEntry(d, row))
<1> DEFINE e == d.entrySeq + 1
           c == InsertEntry(d, row)
<1>1. /\ e \in EntryIds /\ d \in Tables /\ d.entrySeq \in 0..MaxEntries
      /\ Is(c, [d.entries EXCEPT ![e] = row], e, d.tags, d.tagSeq, d.links,
            d.index \cup {Posting(e, row)})
  BY InsertEntryFields, TableFields DEF TablesInv
<1>2. row # None
  BY NoRowAssumption
<1> HIDE DEF c
<1>3. /\ d.entries[e] = None /\ c.entries[e] = row
      /\ \A f \in EntryIds \ {e} : c.entries[f] = d.entries[f]
  <2>1. ~ (e <= d.entrySeq)
    BY <1>1, MaxEntriesAssumption
  <2> QED
    BY <1>1, <2>1, TableFields DEF TablesInv, Numbered, Is
<1>4. Numbered(c)
  <2>1. \A f \in EntryIds : c.entries[f] # None => f <= e
    BY <1>1, <1>3, MaxEntriesAssumption DEF TablesInv, Numbered, EntryIds
  <2> QED
    BY <1>1, <2>1 DEF TablesInv, Numbered, Is
<1>5. LinksJoinOneOwner(c)
  BY <1>1, <1>2, <1>3, TableFields DEF TablesInv, LinksJoinOneOwner, Owns, Is
<1>6. IndexMirrors(c)
  BY <1>1, <1>2, <1>3 DEF TablesInv, IndexMirrors, Is
<1>7. MarksDated(c)
  BY <1>3 DEF TablesInv, MarksDated
<1> QED
  BY <1>1, <1>4, <1>5, <1>6, <1>7 DEF TablesInv, Is, c

LEMMA UpdateEntryInv ==
    ASSUME NEW d, TablesInv(d), NEW u, NEW e \in EntryIds, NEW ch \in Changes, Owns(d, u, e)
    PROVE  TablesInv(UpdateEntry(d, u, e, ch))
<1> DEFINE old == d.entries[e]
           new == ApplyChange(old, ch)
           c   == UpdateEntry(d, u, e, ch)
<1>1. /\ d \in Tables /\ new \in Row /\ old \in Row
      /\ new.owner = old.owner /\ new.text = old.text /\ new.marks = new.dates
      /\ ch.title = None => new.title = old.title
      /\ Is(c, [d.entries EXCEPT ![e] = new], d.entrySeq, d.tags, d.tagSeq, d.links,
            IF ch.title = None THEN d.index ELSE Reindex(d.index, e, old, new))
  BY UpdateFields DEF TablesInv, MarksDated, Owns
<1>2. old # None /\ new # None
  BY <1>1, NoRowAssumption
<1> HIDE DEF c, new
<1>3. c.entries[e] = new /\ \A f \in EntryIds \ {e} : c.entries[f] = d.entries[f]
  BY <1>1, TableFields DEF Is
<1>4. Numbered(c)
  BY <1>1, <1>2, <1>3 DEF TablesInv, Numbered, Is
<1>5. LinksJoinOneOwner(c)
  <2>1. \A v, f : Owns(d, v, f) /\ f \in EntryIds => Owns(c, v, f)
    BY <1>1, <1>2, <1>3 DEF Owns
  <2> QED
    BY <1>1, <2>1, TableFields DEF TablesInv, LinksJoinOneOwner, Is
<1>6. IndexMirrors(c)
  <2> DEFINE there(b) == {f \in EntryIds : b.entries[f] # None}
  <2>1. d.index = {Posting(f, d.entries[f]) : f \in there(d)}
    BY DEF TablesInv, IndexMirrors
  <2>2. e \in there(d) /\ there(c) = there(d)
    BY <1>2, <1>3
  <2>3. c.index = (d.index \ {Posting(e, old)}) \cup {Posting(e, new)}
    <3>1. CASE ch.title = None
      <4>1. Posting(e, old) = Posting(e, new) /\ Posting(e, old) \in d.index
        BY <1>1, <2>1, <2>2, <3>1 DEF Posting
      <4> QED
        BY <1>1, <3>1, <4>1 DEF Is
    <3>2. CASE ch.title # None
      BY <1>1, <3>2 DEF Is, Reindex
    <3> QED
      BY <3>1, <3>2
  <2>4. c.index = {Posting(f, c.entries[f]) : f \in there(c)}
    BY <1>3, <2>1, <2>2, <2>3, Postings
  <2> QED
    BY <2>4 DEF IndexMirrors
<1>7. MarksDated(c)
  BY <1>1, <1>3 DEF TablesInv, MarksDated
<1> QED
  BY <1>1, <1>4, <1>5, <1>6, <1>7 DEF TablesInv, Is, c

LEMMA DeleteEntryInv ==
    ASSUME NEW d, TablesInv(d), NEW u, NEW e \in EntryIds, Owns(d, u, e)
    PROVE  TablesInv(DeleteEntry(d, u, e))
<1> DEFINE c == DeleteEntry(d, u, e)
<1>1. /\ d \in Tables
      /\ Is(c, [d.entries EXCEPT ![e] = None], d.entrySeq, d.tags, d.tagSeq,
            {l \in d.links : l[1] # e}, d.index \ {Posting(e, d.entries[e])})
  BY DeleteFields DEF TablesInv
<1> HIDE DEF c
<1>2. c.entries[e] = None /\ \A f \in EntryIds \ {e} : c.entries[f] = d.entries[f]
  BY <1>1, TableFields DEF Is
<1>3. Numbered(c)
  BY <1>1, <1>2 DEF TablesInv, Numbered, Is
<1>4. LinksJoinOneOwner(c)
  <2>1. \A v, f : Owns(d, v, f) /\ f \in EntryIds \ {e} => Owns(c, v, f)
    BY <1>2 DEF Owns
  <2> QED
    BY <1>1, <2>1, TableFields DEF TablesInv, LinksJoinOneOwner, Is
<1>5. IndexMirrors(c)
  BY <1>1, <1>2, Postings DEF TablesInv, IndexMirrors, Is, Owns
<1>6. MarksDated(c)
  BY <1>2 DEF TablesInv, MarksDated
<1> QED
  BY <1>1, <1>3, <1>4, <1>5, <1>6 DEF TablesInv, Is, c

LEMMA InsertTagsInv ==
    ASSUME NEW d, TablesInv(d), NEW u \in Users, NEW ls \in Seq(Labels)
    PROVE  TablesInv(InsertTags(d, u, ls))
<1>0. PICK new : new = {[id |-> d.tagSeq + i, owner |-> u, label |-> ls[i]]
                           : i \in NewPositions(d, u, ls)}
  OBVIOUS
<1> DEFINE c == InsertTags(d, u, ls)
<1>1. /\ d \in Tables /\ Len(ls) \in Nat /\ new \subseteq Tag /\ d.tagSeq \in Nat
      /\ Is(c, d.entries, d.entrySeq, d.tags \cup new, d.tagSeq + Len(ls), d.links, d.index)
  <2>1. d \in Tables
    BY DEF TablesInv
  <2>2. /\ Len(ls) \in Nat /\ new \subseteq Tag
        /\ Is(InsertTags(d, u, ls), d.entries, d.entrySeq, d.tags \cup new,
              d.tagSeq + Len(ls), d.links, d.index)
    BY <1>0, <2>1, InsertTagsFields
  <2>3. d.tagSeq \in Nat
    BY <2>1, TableFields
  <2> QED
    BY <2>1, <2>2, <2>3
<1>2. \A t \in new : /\ t.id > d.tagSeq /\ t.id <= d.tagSeq + Len(ls)
                     /\ \A s \in new : s.id = t.id => s = t
  BY <1>0, <1>1 DEF NewPositions
<1> HIDE DEF c
<1>3. \A t \in d.tags : t.id \in Nat /\ t.id <= d.tagSeq
  BY <1>1, TableFields DEF TablesInv, Numbered, Tag
<1>4. \A t \in new : t.id \in Nat
  BY <1>1 DEF Tag
<1>5. Numbered(c)
  <2>1. \A t \in d.tags \cup new : t.id <= d.tagSeq + Len(ls)
    BY <1>1, <1>2, <1>3
  <2>2. \A s, t \in d.tags \cup new : s.id = t.id => s = t
    BY <1>1, <1>2, <1>3, <1>4 DEF TablesInv, Numbered
  <2> QED
    BY <1>1, <2>1, <2>2 DEF TablesInv, Numbered, Is
<1>6. LinksJoinOneOwner(c)
  BY <1>1 DEF TablesInv, LinksJoinOneOwner, Owns, Is
<1>7. IndexMirrors(c) /\ MarksDated(c)
  BY <1>1 DEF TablesInv, IndexMirrors, MarksDated, Is
<1> QED
  BY <1>1, <1>5, <1>6, <1>7 DEF TablesInv, Is, c

\* Links that are added join the entry with tags of its owner.
LEMMA LinksInv ==
    ASSUME NEW d, TablesInv(d), NEW u, NEW e \in EntryIds, Owns(d, u, e), NEW ls, NEW t,
           NEW c, c = LinkTags(d, u, e, ls) \/ c = TrimTags(d, u, e, ls) \/ c = Untag(d, u, e, t)
    PROVE  TablesInv(c)
<1>1. /\ d \in Tables
      /\ \E links \in SUBSET (d.links \cup ({e} \X Ids(Named(d, u, ls)))) :
            Is(c, d.entries, d.entrySeq, d.tags, d.tagSeq, links, d.index)
  <2>1. d \in Tables
    BY DEF TablesInv
  <2>2. {l \in d.links : l[1] = e => l[2] \in Ids(Named(d, u, ls))} \subseteq d.links
        /\ d.links \ {<<e, t>>} \subseteq d.links
    OBVIOUS
  <2> QED
    BY <2>1, <2>2, LinkFields
<1>2. /\ c \in Tables /\ c.entries = d.entries /\ c.entrySeq = d.entrySeq /\ c.tags = d.tags
      /\ c.tagSeq = d.tagSeq /\ c.index = d.index
      /\ c.links \subseteq d.links \cup ({e} \X Ids(Named(d, u, ls)))
  BY <1>1 DEF Is
<1>3. Numbered(c) /\ IndexMirrors(c) /\ MarksDated(c)
  BY <1>2 DEF TablesInv, Numbered, IndexMirrors, MarksDated
<1>4. LinksJoinOneOwner(c)
  <2> SUFFICES ASSUME NEW l \in c.links
               PROVE  \E s \in d.tags : s.id = l[2] /\ Owns(d, s.owner, l[1])
    BY <1>2 DEF LinksJoinOneOwner, Owns
  <2>1. CASE l \in d.links
    BY <2>1 DEF TablesInv, LinksJoinOneOwner
  <2>2. CASE l \in {e} \X Ids(Named(d, u, ls))
    BY <2>2 DEF Ids, Named
  <2> QED
    BY <1>2, <2>1, <2>2
<1> QED
  BY <1>2, <1>3, <1>4 DEF TablesInv

LEMMA DeleteTagsInv ==
    ASSUME NEW d, TablesInv(d), NEW gone \in SUBSET d.tags
    PROVE  TablesInv(DeleteTags(d, gone))
<1> DEFINE c == DeleteTags(d, gone)
<1>1. /\ d \in Tables
      /\ Is(c, d.entries, d.entrySeq, d.tags \ gone, d.tagSeq,
            {l \in d.links : l[2] \notin Ids(gone)}, d.index)
  BY DeleteTagsFields DEF TablesInv
<1> HIDE DEF c
<1>2. Numbered(c) /\ IndexMirrors(c) /\ MarksDated(c)
  BY <1>1 DEF TablesInv, Numbered, IndexMirrors, MarksDated, Is
<1>3. LinksJoinOneOwner(c)
  BY <1>1 DEF TablesInv, LinksJoinOneOwner, Owns, Is, Ids
<1> QED
  BY <1>1, <1>2, <1>3 DEF TablesInv, Is, c

-----------------------------------------------------------------------------
(* Transactions.                                                           *)

Deletes == {"delete_id", "delete_full"}
Reads   == {"tags", "untag", "delete_full"}
Tagging == {"create", "patch", "tags"}
Ops     == Tagging \cup {"untag"} \cup Deletes

LEMMA RequestFields ==
    ASSUME NEW q \in AllRequests
    PROVE  /\ q.op \in Ops /\ q.user \in Users
           /\ q.op # "create" => q.entry \in EntryIds
           /\ q.op = "create" => /\ q.labels \in LabelLists /\ q.document \in Texts
                                 /\ q.marks \in SUBSET Marks
                                 /\ q.origin \in {None, "url", "malformed"}
           /\ q.op = "patch" => q.change \in Changes /\ q.labels \in LabelLists \cup {None}
           /\ q.op = "tags" => q.labels \in LabelLists
<1>1. CASE q \in CreateRequests
  BY <1>1 DEF CreateRequests, Ops, Tagging
<1>2. CASE q \in PatchRequests
  BY <1>2 DEF PatchRequests, Ops, Tagging
<1>3. CASE q \in TagRequests
  BY <1>3 DEF TagRequests, Ops, Tagging
<1>4. CASE q \in UntagRequests
  BY <1>4 DEF UntagRequests, Ops
<1>5. CASE q \in DeleteRequests
  BY <1>5 DEF DeleteRequests, Ops, Deletes
<1> QED
  BY <1>1, <1>2, <1>3, <1>4, <1>5 DEF AllRequests

\* The tables as the statements of a request leave them, one after another, from
\* the committed tables d.
EntryOf(d, q) == IF q.op = "create" THEN d.entrySeq + 1 ELSE q.entry

Based(d, q) ==
    IF q.op = "create"
    THEN InsertEntry(d, NewEntryRow(q.user, q.document, q.marks, q.origin))
    ELSE IF q.op = "patch" THEN UpdateEntry(d, q.user, q.entry, q.change)
    ELSE d

Tagged(d, q) == InsertTags(Based(d, q), q.user, q.labels)

Joined(d, q) == LinkTags(Tagged(d, q), q.user, EntryOf(d, q), q.labels)

Relinked(d, q) == IF q.labels = <<>> THEN Based(d, q) ELSE Joined(d, q)

Final(d, q) ==
    IF q.op \in Deletes THEN DeleteEntry(d, q.user, q.entry)
    ELSE IF q.op = "untag" THEN Untag(d, q.user, q.entry, q.tag)
    ELSE IF q.op = "create" THEN Relinked(d, q)
    ELSE IF q.labels = None THEN Based(d, q)
    ELSE TrimTags(Relinked(d, q), q.user, q.entry, q.labels)

\* The request can be carried out on the tables d.
Fits(d, q) ==
    IF q.op = "create" THEN d.entrySeq < MaxEntries ELSE Owns(d, q.user, q.entry)

LEMMA BasedInv ==
    ASSUME NEW d, TablesInv(d), NEW q \in AllRequests, Fits(d, q), q.op \in Tagging
    PROVE  /\ TablesInv(Based(d, q))
           /\ EntryOf(d, q) \in EntryIds /\ Owns(Based(d, q), q.user, EntryOf(d, q))
           /\ q.op = "create" => Based(d, q).entrySeq = EntryOf(d, q)
<1>1. d \in Tables
  BY DEF TablesInv
<1>2. CASE q.op = "create"
  <2> DEFINE row == NewEntryRow(q.user, q.document, q.marks, q.origin)
             e   == d.entrySeq + 1
  <2>1. row \in Row /\ row.marks = row.dates /\ row.owner = q.user
    BY <1>2, RequestFields DEF NewEntryRow, Row
  <2>2. d.entrySeq < MaxEntries
    BY <1>2 DEF Fits
  <2> HIDE DEF row
  <2>3. TablesInv(InsertEntry(d, row))
    BY <2>1, <2>2, InsertEntryInv
  <2>4. e \in EntryIds
        /\ Is(InsertEntry(d, row), [d.entries EXCEPT ![e] = row], e, d.tags, d.tagSeq,
              d.links, d.index \cup {Posting(e, row)})
    BY <1>1, <2>1, <2>2, InsertEntryFields
  <2>5. Based(d, q) = InsertEntry(d, row) /\ EntryOf(d, q) = e
    BY <1>2 DEF Based, EntryOf, row
  <2>6. InsertEntry(d, row).entries[e] = row /\ row # None
    BY <1>1, <2>1, <2>4, TableFields, NoRowAssumption DEF Is
  <2> QED
    BY <2>1, <2>3, <2>4, <2>5, <2>6 DEF Owns, Is
<1>3. CASE q.op = "patch"
  <2>1. q.change \in Changes /\ q.entry \in EntryIds /\ Owns(d, q.user, q.entry)
    BY <1>3, RequestFields DEF Fits
  <2>2. TablesInv(UpdateEntry(d, q.user, q.entry, q.change))
    BY <2>1, UpdateEntryInv
  <2>3. PICK new : new = ApplyChange(d.entries[q.entry], q.change)
    OBVIOUS
  <2>4. /\ new \in Row /\ new.owner = d.entries[q.entry].owner
        /\ UpdateEntry(d, q.user, q.entry, q.change).entries =
              [d.entries EXCEPT ![q.entry] = new]
    BY <1>1, <2>1, <2>3, UpdateFields DEF Is
  <2>5. Owns(UpdateEntry(d, q.user, q.entry, q.change), q.user, q.entry)
    BY <1>1, <2>1, <2>4, TableFields, NoRowAssumption DEF Owns
  <2> QED
    BY <1>3, <2>1, <2>2, <2>5 DEF Based, EntryOf
<1>4. CASE q.op = "tags"
  BY <1>4, RequestFields DEF Based, EntryOf, Fits
<1> QED
  BY <1>2, <1>3, <1>4 DEF Tagging

LEMMA TaggedInv ==
    ASSUME NEW d, TablesInv(d), NEW q \in AllRequests, Fits(d, q), q.op \in Tagging,
           q.labels \in LabelLists
    PROVE  /\ TablesInv(Tagged(d, q)) /\ Owns(Tagged(d, q), q.user, EntryOf(d, q))
           /\ TablesInv(Joined(d, q)) /\ Owns(Joined(d, q), q.user, EntryOf(d, q))
           /\ TablesInv(Relinked(d, q)) /\ Owns(Relinked(d, q), q.user, EntryOf(d, q))
           /\ Tagged(d, q).entrySeq = Based(d, q).entrySeq
           /\ Joined(d, q).entrySeq = Based(d, q).entrySeq
<1>1. /\ q.labels \in Seq(Labels) /\ q.user \in Users
      /\ TablesInv(Based(d, q)) /\ Based(d, q) \in Tables
      /\ EntryOf(d, q) \in EntryIds /\ Owns(Based(d, q), q.user, EntryOf(d, q))
  BY BasedInv, RequestFields, ListsAssumption DEF TablesInv
<1>2. TablesInv(Tagged(d, q)) /\ Tagged(d, q) \in Tables
  BY <1>1, InsertTagsInv DEF Tagged, TablesInv
<1>3. Tagged(d, q).entries = Based(d, q).entries /\ Tagged(d, q).entrySeq = Based(d, q).entrySeq
  BY <1>1, InsertTagsFields DEF Tagged, Is
<1>4. Owns(Tagged(d, q), q.user, EntryOf(d, q))
  BY <1>1, <1>3 DEF Owns
<1>5. TablesInv(Joined(d, q))
  BY <1>1, <1>2, <1>4, LinksInv DEF Joined
<1>6. Joined(d, q).entries = Tagged(d, q).entries /\ Joined(d, q).entrySeq = Tagged(d, q).entrySeq
  BY <1>1, <1>2, <1>4, LinkFields DEF Joined, Is
<1>7. Owns(Joined(d, q), q.user, EntryOf(d, q))
  BY <1>4, <1>6 DEF Owns
<1> QED
  BY <1>1, <1>2, <1>3, <1>4, <1>5, <1>6, <1>7 DEF Relinked

LEMMA FinalInv ==
    ASSUME NEW d, TablesInv(d), NEW q \in AllRequests, Fits(d, q)
    PROVE  TablesInv(Final(d, q))
<1>1. CASE q.op \in Deletes
  <2>1. q.entry \in EntryIds /\ Owns(d, q.user, q.entry)
    BY <1>1, RequestFields DEF Fits, Deletes
  <2> QED
    BY <1>1, <2>1, DeleteEntryInv DEF Final
<1>2. CASE q.op = "untag"
  <2>1. q.entry \in EntryIds /\ Owns(d, q.user, q.entry)
    BY <1>2, RequestFields DEF Fits
  <2> QED
    BY <1>2, <2>1, LinksInv DEF Final, Deletes
<1>3. CASE q.op = "create"
  BY <1>3, RequestFields, TaggedInv DEF Final, Deletes, Tagging
<1>4. CASE q.op \in {"patch", "tags"}
  <2>1. q.op \in Tagging /\ q.op \notin Deletes /\ EntryOf(d, q) = q.entry
    BY <1>4 DEF Tagging, Deletes, EntryOf
  <2>2. CASE q.labels = None
    BY <1>4, <2>1, <2>2, BasedInv DEF Final
  <2>3. CASE q.labels # None
    <3>1. q.labels \in LabelLists /\ q.entry \in EntryIds
      BY <1>4, <2>3, RequestFields
    <3>2. TablesInv(Relinked(d, q)) /\ Owns(Relinked(d, q), q.user, q.entry)
      BY <2>1, <3>1, TaggedInv
    <3> QED
      BY <1>4, <2>1, <2>3, <3>1, <3>2, LinksInv DEF Final
  <2> QED
    BY <2>2, <2>3
<1> QED
  BY <1>1, <1>2, <1>3, <1>4, RequestFields DEF Ops, Tagging

-----------------------------------------------------------------------------
(* The invariant.                                                          *)

\* Which requests come to a statement.
StatementInv(p, q) ==
    /\ p # "idle" => q \in AllRequests
    /\ p = "find" => q.op \in Reads
    /\ p = "insert" => q.op = "create"
    /\ p = "update" => q.op = "patch"
    /\ p = "delete" => q.op \in Deletes
    /\ p = "untag" => q.op = "untag"
    /\ p \in {"insert_tags", "link_tags"} =>
           q.op \in Tagging /\ q.labels \in LabelLists /\ q.labels # <<>>
    /\ p = "trim_tags" => q.op \in {"patch", "tags"} /\ q.labels \in LabelLists

\* A request that has written holds the lock until it is over.
Holds(p, q) ==
    \/ p \in {"link_tags", "answer"}
    \/ p = "insert_tags" /\ q.op # "tags"
    \/ p = "trim_tags" /\ (q.op = "patch" \/ q.labels # <<>>)

\* A request that has read and not written.
Reading(p, q) ==
    p \notin {"idle", "find", "respond"} /\ q.op \in Reads /\ ~ Holds(p, q)

\* The draft of a request that is at the statement p.
DraftAt(p, d, q) ==
    IF p = "insert_tags" THEN Based(d, q)
    ELSE IF p = "link_tags" THEN Tagged(d, q)
    ELSE IF p = "trim_tags" THEN Relinked(d, q)
    ELSE Final(d, q)

WasRead(q, rd, d) == q.op = "delete_full" => rd = Show(d, q.entry)

DraftInv(p, q, rd, d, tables) ==
    Fits(d, q) /\ WasRead(q, rd, d) /\ tables = DraftAt(p, d, q)

SnapshotInv(q, rd, d) == Owns(d, q.user, q.entry) /\ WasRead(q, rd, d)

RequestInv(r) ==
    /\ StatementInv(pc[r], req[r])
    /\ lock = r <=> Holds(pc[r], req[r])
    /\ lock = r => DraftInv(pc[r], req[r], read[r], db, draft)
    /\ Reading(pc[r], req[r]) /\ r \notin stale => SnapshotInv(req[r], read[r], db)
    /\ reply[r] = None <=> pc[r] # "respond"

TypeInv ==
    /\ lock \in Requests \cup {None} /\ (lock = None => draft = None)
    /\ stale \in SUBSET Requests
    /\ pc \in [Requests -> Statements \cup {"idle", "respond"}]
    /\ req \in [Requests -> AllRequests \cup {None}]
    /\ read \in [Requests -> Replies \cup {None}]
    /\ reply \in [Requests -> Replies \cup {None}]

IInv == TypeInv /\ TablesInv(db) /\ \A r \in Requests : RequestInv(r)

LEMMA ReplyForms ==
    /\ \A d \in Tables, e \in EntryIds : Show(d, e) \in Replies
    /\ \A e \in EntryIds : DeletedId(e) \in Replies
<1>1. ASSUME NEW d \in Tables, NEW e \in EntryIds PROVE Show(d, e) \in Replies
  <2>1. CASE Convertible(d.entries[e])
    <3>1. d.entries[e] \in Row
      BY <2>1, TableFields DEF Convertible
    <3>2. {t \in d.tags : <<e, t.id>> \in d.links} \in SUBSET Tag
      BY TableFields
    <3> QED
      BY <2>1, <3>1, <3>2 DEF Show, Replies
  <2>2. CASE ~ Convertible(d.entries[e])
    BY <2>2 DEF Show, Replies
  <2> QED
    BY <2>1, <2>2
<1>2. \A e \in EntryIds : DeletedId(e) \in Replies
  BY DEF DeletedId, Replies
<1> QED
  BY <1>1, <1>2

\* The requests a step is not about.
LEMMA OtherRequest ==
    ASSUME NEW s \in Requests, RequestInv(s),
           pc'[s] = pc[s], req'[s] = req[s], read'[s] = read[s], reply'[s] = reply[s],
           lock' = s <=> lock = s, lock = s => draft' = draft,
           \/ db' = db /\ (s \in stale => s \in stale')
           \/ lock # s /\ (Reading(pc[s], req[s]) => s \in stale')
    PROVE  RequestInv(s)'
  BY DEF RequestInv

\* A statement that writes.
LEMMA WriteStep ==
    ASSUME IInv, NEW r \in Requests, NEW tables, NEW next \in Statements,
           Write(r, tables, next), pc[r] \notin {"idle", "respond"},
           StatementInv(next, req[r]), Holds(next, req[r]),
           DraftInv(next, req[r], read[r], db, tables)
    PROVE  IInv'
<1>1. /\ lock' = r /\ lock \in {r, None} /\ draft' = tables /\ pc' = [pc EXCEPT ![r] = next]
      /\ UNCHANGED <<db, stale, req, read, reply>>
  BY DEF Write
<1>2. r # None
  BY NoneAssumption
<1>3. TypeInv'
  BY <1>1, <1>2 DEF IInv, TypeInv
<1>4. ASSUME NEW s \in Requests \ {r} PROVE RequestInv(s)'
  <2>1. pc'[s] = pc[s] /\ lock # s /\ lock' # s
    BY <1>1, NoneAssumption DEF IInv, TypeInv
  <2> QED
    BY <1>1, <2>1, OtherRequest DEF IInv
<1>5. RequestInv(r)'
  <2>1. pc'[r] = next /\ next \notin {"idle", "respond"}
    BY <1>1 DEF IInv, TypeInv, Statements
  <2>2. reply'[r] = None
    BY <1>1 DEF IInv, RequestInv
  <2>3. ~ Reading(next, req[r])
    BY DEF Reading
  <2> QED
    BY <1>1, <2>1, <2>2, <2>3 DEF RequestInv
<1> QED
  BY <1>1, <1>3, <1>4, <1>5 DEF IInv

\* A request that is over without effect.
LEMMA FailStep ==
    ASSUME IInv, NEW r \in Requests, Fail(r), pc[r] # "respond"
    PROVE  IInv'
<1>1. /\ pc' = [pc EXCEPT ![r] = "idle"] /\ req' = [req EXCEPT ![r] = None]
      /\ read' = [read EXCEPT ![r] = None]
      /\ lock' = IF lock = r THEN None ELSE lock
      /\ draft' = IF lock = r THEN None ELSE draft
      /\ stale' = stale \ {r} /\ UNCHANGED <<db, reply>>
  BY DEF Fail
<1>2. TypeInv'
  BY <1>1 DEF IInv, TypeInv
<1>3. ASSUME NEW s \in Requests \ {r} PROVE RequestInv(s)'
  <2>1. /\ pc'[s] = pc[s] /\ req'[s] = req[s] /\ read'[s] = read[s]
        /\ lock' = s <=> lock = s
        /\ lock = s => draft' = draft
    BY <1>1, NoneAssumption DEF IInv, TypeInv
  <2> QED
    BY <1>1, <2>1, OtherRequest DEF IInv
<1>4. RequestInv(r)'
  <2>1. pc'[r] = "idle" /\ reply'[r] = None
    BY <1>1 DEF IInv, TypeInv, RequestInv
  <2>2. lock' # r
    BY <1>1, NoneAssumption
  <2>3. StatementInv("idle", req'[r]) /\ ~ Holds("idle", req'[r]) /\ ~ Reading("idle", req'[r])
    BY DEF StatementInv, Holds, Reading
  <2> QED
    BY <2>1, <2>2, <2>3 DEF RequestInv
<1> QED
  BY <1>1, <1>2, <1>3, <1>4 DEF IInv

\* A statement that commits at once, and no other request's.
LEMMA AutocommitStep ==
    ASSUME IInv, NEW tables, TablesInv(tables), Autocommit(tables)
    PROVE  IInv'
<1>1. /\ lock = None /\ db' = tables
      /\ stale' = stale \cup Readers \/ (db' = db /\ stale' = stale)
      /\ UNCHANGED <<draft, lock, pc, req, read, reply>>
  BY DEF Autocommit, CommitTables
<1>2. Readers \subseteq Requests
  BY DEF Readers
<1>3. TypeInv'
  BY <1>1, <1>2 DEF IInv, TypeInv
<1>4. ASSUME NEW s \in Requests PROVE RequestInv(s)'
  <2>1. lock # s
    BY <1>1, NoneAssumption
  <2>2. Reading(pc[s], req[s]) => s \in Readers
    BY <2>1 DEF Reading, Reads, Readers
  <2> QED
    BY <1>1, <2>1, <2>2, OtherRequest DEF IInv
<1> QED
  BY <1>1, <1>3, <1>4 DEF IInv

\* The entry that a request with the lock is about.
LEMMA TargetOf ==
    ASSUME IInv, NEW r \in Requests, lock = r, req[r].op \notin Deletes
    PROVE  Target(r) = EntryOf(db, req[r]) /\ Target(r) \in EntryIds
<1> DEFINE q == req[r]
<1>1. /\ StatementInv(pc[r], q) /\ Holds(pc[r], q) /\ q \in AllRequests
      /\ TablesInv(db) /\ Fits(db, q) /\ draft = DraftAt(pc[r], db, q)
  BY DEF IInv, RequestInv, DraftInv, StatementInv, Holds
<1>2. CASE q.op = "create"
  <2>1. Based(db, q).entrySeq = EntryOf(db, q) /\ EntryOf(db, q) \in EntryIds
    BY <1>1, <1>2, BasedInv DEF Tagging
  <2>2. q.labels \in LabelLists
    BY <1>1, <1>2, RequestFields
  <2>3. /\ Tagged(db, q).entrySeq = Based(db, q).entrySeq
        /\ Joined(db, q).entrySeq = Based(db, q).entrySeq
    BY <1>1, <1>2, <2>2, TaggedInv DEF Tagging
  <2>4. draft.entrySeq = Based(db, q).entrySeq
    BY <1>1, <1>2, <2>3 DEF DraftAt, Final, Relinked, Deletes, StatementInv
  <2> QED
    BY <1>2, <2>1, <2>4 DEF Target
<1>3. CASE q.op # "create"
  BY <1>1, <1>3, RequestFields DEF Target, EntryOf
<1> QED
  BY <1>2, <1>3

\* What is answered.
LEMMA AnswerForm ==
    ASSUME IInv, NEW r \in Requests, pc[r] = "answer"
    PROVE  /\ lock = r /\ req[r] \in AllRequests /\ Fits(db, req[r])
           /\ draft = Final(db, req[r]) /\ TablesInv(draft)
           /\ Answer(r) = CASE req[r].op = "delete_id" -> DeletedId(req[r].entry)
                            [] req[r].op = "delete_full" -> Show(db, req[r].entry)
                            [] req[r].op \notin Deletes -> Show(draft, EntryOf(db, req[r]))
           /\ Answer(r) \in Replies /\ Answer(r) # None
<1> DEFINE q == req[r]
<1>1. /\ lock = r /\ q \in AllRequests /\ TablesInv(db) /\ Fits(db, q)
      /\ draft = Final(db, q) /\ WasRead(q, read[r], db)
  BY DEF IInv, RequestInv, DraftInv, DraftAt, StatementInv, Holds
<1>2. TablesInv(draft) /\ draft \in Tables /\ db \in Tables
  BY <1>1, FinalInv DEF TablesInv
<1>3. q.op \in Deletes => q.entry \in EntryIds
  BY <1>1, RequestFields DEF Deletes
<1>4. CASE q.op = "delete_id"
  <2>1. Answer(r) = DeletedId(q.entry)
    BY <1>4 DEF Answer
  <2> QED
    BY <1>1, <1>2, <1>3, <1>4, <2>1, ReplyForms, NoneAssumption DEF Deletes
<1>5. CASE q.op = "delete_full"
  <2>1. Answer(r) = Show(db, q.entry)
    BY <1>1, <1>5 DEF Answer, WasRead
  <2> QED
    BY <1>1, <1>2, <1>3, <1>5, <2>1, ReplyForms, NoneAssumption DEF Deletes
<1>6. CASE q.op \notin Deletes
  <2>1. Target(r) = EntryOf(db, q) /\ Target(r) \in EntryIds
    BY <1>1, <1>6, TargetOf
  <2>2. Answer(r) = Show(draft, Target(r))
    BY <1>6 DEF Answer, Deletes
  <2> QED
    BY <1>1, <1>2, <1>6, <2>1, <2>2, ReplyForms, NoneAssumption DEF Deletes
<1> QED
  BY <1>4, <1>5, <1>6 DEF Deletes

-----------------------------------------------------------------------------
(* The steps.                                                              *)

LEMMA StartStep ==
    ASSUME IInv, NEW r \in Requests, NEW q \in Asked, Start(r, q)
    PROVE  IInv'
<1>1. /\ pc[r] = "idle" /\ pc' = [pc EXCEPT ![r] = FirstStatement(q)]
      /\ req' = [req EXCEPT ![r] = q] /\ UNCHANGED <<db, draft, lock, stale, read, reply>>
  BY DEF Start
<1>2. q \in AllRequests /\ q.op \in Ops
  BY AskedAssumption, RequestFields
<1>3. PICK p : p = FirstStatement(q)
  OBVIOUS
<1>4. p \in Statements /\ StatementInv(p, q) /\ ~ Holds(p, q) /\ ~ Reading(p, q)
  <2>1. CASE q.op = "create"
    <3>1. p = "insert"
      BY <1>3, <2>1 DEF FirstStatement
    <3> QED
      BY <1>2, <2>1, <3>1 DEF Statements, StatementInv, Holds, Reading, Reads
  <2>2. CASE q.op = "patch"
    <3>1. p = "update"
      BY <1>3, <2>2 DEF FirstStatement
    <3> QED
      BY <1>2, <2>2, <3>1 DEF Statements, StatementInv, Holds, Reading, Reads
  <2>3. CASE q.op = "delete_id"
    <3>1. p = "delete"
      BY <1>3, <2>3 DEF FirstStatement
    <3> QED
      BY <1>2, <2>3, <3>1 DEF Statements, StatementInv, Holds, Reading, Reads, Deletes
  <2>4. CASE q.op \in Reads
    <3>1. p = "find"
      BY <1>3, <2>4 DEF FirstStatement, Reads
    <3> QED
      BY <1>2, <2>4, <3>1 DEF Statements, StatementInv, Holds, Reading
  <2> QED
    BY <1>2, <2>1, <2>2, <2>3, <2>4 DEF Ops, Tagging, Deletes, Reads
<1>5. TypeInv'
  BY <1>1, <1>2, <1>3, <1>4 DEF IInv, TypeInv
<1>6. ASSUME NEW s \in Requests \ {r} PROVE RequestInv(s)'
  <2>1. pc'[s] = pc[s] /\ req'[s] = req[s]
    BY <1>1 DEF IInv, TypeInv
  <2> QED
    BY <1>1, <2>1, OtherRequest DEF IInv
<1>7. RequestInv(r)'
  <2>1. pc'[r] = p /\ req'[r] = q /\ p # "respond"
    BY <1>1, <1>3, <1>4 DEF IInv, TypeInv, Statements
  <2>2. lock # r /\ reply[r] = None
    BY <1>1 DEF IInv, RequestInv, Holds
  <2> QED
    BY <1>1, <1>4, <2>1, <2>2 DEF RequestInv
<1> QED
  BY <1>1, <1>5, <1>6, <1>7 DEF IInv

LEMMA FindStep ==
    ASSUME IInv, NEW r \in Requests, Find(r)
    PROVE  IInv'
<1> DEFINE q == req[r]
<1>1. /\ q \in AllRequests /\ q.op \in Reads /\ q.entry \in EntryIds
      /\ q.op = "tags" => q.labels \in LabelLists
  <2>1. q \in AllRequests /\ q.op \in Reads
    BY DEF Find, IInv, RequestInv, StatementInv
  <2> QED
    BY <2>1, RequestFields DEF Reads
<1>2. PICK p : p = CASE q.op = "tags" -> TagStatement(q.labels, "trim_tags")
                     [] q.op = "untag" -> "untag"
                     [] q.op = "delete_full" -> "delete"
  OBVIOUS
<1>3. PICK rd : rd = IF q.op = "delete_full" THEN Show(db, q.entry) ELSE None
  OBVIOUS
<1>4. /\ pc[r] = "find" /\ Owns(db, q.user, q.entry)
      /\ pc' = [pc EXCEPT ![r] = p] /\ read' = [read EXCEPT ![r] = rd]
      /\ UNCHANGED <<db, draft, lock, stale, req, reply>>
  BY <1>2, <1>3 DEF Find
<1>5. p \in Statements /\ StatementInv(p, q) /\ ~ Holds(p, q)
  <2>1. CASE q.op = "tags"
    <3>1. p = IF q.labels = <<>> THEN "trim_tags" ELSE "insert_tags"
      BY <1>2, <2>1 DEF TagStatement
    <3> QED
      BY <1>1, <2>1, <3>1 DEF Statements, StatementInv, Holds, Tagging
  <2>2. CASE q.op = "untag"
    BY <1>1, <1>2, <2>2 DEF Statements, StatementInv, Holds
  <2>3. CASE q.op = "delete_full"
    BY <1>1, <1>2, <2>3 DEF Statements, StatementInv, Holds, Deletes
  <2> QED
    BY <1>1, <2>1, <2>2, <2>3 DEF Reads
<1>6. SnapshotInv(q, rd, db) /\ rd \in Replies \cup {None}
  <2>1. Show(db, q.entry) \in Replies
    BY <1>1, ReplyForms DEF IInv, TablesInv
  <2> QED
    BY <1>3, <1>4, <2>1 DEF SnapshotInv, WasRead
<1>7. TypeInv'
  BY <1>4, <1>5, <1>6 DEF IInv, TypeInv
<1>8. ASSUME NEW s \in Requests \ {r} PROVE RequestInv(s)'
  <2>1. pc'[s] = pc[s] /\ read'[s] = read[s]
    BY <1>4 DEF IInv, TypeInv
  <2> QED
    BY <1>4, <2>1, OtherRequest DEF IInv
<1>9. RequestInv(r)'
  <2>1. pc'[r] = p /\ read'[r] = rd /\ p # "respond"
    BY <1>4, <1>5 DEF IInv, TypeInv, Statements
  <2>2. lock # r /\ reply[r] = None
    BY <1>4 DEF IInv, RequestInv, Holds
  <2> QED
    BY <1>4, <1>5, <1>6, <2>1, <2>2 DEF RequestInv
<1> QED
  BY <1>4, <1>7, <1>8, <1>9 DEF IInv

LEMMA InsertStep ==
    ASSUME IInv, NEW r \in Requests, Insert(r)
    PROVE  IInv'
<1> DEFINE q == req[r]
<1>1. PICK p : p = TagStatement(q.labels, "answer")
  OBVIOUS
<1>2. /\ pc[r] = "insert" /\ db.entrySeq < MaxEntries
      /\ Write(r, InsertEntry(db, NewEntryRow(q.user, q.document, q.marks, q.origin)), p)
  BY <1>1 DEF Insert
<1>3. q \in AllRequests /\ q.op = "create" /\ q.labels \in LabelLists
  BY <1>2, RequestFields DEF IInv, RequestInv, StatementInv
<1>4. p = IF q.labels = <<>> THEN "answer" ELSE "insert_tags"
  BY <1>1 DEF TagStatement
<1>5. p \in Statements /\ StatementInv(p, q) /\ Holds(p, q)
  BY <1>3, <1>4 DEF Statements, StatementInv, Holds, Tagging
<1>6. InsertEntry(db, NewEntryRow(q.user, q.document, q.marks, q.origin)) = DraftAt(p, db, q)
  BY <1>3, <1>4 DEF DraftAt, Based, Final, Relinked, Deletes
<1>7. Fits(db, q) /\ WasRead(q, read[r], db)
  BY <1>2, <1>3 DEF Fits, WasRead
<1> QED
  BY <1>2, <1>5, <1>6, <1>7, WriteStep DEF DraftInv

LEMMA UpdateStep ==
    ASSUME IInv, NEW r \in Requests, Update(r)
    PROVE  IInv'
<1> DEFINE q == req[r]
<1>1. PICK p : p = IF q.labels = None THEN "answer" ELSE TagStatement(q.labels, "trim_tags")
  OBVIOUS
<1>2. /\ pc[r] = "update" /\ Owns(db, q.user, q.entry)
      /\ Write(r, UpdateEntry(db, q.user, q.entry, q.change), p)
  BY <1>1 DEF Update
<1>3. q \in AllRequests /\ q.op = "patch" /\ q.labels \in LabelLists \cup {None}
  BY <1>2, RequestFields DEF IInv, RequestInv, StatementInv
<1>4. p = IF q.labels = None THEN "answer"
          ELSE IF q.labels = <<>> THEN "trim_tags" ELSE "insert_tags"
  BY <1>1 DEF TagStatement
<1>5. p \in Statements /\ StatementInv(p, q) /\ Holds(p, q)
  BY <1>3, <1>4 DEF Statements, StatementInv, Holds, Tagging
<1>6. UpdateEntry(db, q.user, q.entry, q.change) = DraftAt(p, db, q)
  BY <1>3, <1>4 DEF DraftAt, Based, Final, Relinked, Deletes
<1>7. Fits(db, q) /\ WasRead(q, read[r], db)
  BY <1>2, <1>3 DEF Fits, WasRead
<1> QED
  BY <1>2, <1>5, <1>6, <1>7, WriteStep DEF DraftInv

\* A reader that may write has read what is committed.
LEMMA FreshReader ==
    ASSUME IInv, NEW r \in Requests, Reading(pc[r], req[r]),
           lock = r \/ (lock = None /\ r \notin stale)
    PROVE  Seen(r) = db /\ SnapshotInv(req[r], read[r], db)
  BY NoneAssumption DEF IInv, RequestInv, Reading, Seen

LEMMA DeleteStep ==
    ASSUME IInv, NEW r \in Requests, Delete(r)
    PROVE  IInv'
<1> DEFINE q == req[r]
<1>1. /\ pc[r] = "delete" /\ Owns(db, q.user, q.entry)
      /\ Write(r, DeleteEntry(db, q.user, q.entry), "answer")
  BY DEF Delete
<1>2. q \in AllRequests /\ q.op \in Deletes
  BY <1>1 DEF IInv, RequestInv, StatementInv
<1>3. StatementInv("answer", q) /\ Holds("answer", q) /\ "answer" \in Statements
  BY <1>2 DEF StatementInv, Holds, Statements
<1>4. Fits(db, q)
  BY <1>1, <1>2 DEF Fits, Deletes
<1>5. WasRead(q, read[r], db)
  <2>1. CASE q.op = "delete_full"
    <3>1. Reading(pc[r], q)
      BY <1>1, <2>1 DEF Reading, Reads, Holds
    <3> QED
      BY <1>1, <3>1, FreshReader DEF Write, SnapshotInv
  <2> QED
    BY <2>1 DEF WasRead
<1>6. DeleteEntry(db, q.user, q.entry) = DraftAt("answer", db, q)
  BY <1>2 DEF DraftAt, Final
<1> QED
  BY <1>1, <1>3, <1>4, <1>5, <1>6, WriteStep DEF DraftInv

LEMMA DeleteLinkStep ==
    ASSUME IInv, NEW r \in Requests, DeleteLink(r)
    PROVE  IInv'
<1> DEFINE q == req[r]
<1>1. pc[r] = "untag" /\ Write(r, Untag(db, q.user, q.entry, q.tag), "answer")
  BY DEF DeleteLink
<1>2. q \in AllRequests /\ q.op = "untag"
  BY <1>1 DEF IInv, RequestInv, StatementInv
<1>3. StatementInv("answer", q) /\ Holds("answer", q) /\ "answer" \in Statements
  BY <1>2 DEF StatementInv, Holds, Statements
<1>4. Reading(pc[r], q)
  BY <1>1, <1>2 DEF Reading, Reads, Holds
<1>5. Fits(db, q) /\ WasRead(q, read[r], db)
  BY <1>1, <1>2, <1>4, FreshReader DEF Write, SnapshotInv, Fits
<1>6. Untag(db, q.user, q.entry, q.tag) = DraftAt("answer", db, q)
  BY <1>2 DEF DraftAt, Final, Deletes
<1> QED
  BY <1>1, <1>3, <1>5, <1>6, WriteStep DEF DraftInv

LEMMA InsertNewTagsStep ==
    ASSUME IInv, NEW r \in Requests, InsertNewTags(r)
    PROVE  IInv'
<1> DEFINE q == req[r]
<1>1. pc[r] = "insert_tags" /\ Write(r, InsertTags(Seen(r), q.user, q.labels), "link_tags")
  BY DEF InsertNewTags
<1>2. /\ q \in AllRequests /\ q.op \in Tagging /\ q.labels \in LabelLists /\ q.labels # <<>>
  BY <1>1 DEF IInv, RequestInv, StatementInv
<1>3. StatementInv("link_tags", q) /\ Holds("link_tags", q) /\ "link_tags" \in Statements
  BY <1>2 DEF StatementInv, Holds, Statements
<1>4. Seen(r) = Based(db, q) /\ Fits(db, q) /\ WasRead(q, read[r], db)
  <2>1. CASE q.op = "tags"
    <3>1. Reading(pc[r], q)
      BY <1>1, <2>1 DEF Reading, Reads, Holds
    <3> QED
      BY <1>1, <2>1, <3>1, FreshReader DEF Write, SnapshotInv, Fits, Based
  <2>2. CASE q.op # "tags"
    BY <1>1, <2>2 DEF IInv, RequestInv, Holds, DraftInv, DraftAt, Seen
  <2> QED
    BY <2>1, <2>2
<1>5. InsertTags(Seen(r), q.user, q.labels) = DraftAt("link_tags", db, q)
  BY <1>4 DEF DraftAt, Tagged
<1> QED
  BY <1>1, <1>3, <1>4, <1>5, WriteStep DEF DraftInv

LEMMA LinkStep ==
    ASSUME IInv, NEW r \in Requests, Link(r)
    PROVE  IInv'
<1> DEFINE q == req[r]
<1>1. PICK p : p = IF q.op = "create" THEN "answer" ELSE "trim_tags"
  OBVIOUS
<1>2. pc[r] = "link_tags" /\ Write(r, LinkTags(draft, q.user, Target(r), q.labels), p)
  BY <1>1 DEF Link
<1>3. /\ q \in AllRequests /\ q.op \in Tagging /\ q.labels \in LabelLists /\ q.labels # <<>>
      /\ lock = r /\ draft = Tagged(db, q) /\ Fits(db, q) /\ WasRead(q, read[r], db)
  BY <1>2 DEF IInv, RequestInv, StatementInv, Holds, DraftInv, DraftAt
<1>4. p \in Statements /\ StatementInv(p, q) /\ Holds(p, q)
  BY <1>1, <1>3 DEF Statements, StatementInv, Holds, Tagging
<1>5. Target(r) = EntryOf(db, q)
  BY <1>3, TargetOf DEF Tagging, Deletes
<1>6. LinkTags(draft, q.user, Target(r), q.labels) = DraftAt(p, db, q)
  BY <1>1, <1>3, <1>5 DEF DraftAt, Final, Relinked, Joined, Deletes
<1> QED
  BY <1>2, <1>3, <1>4, <1>6, WriteStep DEF DraftInv

LEMMA TrimStep ==
    ASSUME IInv, NEW r \in Requests, Trim(r)
    PROVE  IInv'
<1> DEFINE q == req[r]
<1>1. /\ pc[r] = "trim_tags"
      /\ Write(r, TrimTags(Seen(r), q.user, q.entry, q.labels), "answer")
  BY DEF Trim
<1>2. q \in AllRequests /\ q.op \in {"patch", "tags"} /\ q.labels \in LabelLists
  BY <1>1 DEF IInv, RequestInv, StatementInv
<1>3. StatementInv("answer", q) /\ Holds("answer", q) /\ "answer" \in Statements
  BY <1>2 DEF StatementInv, Holds, Statements
<1>4. Seen(r) = Relinked(db, q) /\ Fits(db, q) /\ WasRead(q, read[r], db)
  <2>1. CASE q.op = "tags" /\ q.labels = <<>>
    <3>1. Reading(pc[r], q)
      BY <1>1, <2>1 DEF Reading, Reads, Holds
    <3> QED
      BY <1>1, <2>1, <3>1, FreshReader DEF Write, SnapshotInv, Fits, Relinked, Based
  <2>2. CASE q.op = "patch" \/ q.labels # <<>>
    BY <1>1, <2>2 DEF IInv, RequestInv, Holds, DraftInv, DraftAt, Seen
  <2> QED
    BY <1>2, <2>1, <2>2
<1>5. TrimTags(Seen(r), q.user, q.entry, q.labels) = DraftAt("answer", db, q)
  BY <1>2, <1>4, NoneAssumption DEF DraftAt, Final, Deletes
<1> QED
  BY <1>1, <1>3, <1>4, <1>5, WriteStep DEF DraftInv

LEMMA CommitStep ==
    ASSUME IInv, NEW r \in Requests, Commit(r)
    PROVE  IInv'
<1>1. PICK answer : answer = Answer(r)
  OBVIOUS
<1>2. /\ pc[r] = "answer" /\ pc' = [pc EXCEPT ![r] = "respond"]
      /\ reply' = [reply EXCEPT ![r] = answer] /\ read' = [read EXCEPT ![r] = None]
      /\ db' = draft /\ (stale' = stale \cup Readers \/ (db' = db /\ stale' = stale))
      /\ lock' = None /\ draft' = None /\ req' = req
  BY <1>1 DEF Commit, CommitTables
<1>3. /\ lock = r /\ TablesInv(draft) /\ answer \in Replies /\ answer # None
      /\ req[r] \in AllRequests
  BY <1>1, <1>2, AnswerForm
<1>4. Readers \subseteq Requests
  BY DEF Readers
<1>5. TypeInv'
  BY <1>2, <1>3, <1>4 DEF IInv, TypeInv
<1>6. ASSUME NEW s \in Requests \ {r} PROVE RequestInv(s)'
  <2>1. pc'[s] = pc[s] /\ reply'[s] = reply[s] /\ read'[s] = read[s]
    BY <1>2 DEF IInv, TypeInv
  <2>2. lock # s /\ lock' # s
    BY <1>2, <1>3, NoneAssumption
  <2>3. Reading(pc[s], req[s]) => s \in Readers
    BY <2>2 DEF Reading, Reads, Readers
  <2> QED
    BY <1>2, <2>1, <2>2, <2>3, OtherRequest DEF IInv
<1>7. RequestInv(r)'
  <2>1. pc'[r] = "respond" /\ reply'[r] # None /\ req'[r] \in AllRequests
    BY <1>2, <1>3 DEF IInv, TypeInv
  <2>2. lock' # r
    BY <1>2, NoneAssumption
  <2>3. /\ StatementInv("respond", req'[r]) /\ ~ Holds("respond", req'[r])
        /\ ~ Reading("respond", req'[r])
    BY <2>1 DEF StatementInv, Holds, Reading
  <2> QED
    BY <2>1, <2>2, <2>3 DEF RequestInv
<1> QED
  BY <1>2, <1>3, <1>5, <1>6, <1>7 DEF IInv

LEMMA RespondStep ==
    ASSUME IInv, NEW r \in Requests, Respond(r)
    PROVE  IInv'
<1>1. /\ pc[r] = "respond" /\ pc' = [pc EXCEPT ![r] = "idle"]
      /\ req' = [req EXCEPT ![r] = None] /\ reply' = [reply EXCEPT ![r] = None]
      /\ UNCHANGED <<db, draft, lock, stale, read>>
  BY DEF Respond
<1>2. TypeInv'
  BY <1>1 DEF IInv, TypeInv
<1>3. ASSUME NEW s \in Requests \ {r} PROVE RequestInv(s)'
  <2>1. pc'[s] = pc[s] /\ req'[s] = req[s] /\ reply'[s] = reply[s]
    BY <1>1 DEF IInv, TypeInv
  <2> QED
    BY <1>1, <2>1, OtherRequest DEF IInv
<1>4. RequestInv(r)'
  <2>1. pc'[r] = "idle" /\ reply'[r] = None
    BY <1>1 DEF IInv, TypeInv
  <2>2. lock' # r
    BY <1>1 DEF IInv, RequestInv, Holds
  <2>3. StatementInv("idle", req'[r]) /\ ~ Holds("idle", req'[r]) /\ ~ Reading("idle", req'[r])
    BY DEF StatementInv, Holds, Reading
  <2> QED
    BY <2>1, <2>2, <2>3 DEF RequestInv
<1> QED
  BY <1>1, <1>2, <1>3, <1>4 DEF IInv

LEMMA InitInv == Init => IInv
<1> SUFFICES ASSUME Init PROVE IInv
  OBVIOUS
<1>1. TypeInv
  BY DEF Init, TypeInv
<1>2. TablesInv(db)
  BY EmptyInv DEF Init
<1>3. ASSUME NEW r \in Requests PROVE RequestInv(r)
  <2>1. pc[r] = "idle" /\ reply[r] = None /\ lock # r
    BY NoneAssumption DEF Init
  <2>2. StatementInv("idle", req[r]) /\ ~ Holds("idle", req[r]) /\ ~ Reading("idle", req[r])
    BY DEF StatementInv, Holds, Reading
  <2> QED
    BY <2>1, <2>2 DEF RequestInv
<1> QED
  BY <1>1, <1>2, <1>3 DEF IInv

LEMMA HandlerInv ==
    ASSUME IInv, NEW r \in Requests, Handler(r) \/ Abort(r)
    PROVE  IInv'
<1>1. CASE NotFound(r) \/ TooManyTags(r) \/ AnswerFails(r) \/ UpgradeRefused(r) \/ Abort(r)
  <2>1. Fail(r) /\ pc[r] # "respond"
    BY <1>1 DEF NotFound, TooManyTags, AnswerFails, UpgradeRefused, Abort, Readers
  <2> QED
    BY <2>1, FailStep
<1>2. CASE Find(r) \/ Commit(r) \/ Respond(r)
  BY <1>2, FindStep, CommitStep, RespondStep
<1>3. CASE Insert(r) \/ Update(r) \/ Delete(r) \/ DeleteLink(r)
  BY <1>3, InsertStep, UpdateStep, DeleteStep, DeleteLinkStep
<1>4. CASE InsertNewTags(r) \/ Link(r) \/ Trim(r)
  BY <1>4, InsertNewTagsStep, LinkStep, TrimStep
<1> QED
  BY <1>1, <1>2, <1>3, <1>4 DEF Handler

LEMMA SingleStatements ==
    ASSUME IInv, NEW tables, Autocommit(tables),
           \/ \E u \in Users, e \in EntryIds :
                 /\ Owns(db, u, e)
                 /\ \/ tables = DeleteEntry(db, u, e)
                    \/ \E c \in UiChanges : tables = UpdateEntry(db, u, e, c)
           \/ \E gone \in SUBSET db.tags : tables = DeleteTags(db, gone)
           \/ tables = db
    PROVE  IInv'
<1>1. TablesInv(db)
  BY DEF IInv
<1>2. UiChanges \subseteq Changes
  BY DEF UiChanges
<1>3. TablesInv(tables)
  BY <1>1, <1>2, DeleteEntryInv, UpdateEntryInv, DeleteTagsInv
<1> QED
  BY <1>3, AutocommitStep

LEMMA NextInv == IInv /\ [Next]_vars => IInv'
<1> SUFFICES ASSUME IInv, [Next]_vars PROVE IInv'
  OBVIOUS
<1>1. ASSUME NEW r \in Requests, Handler(r) \/ Abort(r) PROVE IInv'
  BY <1>1, HandlerInv
<1>2. ASSUME NEW r \in Requests, NEW q \in Asked, Start(r, q) PROVE IInv'
  BY <1>2, StartStep
<1>3. ASSUME NEW u \in Users, NEW e \in EntryIds,
             UiDelete(u, e) \/ \E c \in UiChanges : UiUpdate(u, e, c)
      PROVE  IInv'
  BY <1>3, SingleStatements DEF UiDelete, UiUpdate
<1>4. ASSUME NEW u \in Users, NEW ls \in LabelLists, DeleteTagsByLabel(u, ls) PROVE IInv'
  <2>1. Named(db, u, ls) \in SUBSET db.tags
    BY DEF Named
  <2> QED
    BY <1>4, <2>1, SingleStatements DEF DeleteTagsByLabel
<1>5. ASSUME NEW t \in db.tags, DeleteTagById(t) PROVE IInv'
  <2>1. {t} \in SUBSET db.tags
    OBVIOUS
  <2> QED
    BY <1>5, <2>1, SingleStatements DEF DeleteTagById
<1>6. CASE OtherCommit
  BY <1>6, SingleStatements DEF OtherCommit
<1>7. CASE UNCHANGED vars
  BY <1>7 DEF vars, IInv, TypeInv, RequestInv
<1> QED
  BY <1>1, <1>2, <1>3, <1>4, <1>5, <1>6, <1>7 DEF Next

THEOREM IInvAlways == Spec => []IInv
  BY InitInv, NextInv, PTL DEF Spec

\* Type correctness.
THEOREM TypeCorrect == Spec => []TypeOK
<1>1. IInv => TypeOK
  <2> SUFFICES ASSUME IInv PROVE TypeOK
    OBVIOUS
  <2>1. draft \in Tables \cup {None}
    <3>1. CASE lock = None
      BY <3>1 DEF IInv, TypeInv
    <3>2. CASE lock # None
      <4>1. PICK r \in Requests : lock = r
        BY <3>2 DEF IInv, TypeInv
      <4> DEFINE q == req[r]
      <4>2. /\ Holds(pc[r], q) /\ StatementInv(pc[r], q) /\ q \in AllRequests
            /\ TablesInv(db) /\ Fits(db, q) /\ draft = DraftAt(pc[r], db, q)
        BY <4>1 DEF IInv, RequestInv, DraftInv, StatementInv, Holds
      <4>3. CASE pc[r] \in {"insert_tags", "link_tags", "trim_tags"}
        <5>1. q.op \in Tagging /\ q.labels \in LabelLists
          BY <4>2, <4>3 DEF StatementInv, Tagging
        <5>2. TablesInv(Based(db, q)) /\ TablesInv(Tagged(db, q)) /\ TablesInv(Relinked(db, q))
          BY <4>2, <5>1, BasedInv, TaggedInv
        <5> QED
          BY <4>2, <4>3, <5>2 DEF DraftAt, TablesInv
      <4>4. CASE pc[r] \notin {"insert_tags", "link_tags", "trim_tags"}
        <5>1. TablesInv(Final(db, q))
          BY <4>2, FinalInv
        <5> QED
          BY <4>2, <4>4, <5>1 DEF DraftAt, TablesInv
      <4> QED
        BY <4>3, <4>4
    <3> QED
      BY <3>1, <3>2
  <2> QED
    BY <2>1 DEF IInv, TypeInv, TablesInv, TypeOK
<1> QED
  BY <1>1, IInvAlways, PTL

\* A link never joins an entry with a tag that is gone, that took the id of another
\* or that belongs to another user.
THEOREM LinksStayWithTheOwner == Spec => []OneOwner
<1>1. IInv => OneOwner
  BY DEF IInv, TablesInv, OneOwner
<1> QED
  BY <1>1, IInvAlways, PTL

\* entries_fts holds exactly the titles and texts of the committed rows.
THEOREM SearchIsExact == Spec => []SearchMirrorsEntries
<1>1. IInv => SearchMirrorsEntries
  BY DEF IInv, TablesInv, SearchMirrorsEntries
<1> QED
  BY <1>1, IInvAlways, PTL

\* archived_at, starred_at and uid are set exactly with their flags.
THEOREM FlagsAreDated == Spec => []FlagsMatchDates
<1>1. IInv => FlagsMatchDates
  BY DEF IInv, TablesInv, FlagsMatchDates
<1> QED
  BY <1>1, IInvAlways, PTL

-----------------------------------------------------------------------------
(* What a request does to the committed tables.                            *)

\* The rows of the entries after a request.
FinalRows(d, f, q, e) ==
    \/ /\ q.op = "create" /\ d.entries[e] = None
       /\ \E row \in Row : row.owner = q.user /\ f.entries = [d.entries EXCEPT ![e] = row]
    \/ /\ q.op = "patch" /\ Owns(d, q.user, e)
       /\ f.entries = [d.entries EXCEPT ![e] = ApplyChange(d.entries[e], q.change)]
    \/ q.op \in {"tags", "untag"} /\ Owns(d, q.user, e) /\ f.entries = d.entries
    \/ /\ q.op \in Deletes /\ Owns(d, q.user, e)
       /\ f.entries = [d.entries EXCEPT ![e] = None]

LEMMA BasedRows ==
    ASSUME NEW d, TablesInv(d), NEW q \in AllRequests, Fits(d, q), q.op \in Tagging
    PROVE  /\ FinalRows(d, Based(d, q), q, EntryOf(d, q))
           /\ Based(d, q).tags = d.tags /\ Based(d, q).links = d.links
           /\ q.op = "create" => d.links = {l \in d.links : l[1] # EntryOf(d, q)}
<1>1. d \in Tables
  BY DEF TablesInv
<1>2. CASE q.op = "create"
  <2> DEFINE row == NewEntryRow(q.user, q.document, q.marks, q.origin)
             e   == d.entrySeq + 1
  <2>1. row \in Row /\ row.owner = q.user
    BY <1>2, RequestFields DEF NewEntryRow, Row
  <2>2. d.entrySeq < MaxEntries /\ Based(d, q) = InsertEntry(d, row) /\ EntryOf(d, q) = e
    BY <1>2 DEF Fits, Based, EntryOf
  <2> HIDE DEF row
  <2>3. e \in EntryIds
        /\ Is(InsertEntry(d, row), [d.entries EXCEPT ![e] = row], e, d.tags, d.tagSeq,
              d.links, d.index \cup {Posting(e, row)})
    BY <1>1, <2>1, <2>2, InsertEntryFields
  <2>4. d.entries[e] = None
    <3>1. ~ (e <= d.entrySeq)
      BY <1>1, TableFields, MaxEntriesAssumption
    <3> QED
      BY <2>3, <3>1 DEF TablesInv, Numbered
  <2>5. \A l \in d.links : l[1] # e
    BY <2>4 DEF TablesInv, LinksJoinOneOwner, Owns
  <2>6. d.links = {l \in d.links : l[1] # e}
    BY <2>5
  <2> QED
    BY <1>2, <2>1, <2>2, <2>3, <2>4, <2>6 DEF Is, FinalRows
<1>3. CASE q.op = "patch"
  <2>1. q.change \in Changes /\ q.entry \in EntryIds /\ Owns(d, q.user, q.entry)
    BY <1>3, RequestFields DEF Fits
  <2>2. PICK new : new = ApplyChange(d.entries[q.entry], q.change)
    OBVIOUS
  <2>3. LET c == UpdateEntry(d, q.user, q.entry, q.change)
        IN  c.entries = [d.entries EXCEPT ![q.entry] = new] /\ c.tags = d.tags
            /\ c.links = d.links
    BY <1>1, <2>1, <2>2, UpdateFields DEF Is
  <2> QED
    BY <1>3, <2>1, <2>2, <2>3 DEF Based, EntryOf, FinalRows
<1>4. CASE q.op = "tags"
  BY <1>4 DEF Based, EntryOf, Fits, FinalRows
<1> QED
  BY <1>2, <1>3, <1>4 DEF Tagging

\* TagsGrow of EntryService, on tables.
Grown(old, new, u, ls) ==
    /\ old \subseteq new
    /\ \A t \in new \ old :
          /\ t.owner = u /\ t.label \in LabelsOf(ls)
          /\ \A s \in new \ {t} :
                s.id # t.id /\ (s.owner = u => Slug[s.label] # Slug[t.label])
    /\ \A l \in LabelsOf(ls) : \E t \in new : t.owner = u /\ Slug[t.label] = Slug[l]

\* The first of some positions.
LEMMA FirstPosition ==
    ASSUME NEW S \in SUBSET Nat, S # {}
    PROVE  \E i \in S : \A j \in S : ~ (j < i)
<1> DEFINE R == OpToRel(<, Nat)
<1>1. IsWellFoundedOn(R, Nat)
  BY NatLessThanWellFounded
<1> HIDE DEF R
<1>2. PICK i \in S : \A j \in S : ~ (<<j, i>> \in R)
  BY <1>1, WFMin
<1> QED
  BY <1>2 DEF R, OpToRel

\* INSERT ... ON CONFLICT DO NOTHING leaves a tag of every slug that was asked for.
LEMMA InsertTagsGrows ==
    ASSUME NEW d, TablesInv(d), NEW u \in Users, NEW ls \in Seq(Labels)
    PROVE  Grown(d.tags, InsertTags(d, u, ls).tags, u, ls)
<1>0. PICK added : added = {[id |-> d.tagSeq + i, owner |-> u, label |-> ls[i]]
                               : i \in NewPositions(d, u, ls)}
  OBVIOUS
<1>1. PICK new : new = InsertTags(d, u, ls).tags
  OBVIOUS
<1>2. Len(ls) \in Nat /\ new = d.tags \cup added
  <2>1. d \in Tables
    BY DEF TablesInv
  <2>2. /\ Len(ls) \in Nat
        /\ Is(InsertTags(d, u, ls), d.entries, d.entrySeq, d.tags \cup added,
              d.tagSeq + Len(ls), d.links, d.index)
    BY <1>0, <2>1, InsertTagsFields
  <2> QED
    BY <1>1, <2>2 DEF Is
<1>3. \A s, t \in new : s.id = t.id => s = t
  <2>1. TablesInv(InsertTags(d, u, ls))
    BY InsertTagsInv
  <2> QED
    BY <1>1, <2>1 DEF TablesInv, Numbered
<1>4. ASSUME NEW t \in new \ d.tags
      PROVE  /\ t.owner = u /\ t.label \in LabelsOf(ls)
             /\ \A s \in new \ {t} :
                   s.id # t.id /\ (s.owner = u => Slug[s.label] # Slug[t.label])
  <2>1. PICK i \in NewPositions(d, u, ls) : t = [id |-> d.tagSeq + i, owner |-> u, label |-> ls[i]]
    BY <1>0, <1>2
  <2>2. t.owner = u /\ t.label = ls[i] /\ i \in 1..Len(ls) /\ t.label \in LabelsOf(ls)
    BY <2>1 DEF NewPositions, LabelsOf
  <2>3. ASSUME NEW s \in new \ {t}, s.owner = u PROVE Slug[s.label] # Slug[t.label]
    <3>1. CASE s \in d.tags
      BY <2>2, <2>3, <3>1 DEF NewPositions
    <3>2. CASE s \in added
      <4>1. PICK j \in NewPositions(d, u, ls) : s = [id |-> d.tagSeq + j, owner |-> u, label |-> ls[j]]
        BY <1>0, <3>2
      <4>2. j \in 1..Len(ls) /\ s.label = ls[j] /\ j # i
        BY <2>1, <2>3, <4>1 DEF NewPositions
      <4>3. j \in 1..(i - 1) \/ i \in 1..(j - 1)
        BY <1>2, <2>2, <4>2
      <4>4. j \in 1..(i - 1) => Slug[ls[j]] # Slug[ls[i]]
        BY DEF NewPositions
      <4>5. i \in 1..(j - 1) => Slug[ls[i]] # Slug[ls[j]]
        BY DEF NewPositions
      <4> QED
        BY <2>2, <4>2, <4>3, <4>4, <4>5
    <3> QED
      BY <1>2, <2>3, <3>1, <3>2
  <2> QED
    BY <1>3, <2>2, <2>3
<1>5. ASSUME NEW l \in LabelsOf(ls)
      PROVE  \E t \in new : t.owner = u /\ Slug[t.label] = Slug[l]
  <2>1. CASE \E t \in d.tags : t.owner = u /\ Slug[t.label] = Slug[l]
    BY <1>2, <2>1
  <2>2. CASE ~ \E t \in d.tags : t.owner = u /\ Slug[t.label] = Slug[l]
    <3> DEFINE S == {i \in 1..Len(ls) : Slug[ls[i]] = Slug[l]}
    <3>1. S \in SUBSET Nat /\ S # {}
      BY <1>2 DEF LabelsOf
    <3>2. PICK i \in S : \A j \in S : ~ (j < i)
      BY <3>1, FirstPosition
    <3>3. \A j \in 1..(i - 1) : Slug[ls[j]] # Slug[ls[i]]
      BY <1>2, <3>2
    <3>4. i \in NewPositions(d, u, ls)
      BY <2>2, <3>2, <3>3 DEF NewPositions
    <3>5. [id |-> d.tagSeq + i, owner |-> u, label |-> ls[i]] \in new
      BY <1>0, <1>2, <3>4
    <3> QED
      BY <3>2, <3>5
  <2> QED
    BY <2>1, <2>2
<1> QED
  BY <1>1, <1>2, <1>4, <1>5 DEF Grown

\* A request that carries labels: the tags there are grow, the links of its entry
\* become those to the tags that carry one of the labels.
LEMMA Retagged ==
    ASSUME NEW d, TablesInv(d), NEW q \in AllRequests, Fits(d, q), q.op \in Tagging,
           q.labels \in LabelLists,
           NEW f, f = Final(d, q), NEW e, e = EntryOf(d, q)
    PROVE  /\ FinalRows(d, f, q, e) /\ Grown(d.tags, f.tags, q.user, q.labels)
           /\ f.links = {l \in d.links : l[1] # e}
                           \cup ({e} \X Ids(Named(f, q.user, q.labels)))
<1> DEFINE u == q.user
           ls == q.labels
           b == Based(d, q)
           g == Relinked(d, q)
<1>1. /\ ls \in Seq(Labels) /\ u \in Users /\ ls # None
      /\ TablesInv(b) /\ b \in Tables /\ d \in Tables /\ e \in EntryIds /\ Owns(b, u, e)
  BY BasedInv, RequestFields, ListsAssumption, NoneAssumption DEF TablesInv
<1>2. /\ FinalRows(d, b, q, e) /\ b.tags = d.tags /\ b.links = d.links
      /\ q.op = "create" => d.links = {l \in d.links : l[1] # e}
  BY BasedRows
<1>3. /\ TablesInv(Tagged(d, q)) /\ Owns(Tagged(d, q), u, e)
      /\ TablesInv(g) /\ Owns(g, u, e) /\ g \in Tables
  BY <1>1, TaggedInv DEF TablesInv
<1> DEFINE X == Ids(Named(g, u, ls))
<1>4. /\ g.entries = b.entries /\ Grown(d.tags, g.tags, u, ls)
      /\ g.links = d.links \cup ({e} \X X)
  <2>1. CASE ls = <<>>
    <3>1. g = b
      BY <2>1 DEF Relinked
    <3>2. LabelsOf(ls) = {}
      BY <2>1 DEF LabelsOf
    <3>3. X = {}
      BY <3>2 DEF Ids, Named
    <3> QED
      BY <1>2, <3>1, <3>2, <3>3 DEF Grown
  <2>2. CASE ls # <<>>
    <3>1. PICK t : t = Tagged(d, q)
      OBVIOUS
    <3>2. g = LinkTags(t, u, e, ls) /\ t = InsertTags(b, u, ls)
      BY <2>2, <3>1 DEF Relinked, Joined, Tagged
    <3>3. t.entries = b.entries /\ t.links = b.links
      BY <1>1, <3>2, InsertTagsFields DEF Is
    <3>4. Grown(d.tags, t.tags, u, ls)
      BY <1>1, <1>2, <3>2, InsertTagsGrows
    <3>5. /\ g.entries = t.entries /\ g.tags = t.tags
          /\ g.links = t.links \cup ({e} \X Ids(Named(t, u, ls)))
      BY <1>1, <1>3, <3>1, <3>2, LinkFields DEF Is, TablesInv
    <3>6. Named(t, u, ls) = Named(g, u, ls)
      BY <3>5 DEF Named
    <3> QED
      BY <1>2, <3>3, <3>4, <3>5, <3>6
  <2> QED
    BY <2>1, <2>2
<1>5. CASE q.op = "create"
  <2>1. f = g
    BY <1>5 DEF Final, Deletes
  <2> QED
    BY <1>2, <1>4, <1>5, <2>1 DEF FinalRows
<1>6. CASE q.op # "create"
  <2>1. f = TrimTags(g, u, e, ls)
    BY <1>1, <1>6 DEF Final, Deletes, Tagging, EntryOf
  <2>2. /\ f.entries = g.entries /\ f.tags = g.tags
        /\ f.links = {l \in g.links : l[1] = e => l[2] \in X}
    BY <1>1, <1>3, <2>1, LinkFields DEF Is
  <2>3. Named(f, u, ls) = Named(g, u, ls)
    BY <2>2 DEF Named
  <2>4. \A l \in d.links : l = <<l[1], l[2]>>
    BY <1>1, TableFields
  <2>5. f.links = {l \in d.links : l[1] # e} \cup ({e} \X X)
    <3>1. {l \in d.links \cup ({e} \X X) : l[1] = e => l[2] \in X}
            = {l \in d.links : l[1] # e} \cup {l \in d.links \cup ({e} \X X) : l[1] = e /\ l[2] \in X}
      OBVIOUS
    <3>2. {l \in d.links \cup ({e} \X X) : l[1] = e /\ l[2] \in X} = {e} \X X
      BY <2>4
    <3> QED
      BY <1>4, <2>2, <3>1, <3>2
  <2> QED
    BY <1>2, <1>4, <2>2, <2>3, <2>5 DEF FinalRows
<1> QED
  BY <1>5, <1>6

\* A request that carries no labels.
LEMMA Unlabelled ==
    ASSUME NEW d, TablesInv(d), NEW q \in AllRequests, Fits(d, q),
           NEW f, f = Final(d, q), NEW e, e = EntryOf(d, q)
    PROVE  /\ q.op = "patch" /\ q.labels = None =>
                  FinalRows(d, f, q, e) /\ f.tags = d.tags /\ f.links = d.links
           /\ q.op = "untag" => /\ FinalRows(d, f, q, e) /\ f.tags = d.tags
                                /\ f.links = d.links \ {<<e, q.tag>>}
           /\ q.op \in Deletes => /\ FinalRows(d, f, q, e) /\ f.tags = d.tags
                                  /\ f.links = {l \in d.links : l[1] # e}
<1>1. d \in Tables
  BY DEF TablesInv
<1>2. CASE q.op = "patch" /\ q.labels = None
  <2>1. f = Based(d, q)
    BY <1>2 DEF Final, Deletes
  <2> QED
    BY <1>2, <2>1, BasedRows DEF Tagging, Deletes
<1>3. CASE q.op = "untag"
  <2>1. f = Untag(d, q.user, e, q.tag) /\ e \in EntryIds /\ Owns(d, q.user, e)
    BY <1>3, RequestFields DEF Final, EntryOf, Deletes, Fits
  <2>2. Is(Untag(d, q.user, e, q.tag), d.entries, d.entrySeq, d.tags, d.tagSeq,
           d.links \ {<<e, q.tag>>}, d.index)
    BY <1>1, <2>1, LinkFields
  <2> QED
    BY <1>3, <2>1, <2>2 DEF Is, FinalRows, Deletes
<1>4. CASE q.op \in Deletes
  <2>1. f = DeleteEntry(d, q.user, e) /\ e \in EntryIds /\ Owns(d, q.user, e)
    BY <1>4, RequestFields DEF Final, EntryOf, Deletes, Fits
  <2>2. Is(DeleteEntry(d, q.user, e), [d.entries EXCEPT ![e] = None], d.entrySeq, d.tags, d.tagSeq,
           {l \in d.links : l[1] # e}, d.index \ {Posting(e, d.entries[e])})
    BY <1>1, <2>1, DeleteFields
  <2> QED
    BY <1>4, <2>1, <2>2 DEF Is, FinalRows, Deletes
<1> QED
  BY <1>2, <1>3, <1>4 DEF Deletes

\* Every request in one.
LEMMA FinalRowsOf ==
    ASSUME NEW d, TablesInv(d), NEW q \in AllRequests, Fits(d, q)
    PROVE  FinalRows(d, Final(d, q), q, EntryOf(d, q)) /\ EntryOf(d, q) \in EntryIds
<1>1. CASE q.op \in Tagging
  <2>1. q.labels \in LabelLists \/ (q.op = "patch" /\ q.labels = None)
    BY <1>1, RequestFields DEF Tagging
  <2> QED
    BY <1>1, <2>1, Retagged, Unlabelled, BasedInv
<1>2. CASE q.op \notin Tagging
  <2>1. q.op = "untag" \/ q.op \in Deletes
    BY <1>2, RequestFields DEF Ops
  <2>2. EntryOf(d, q) \in EntryIds
    BY <1>2, RequestFields DEF EntryOf, Tagging
  <2> QED
    BY <2>1, <2>2, Unlabelled
<1> QED
  BY <1>1, <1>2

\* What the UI and /api/tags do to a row.
LEMMA UiUpdateRows ==
    ASSUME IInv, NEW u \in Users, NEW e \in EntryIds, NEW c \in UiChanges, UiUpdate(u, e, c)
    PROVE  /\ Owns(db, u, e) /\ c \in Changes
           /\ db'.entries = [db.entries EXCEPT ![e] = ApplyChange(db.entries[e], c)]
           /\ db'.tags = db.tags /\ db'.links = db.links
           /\ Convertible(db.entries[e]) => Convertible(ApplyChange(db.entries[e], c))
<1>1. /\ Owns(db, u, e) /\ c \in Changes /\ c.origin = None /\ db \in Tables
      /\ db' = UpdateEntry(db, u, e, c)
  BY DEF UiUpdate, Autocommit, CommitTables, UiChanges, IInv, TablesInv
<1>2. PICK new : new = ApplyChange(db.entries[e], c)
  OBVIOUS
<1>3. /\ new \in Row /\ db.entries[e] \in Row
      /\ Is(UpdateEntry(db, u, e, c), [db.entries EXCEPT ![e] = new], db.entrySeq, db.tags,
            db.tagSeq, db.links,
            IF c.title = None THEN db.index ELSE Reindex(db.index, e, db.entries[e], new))
  BY <1>1, <1>2, UpdateFields
<1>4. new.origin = db.entries[e].origin
  BY <1>1, <1>2, <1>3 DEF ApplyChange, Row
<1>5. Convertible(db.entries[e]) => Convertible(new)
  BY <1>3, <1>4, NoRowAssumption DEF Convertible
<1> QED
  BY <1>1, <1>2, <1>3, <1>5 DEF Is

LEMMA UiDeleteRows ==
    ASSUME IInv, NEW u \in Users, NEW e \in EntryIds, UiDelete(u, e)
    PROVE  /\ Owns(db, u, e) /\ db'.entries = [db.entries EXCEPT ![e] = None]
           /\ db'.tags = db.tags /\ db'.links = {l \in db.links : l[1] # e}
<1>1. Owns(db, u, e) /\ db \in Tables /\ db' = DeleteEntry(db, u, e)
  BY DEF UiDelete, Autocommit, CommitTables, IInv, TablesInv
<1> QED
  BY <1>1, DeleteFields DEF Is

LEMMA TagsGone ==
    ASSUME IInv, NEW gone \in SUBSET db.tags, Autocommit(DeleteTags(db, gone))
    PROVE  /\ db'.entries = db.entries /\ db'.tags = db.tags \ gone
           /\ db'.links = {l \in db.links : l[2] \notin Ids(gone)}
  BY DeleteTagsFields DEF Autocommit, CommitTables, IInv, TablesInv, Is

\* What is answered and what is committed.
LEMMA CommitRows ==
    ASSUME IInv, NEW r \in Requests, Commit(r),
           NEW q, q = req[r], NEW e, e = EntryOf(db, q)
    PROVE  /\ q \in AllRequests /\ TablesInv(db) /\ Fits(db, q) /\ db' = Final(db, q)
           /\ e \in EntryIds /\ FinalRows(db, db', q, e)
           /\ reply' = [reply EXCEPT ![r] = Answer(r)]
           /\ reply[r] = None /\ Answer(r) # None
           /\ q.op # "create" => Answer(r).status # "error"
           /\ q.op = "delete_id" => Answer(r) = DeletedId(e)
           /\ q.op = "delete_full" => Answer(r) = Show(db, e)
           /\ q.op \notin Deletes => Answer(r) = Show(db', e)
<1>1. /\ pc[r] = "answer" /\ db' = draft /\ reply' = [reply EXCEPT ![r] = Answer(r)]
      /\ q.op # "create" => Answer(r).status # "error"
  BY DEF Commit, CommitTables, Answerable
<1>2. /\ q \in AllRequests /\ TablesInv(db) /\ Fits(db, q) /\ draft = Final(db, q)
      /\ Answer(r) = CASE q.op = "delete_id" -> DeletedId(q.entry)
                       [] q.op = "delete_full" -> Show(db, q.entry)
                       [] q.op \notin Deletes -> Show(draft, EntryOf(db, q))
      /\ Answer(r) # None
  BY <1>1, AnswerForm DEF IInv
<1>3. q.op \in Deletes => EntryOf(db, q) = q.entry
  BY DEF EntryOf, Deletes
<1>4. /\ q.op = "delete_id" => Answer(r) = DeletedId(e)
      /\ q.op = "delete_full" => Answer(r) = Show(db, e)
      /\ q.op \notin Deletes => Answer(r) = Show(db', e)
  BY <1>1, <1>2, <1>3 DEF Deletes
<1>5. reply[r] = None
  BY <1>1 DEF IInv, RequestInv
<1> QED
  BY <1>1, <1>2, <1>4, <1>5, FinalRowsOf

LEMMA Quiet ==
    ASSUME [Next]_vars
    PROVE  \/ UNCHANGED <<db, reply>>
           \/ \E r \in Requests : Commit(r) \/ Respond(r)
           \/ \E u \in Users, e \in EntryIds :
                 UiDelete(u, e) \/ \E c \in UiChanges : UiUpdate(u, e, c)
           \/ \E u \in Users, ls \in LabelLists : DeleteTagsByLabel(u, ls)
           \/ \E t \in db.tags : DeleteTagById(t)
<1>1. ASSUME NEW r \in Requests, Handler(r), ~ Commit(r), ~ Respond(r)
      PROVE  UNCHANGED <<db, reply>>
  BY <1>1 DEF Handler, Find, NotFound, Insert, Update, Delete, DeleteLink, InsertNewTags,
              TooManyTags, Link, Trim, AnswerFails, UpgradeRefused, Fail, Write
<1>2. ASSUME NEW r \in Requests, Abort(r) PROVE UNCHANGED <<db, reply>>
  BY <1>2 DEF Abort, Fail
<1>3. ASSUME NEW r \in Requests, NEW q \in Asked, Start(r, q) PROVE UNCHANGED <<db, reply>>
  BY <1>3 DEF Start
<1>4. ASSUME OtherCommit PROVE UNCHANGED <<db, reply>>
  BY <1>4 DEF OtherCommit, Autocommit, CommitTables
<1>5. ASSUME UNCHANGED vars PROVE UNCHANGED <<db, reply>>
  BY <1>5 DEF vars
<1> QED
  BY <1>1, <1>2, <1>3, <1>4, <1>5 DEF Next

\* An update never leaves a row the API cannot show.
LEMMA RowsStayConvertible ==
    ASSUME IInv, [Next]_vars, NEW e \in EntryIds, Convertible(db.entries[e]),
           db'.entries[e] # None
    PROVE  Convertible(db'.entries[e])
<1>0. db \in Tables /\ db.entries \in [EntryIds -> Row \cup {None}]
  BY TableFields DEF IInv, TablesInv
<1>1. ASSUME NEW r \in Requests, Commit(r) PROVE Convertible(db'.entries[e])
  <2>1. PICK q : q = req[r]
    OBVIOUS
  <2>2. PICK i : i = EntryOf(db, q)
    OBVIOUS
  <2>3. /\ i \in EntryIds /\ FinalRows(db, db', q, i)
        /\ q.op # "create" => Answer(r).status # "error"
        /\ q.op \notin Deletes => Answer(r) = Show(db', i)
    BY <1>1, <2>1, <2>2, CommitRows
  <2>4. CASE q.op = "patch"
    <3>1. Convertible(db'.entries[i])
      BY <2>3, <2>4 DEF Show, Deletes
    <3>2. e # i => db'.entries[e] = db.entries[e]
      BY <1>0, <2>3, <2>4 DEF FinalRows, Deletes
    <3> QED
      BY <3>1, <3>2
  <2>5. CASE q.op # "patch"
    <3>1. db'.entries[e] = db.entries[e]
      BY <1>0, <2>3, <2>5 DEF FinalRows, Convertible
    <3> QED
      BY <3>1
  <2> QED
    BY <2>4, <2>5
<1>2. ASSUME NEW u \in Users, NEW i \in EntryIds, NEW c \in UiChanges, UiUpdate(u, i, c)
      PROVE  Convertible(db'.entries[e])
  <2>1. PICK new : new = ApplyChange(db.entries[i], c)
    OBVIOUS
  <2>2. /\ db'.entries = [db.entries EXCEPT ![i] = new]
        /\ Convertible(db.entries[i]) => Convertible(new)
    BY <1>2, <2>1, UiUpdateRows
  <2> QED
    BY <1>0, <2>2
<1>3. ASSUME NEW u \in Users, NEW i \in EntryIds, UiDelete(u, i)
      PROVE  Convertible(db'.entries[e])
  <2>1. db'.entries = [db.entries EXCEPT ![i] = None]
    BY <1>3, UiDeleteRows
  <2> QED
    BY <1>0, <2>1
<1>4. ASSUME NEW gone \in SUBSET db.tags, Autocommit(DeleteTags(db, gone))
      PROVE  Convertible(db'.entries[e])
  BY <1>4, TagsGone
<1>5. ASSUME NEW u \in Users, NEW ls \in LabelLists, DeleteTagsByLabel(u, ls)
      PROVE  Convertible(db'.entries[e])
  <2>1. Named(db, u, ls) \in SUBSET db.tags
    BY DEF Named
  <2> QED
    BY <1>4, <1>5, <2>1 DEF DeleteTagsByLabel
<1>6. ASSUME NEW t \in db.tags, DeleteTagById(t) PROVE Convertible(db'.entries[e])
  <2>1. {t} \in SUBSET db.tags
    OBVIOUS
  <2> QED
    BY <1>4, <1>6, <2>1 DEF DeleteTagById
<1>7. ASSUME NEW r \in Requests, Respond(r) PROVE Convertible(db'.entries[e])
  BY <1>7 DEF Respond
<1> QED
  BY <1>1, <1>2, <1>3, <1>5, <1>6, <1>7, Quiet

\* A row the API can show stays one, whatever is updated.
THEOREM UpdatesKeepConvertible == Spec => UpdatesStayConvertible
<1>1. IInv /\ [Next]_vars =>
         [\A e \in EntryIds :
             db.entries[e] # None /\ Convertible(db.entries[e]) /\ db.entries'[e] # None
                 => Convertible(db.entries'[e])]_vars
  BY RowsStayConvertible
<1> QED
  BY <1>1, IInvAlways, PTL DEF Spec, UpdatesStayConvertible

-----------------------------------------------------------------------------
(* EntryStore implements EntryService.                                     *)

LEMMA ServiceTerms ==
    /\ Service!EntryIds = EntryIds
    /\ \A ls : Service!Model!LabelsOf(ls) = LabelsOf(ls)
    /\ \A row, c : Service!Model!ApplyChange(row, c) = ApplyChange(row, c)
    /\ \A e : Service!Model!DeletedId(e) = DeletedId(e)
    /\ \A d, e : Service!Shown(e, d.entries[e], d.tags, d.links) = Show(d, e)
    /\ \A d, u, ls : Service!TagIds(d.tags, u, ls) = Ids(Named(d, u, ls))
<1>1. Service!EntryIds = EntryIds
  BY DEF Service!EntryIds, EntryIds
<1>2. \A ls : Service!Model!LabelsOf(ls) = LabelsOf(ls)
  BY DEF LabelsOf, Service!Model!LabelsOf
<1>3. \A row, c : Service!Model!ApplyChange(row, c) = ApplyChange(row, c)
  BY DEF ApplyChange, Service!Model!ApplyChange
<1>4. \A e : Service!Model!DeletedId(e) = DeletedId(e)
  BY DEF DeletedId, Service!Model!DeletedId
<1>5. \A d, e : Service!Shown(e, d.entries[e], d.tags, d.links) = Show(d, e)
  BY DEF Show, Service!Shown, Convertible, Service!Model!Convertible
<1>6. \A d, u, ls : Service!TagIds(d.tags, u, ls) = Ids(Named(d, u, ls))
  BY <1>2 DEF Service!TagIds, Ids, Named
<1> QED
  BY <1>1, <1>2, <1>3, <1>4, <1>5, <1>6

LEMMA ServiceInit == Init => Service!Init
  BY DEF Init, EmptyTables, EntryIds, Service!Init, Service!EntryIds

\* The index of a state whose tables are right is what EntryService asks for.
LEMMA IndexFollows == IInv' => Service!Indexed
  BY ServiceTerms DEF IInv, TablesInv, IndexMirrors, Posting, Service!Indexed

LEMMA LabelsGrow ==
    ASSUME NEW u, NEW ls, NEW e, Grown(db.tags, db'.tags, u, ls),
           db'.links = {l \in db.links : l[1] # e} \cup ({e} \X Ids(Named(db', u, ls)))
    PROVE  Service!TagsGrow(u, ls) /\ Service!Relink(u, e, ls)
<1>1. Service!TagsGrow(u, ls)
  BY ServiceTerms DEF Grown, Service!TagsGrow
<1>2. PICK d : d = db'
  OBVIOUS
<1>3. Service!TagIds(d.tags, u, ls) = Ids(Named(d, u, ls))
  BY ServiceTerms
<1>4. Service!Relink(u, e, ls)
  BY <1>2, <1>3 DEF Service!Relink
<1> QED
  BY <1>1, <1>4

\* A commit is the operation that was asked for.
LEMMA CommitServes ==
    ASSUME IInv, NEW r \in Requests, Commit(r)
    PROVE  Service!Request(r)
<1>0. PICK q : q = req[r]
  OBVIOUS
<1>1. PICK e : e = EntryOf(db, q)
  OBVIOUS
<1>2. PICK f : f = db'
  OBVIOUS
<1>3. PICK answer : answer = Answer(r)
  OBVIOUS
<1>4. /\ q \in AllRequests /\ TablesInv(db) /\ Fits(db, q) /\ f = Final(db, q)
      /\ e \in EntryIds /\ FinalRows(db, f, q, e)
      /\ reply' = [reply EXCEPT ![r] = answer] /\ reply[r] = None /\ answer # None
      /\ q.op # "create" => answer.status # "error"
      /\ q.op = "delete_id" => answer = DeletedId(e)
      /\ q.op = "delete_full" => answer = Show(db, e)
      /\ q.op \notin Deletes => answer = Show(f, e)
  BY <1>0, <1>1, <1>2, <1>3, CommitRows
<1>5. q.user \in Users /\ q.op \in Ops /\ db \in Tables
  BY <1>4, RequestFields DEF TablesInv
<1>6. reply'[r] = answer
  BY <1>4 DEF IInv, TypeInv
<1>7. /\ Service!Answers(r)
      /\ q.op # "create" => Service!Success(r)
  BY <1>4, <1>6 DEF Service!Answers, Service!Success
<1>8. /\ Service!Shown(e, f.entries[e], f.tags, f.links) = Show(f, e)
      /\ Service!Shown(e, db.entries[e], db.tags, db.links) = Show(db, e)
      /\ e \in Service!EntryIds
  BY <1>4, ServiceTerms
<1>9. q.op \in Tagging /\ q.labels \in LabelLists =>
         Service!TagsGrow(q.user, q.labels) /\ Service!Relink(q.user, e, q.labels)
  BY <1>1, <1>2, <1>4, Retagged, LabelsGrow
<1>10. db.entries \in [EntryIds -> Row \cup {None}]
  BY <1>5, TableFields
<1>11. CASE q.op = "create"
  <2>1. q.labels \in LabelLists
    BY <1>4, <1>11, RequestFields
  <2>2. PICK row \in Row : row.owner = q.user /\ f.entries = [db.entries EXCEPT ![e] = row]
    BY <1>4, <1>11 DEF FinalRows, Deletes
  <2>3. /\ db.entries[e] = None /\ f.entries[e] # None /\ f.entries[e].owner = q.user
        /\ \A i \in EntryIds \ {e} : f.entries[i] = db.entries[i]
    BY <1>4, <1>10, <1>11, <2>2, NoRowAssumption DEF FinalRows, Deletes
  <2>4. Service!Others(e)
    BY <1>2, <2>3, ServiceTerms DEF Service!Others
  <2>5. answer = Service!Shown(e, f.entries[e], f.tags, f.links)
    BY <1>4, <1>8, <1>11 DEF Deletes
  <2>6. Service!Create(r, q.user, q.labels)
    BY <1>2, <1>4, <1>8, <1>9, <1>11, <2>1, <2>3, <2>4, <2>5 DEF Service!Create, Tagging
  <2> QED
    BY <1>5, <1>7, <2>1, <2>6 DEF Service!Request
<1>12. CASE q.op = "patch"
  <2>1. q.labels \in LabelLists \cup {None} /\ q.change \in Changes
    BY <1>4, <1>12, RequestFields
  <2>2. /\ db.entries[e] # None /\ db.entries[e].owner = q.user
        /\ f.entries = [db.entries EXCEPT ![e] = ApplyChange(db.entries[e], q.change)]
    BY <1>4, <1>12 DEF FinalRows, Owns, Deletes
  <2>3. answer = Service!Shown(e, f.entries[e], f.tags, f.links)
    BY <1>4, <1>8, <1>12 DEF Deletes
  <2>4. Service!Model!ApplyChange(db.entries[e], q.change) = ApplyChange(db.entries[e], q.change)
    BY ServiceTerms
  <2>5. q.labels = None => f.tags = db.tags /\ f.links = db.links
    BY <1>1, <1>4, <1>12, Unlabelled
  <2>6. q.labels # None => /\ Service!TagsGrow(q.user, q.labels)
                           /\ Service!Relink(q.user, e, q.labels)
    BY <1>9, <1>12, <2>1 DEF Tagging
  <2>7. Service!Patch(r, q.user, e, q.change, q.labels)
    BY <1>2, <1>4, <1>7, <1>12, <2>2, <2>3, <2>4, <2>5, <2>6 DEF Service!Patch
  <2> QED
    BY <1>5, <1>7, <1>8, <2>1, <2>7 DEF Service!Request
<1>13. CASE q.op = "tags"
  <2>1. q.labels \in LabelLists
    BY <1>4, <1>13, RequestFields
  <2>2. db.entries[e] # None /\ db.entries[e].owner = q.user /\ f.entries = db.entries
    BY <1>4, <1>13 DEF FinalRows, Owns, Deletes
  <2>3. answer = Service!Shown(e, db.entries[e], f.tags, f.links)
    BY <1>4, <1>8, <1>13, <2>2 DEF Deletes
  <2>4. Service!SetTags(r, q.user, e, q.labels)
    BY <1>2, <1>4, <1>7, <1>9, <1>13, <2>1, <2>2, <2>3 DEF Service!SetTags, Tagging
  <2> QED
    BY <1>5, <1>7, <1>8, <2>1, <2>4 DEF Service!Request
<1>14. CASE q.op = "untag"
  <2>1. /\ db.entries[e] # None /\ db.entries[e].owner = q.user /\ f.entries = db.entries
    BY <1>4, <1>14 DEF FinalRows, Owns, Deletes
  <2>2. f.tags = db.tags /\ f.links = db.links \ {<<e, q.tag>>}
    BY <1>1, <1>4, <1>14, Unlabelled
  <2>3. f.links = db.links \/ \E l \in db.links : l[1] = e /\ f.links = db.links \ {l}
    BY <2>2
  <2>4. answer = Service!Shown(e, db.entries[e], f.tags, f.links)
    BY <1>4, <1>8, <1>14, <2>1 DEF Deletes
  <2>5. Service!RemoveTag(r, q.user, e)
    BY <1>2, <1>4, <1>7, <1>14, <2>1, <2>2, <2>3, <2>4 DEF Service!RemoveTag
  <2> QED
    BY <1>5, <1>7, <1>8, <2>5 DEF Service!Request
<1>15. CASE q.op \in Deletes
  <2>1. /\ db.entries[e] # None /\ db.entries[e].owner = q.user
        /\ f.entries = [db.entries EXCEPT ![e] = None]
    BY <1>4, <1>15 DEF FinalRows, Owns, Deletes
  <2>2. f.tags = db.tags /\ f.links = {l \in db.links : l[1] # e}
    BY <1>1, <1>4, <1>15, Unlabelled
  <2>3. /\ f.entries[e] = None
        /\ \A i \in EntryIds \ {e} : f.entries[i] = db.entries[i]
    BY <1>4, <1>10, <2>1
  <2>4. Service!Vanish(q.user, e)
    BY <1>2, <2>1, <2>2, <2>3, ServiceTerms DEF Service!Vanish, Service!Others
  <2>5. answer \in {Service!Model!DeletedId(e),
                    Service!Shown(e, db.entries[e], db.tags, db.links)}
    BY <1>4, <1>8, <1>15, ServiceTerms DEF Deletes
  <2>6. Service!Remove(r, q.user, e)
    BY <1>4, <1>7, <1>15, <2>4, <2>5 DEF Service!Remove, Deletes
  <2> QED
    BY <1>5, <1>7, <1>8, <2>6 DEF Service!Request
<1> QED
  BY <1>5, <1>11, <1>12, <1>13, <1>14, <1>15 DEF Ops, Tagging

\* The single statements of the UI.
LEMMA UiServes ==
    ASSUME IInv, IInv', NEW u \in Users, NEW e \in EntryIds,
           UiDelete(u, e) \/ \E c \in UiChanges : UiUpdate(u, e, c)
    PROVE  Service!Silent \/ UNCHANGED Service!vars
<1>1. PICK f : f = db'
  OBVIOUS
<1>2. db.entries \in [EntryIds -> Row \cup {None}] /\ e \in Service!EntryIds /\ reply' = reply
  BY TableFields, ServiceTerms DEF IInv, TablesInv, UiDelete, UiUpdate, Autocommit
<1>3. CASE UiDelete(u, e)
  <2>1. /\ db.entries[e] # None /\ db.entries[e].owner = u
        /\ f.entries = [db.entries EXCEPT ![e] = None]
        /\ f.tags = db.tags /\ f.links = {l \in db.links : l[1] # e}
    BY <1>1, <1>3, UiDeleteRows DEF Owns
  <2>2. f.entries[e] = None /\ \A i \in EntryIds \ {e} : f.entries[i] = db.entries[i]
    BY <1>2, <2>1
  <2>3. Service!Vanish(u, e)
    BY <1>1, <2>1, <2>2, ServiceTerms DEF Service!Vanish, Service!Others
  <2> QED
    BY <1>2, <2>3 DEF Service!Silent
<1>4. ASSUME NEW c \in UiChanges, UiUpdate(u, e, c)
      PROVE  Service!Silent \/ UNCHANGED Service!vars
  <2>1. /\ db.entries[e] # None /\ db.entries[e].owner = u /\ c \in Changes
        /\ f.entries = [db.entries EXCEPT ![e] = ApplyChange(db.entries[e], c)]
        /\ f.tags = db.tags /\ f.links = db.links
    BY <1>1, <1>4, UiUpdateRows DEF Owns
  <2>2. CASE f.entries[e] # db.entries[e]
    <3>1. Service!Silently(u, e, c)
      BY <1>1, <2>1, <2>2, ServiceTerms DEF Service!Silently
    <3> QED
      BY <1>2, <2>1, <3>1 DEF Service!Silent
  <2>3. CASE f.entries[e] = db.entries[e]
    <3>1. f.entries = db.entries
      BY <1>2, <2>1, <2>3
    <3>2. IndexMirrors(db) /\ IndexMirrors(f)
      BY <1>1 DEF IInv, TablesInv
    <3>3. f.index = db.index
      BY <3>1, <3>2 DEF IndexMirrors
    <3> QED
      BY <1>1, <1>2, <2>1, <3>1, <3>3 DEF Service!vars
  <2> QED
    BY <2>2, <2>3
<1> QED
  BY <1>3, <1>4

\* The single statements of /api/tags.
LEMMA DropServes ==
    ASSUME IInv, NEW u \in Users, NEW gone \in SUBSET db.tags, gone # {},
           \A t \in gone : t.owner = u, Autocommit(DeleteTags(db, gone))
    PROVE  Service!Silent
<1>1. PICK f : f = db'
  OBVIOUS
<1>2. /\ f.entries = db.entries /\ f.tags = db.tags \ gone
      /\ f.links = {l \in db.links : l[2] \notin Ids(gone)} /\ reply' = reply
  BY <1>1, TagsGone DEF Autocommit
<1>3. ASSUME NEW l \in db.links
      PROVE  l[2] \notin Ids(gone) <=> \E t \in f.tags : t.id = l[2]
  <2>1. PICK t \in db.tags : t.id = l[2]
    BY DEF IInv, TablesInv, LinksJoinOneOwner
  <2>2. \A s \in db.tags : s.id = l[2] => s = t
    BY <2>1 DEF IInv, TablesInv, Numbered
  <2> QED
    BY <1>2, <2>1, <2>2 DEF Ids
<1>4. f.links = {l \in db.links : \E t \in f.tags : t.id = l[2]}
  BY <1>2, <1>3
<1>5. f.tags # db.tags /\ f.tags \subseteq db.tags /\ \A t \in db.tags \ f.tags : t.owner = u
  BY <1>2
<1>6. Service!DropTags(u)
  BY <1>1, <1>2, <1>4, <1>5 DEF Service!DropTags
<1> QED
  BY <1>2, <1>6 DEF Service!Silent

LEMMA ServiceStep == IInv /\ [Next]_vars => [Service!Next]_(Service!vars)
<1> SUFFICES ASSUME IInv, [Next]_vars PROVE Service!Next \/ UNCHANGED Service!vars
  OBVIOUS
<1>1. IInv' /\ Service!Indexed
  BY NextInv, IndexFollows
<1>2. CASE UNCHANGED <<db, reply>>
  BY <1>2 DEF Service!vars
<1>3. ASSUME NEW r \in Requests, Commit(r) PROVE Service!Next
  BY <1>1, <1>3, CommitServes DEF Service!Next
<1>4. ASSUME NEW r \in Requests, Respond(r) PROVE Service!Next
  <2>1. reply[r] # None
    BY <1>4 DEF Respond, IInv, RequestInv
  <2> QED
    BY <1>4, <2>1 DEF Respond, Service!Sent, Service!Next
<1>5. ASSUME NEW u \in Users, NEW e \in EntryIds,
             UiDelete(u, e) \/ \E c \in UiChanges : UiUpdate(u, e, c)
      PROVE  Service!Next \/ UNCHANGED Service!vars
  BY <1>1, <1>5, UiServes DEF Service!Next
<1>6. ASSUME NEW u \in Users, NEW ls \in LabelLists, DeleteTagsByLabel(u, ls)
      PROVE  Service!Next
  <2>1. /\ Named(db, u, ls) \in SUBSET db.tags /\ Named(db, u, ls) # {}
        /\ \A t \in Named(db, u, ls) : t.owner = u
    BY <1>6 DEF Named, DeleteTagsByLabel
  <2>2. Service!Silent
    BY <1>6, <2>1, DropServes DEF DeleteTagsByLabel
  <2> QED
    BY <1>1, <2>2 DEF Service!Next
<1>7. ASSUME NEW t \in db.tags, DeleteTagById(t) PROVE Service!Next
  <2>1. t.owner \in Users /\ {t} \in SUBSET db.tags
    BY TableFields DEF IInv, TablesInv, Tag
  <2>2. Service!Silent
    BY <1>7, <2>1, DropServes DEF DeleteTagById
  <2> QED
    BY <1>1, <2>2 DEF Service!Next
<1> QED
  BY <1>2, <1>3, <1>4, <1>5, <1>6, <1>7, Quiet

\* The statements of the handlers and of the UI implement the atomic operations of
\* EntryService, and what a request answers is what its own commit left.
THEOREM RequestsAreAtomic == Spec => ImplementsService
<1>1. Init => Service!Init
  BY ServiceInit
<1>2. IInv /\ [Next]_vars => [Service!Next]_(Service!vars)
  BY ServiceStep
<1> QED
  BY <1>1, <1>2, IInvAlways, PTL DEF Spec, ImplementsService, Service!Spec
=============================================================================
