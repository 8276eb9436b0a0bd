------------------------------ MODULE Listing ------------------------------
(***************************************************************************)
(* What is read of the articles: GET /api/entries with its filters, order  *)
(* and pages, the pages of the web UI with the counters of the categories, *)
(* the counters alone, the cards that answer a form, and the tags of an    *)
(* article.  Each is a sequence of SELECTs while other requests commit;    *)
(* some run in one transaction, some do not.                               *)
(*                                                                         *)
(* Handlers that read do not meet each other, so there is one.             *)
(***************************************************************************)
EXTENDS Integers, FiniteSetsExt, SequencesExt

CONSTANTS
    Users,      \* owners of articles
    EntryIds,   \* ids of entries, a set of numbers
    Rows,       \* bound: the rows there can be
    Asked,      \* bound: the requests that are made
    MaxStates,  \* bound: committed states one request can see
    MaxI64,     \* i64::MAX, what a division by zero is cast to
    None        \* NULL, no row, a filter that is not given

\* An article is archived when archived_at says so (FlagsMatchDates).  The
\* clock is small; is_public can be NULL.  `text` says where the index has the
\* term that is searched for.
ASSUME RowsAssumption ==
    /\ Rows \subseteq [owner : Users, archivedAt : Nat \cup {None}, starred : BOOLEAN,
                       public : BOOLEAN \cup {None}, created : Nat, updated : Nat,
                       tags : SUBSET (Nat \ {0}), origin : {"url", "malformed"},
                       text : {"title", "body", "neither"}]
    /\ \A row \in Rows : IsFiniteSet(row.tags)

ASSUME IdsAssumption == EntryIds \subseteq Nat /\ IsFiniteSet(EntryIds)

ASSUME NoneAssumption ==
    /\ None \notin Int \cup BOOLEAN \cup Rows \cup {"created", "updated", "archived"}
    /\ None \notin [EntryIds -> Rows \cup {None}]

\* FindParams.  `unsupported` is a filter by tags or by domain.
Filters == [user : Users, archive : BOOLEAN \cup {None}, starred : BOOLEAN \cup {None},
            public : BOOLEAN \cup {None}, since : Nat \cup {None}, unsupported : BOOLEAN,
            search : BOOLEAN, sort : {"created", "updated", "archived", None},
            descending : BOOLEAN, page : Int \cup {None}, perPage : Int \cup {None}]

\* The filters of the web UI: category_to_find_params, and search with its term.
NoFilter(u) ==
    [user |-> u, archive |-> None, starred |-> None, public |-> None, since |-> None,
     unsupported |-> FALSE, search |-> FALSE, sort |-> "created", descending |-> TRUE,
     page |-> None, perPage |-> None]

PageFilter(u, category) ==
    CASE category = "unread" -> [NoFilter(u) EXCEPT !.archive = FALSE]
      [] category = "all" -> NoFilter(u)
      [] category = "favourite" -> [NoFilter(u) EXCEPT !.starred = TRUE]
      [] category = "archived" -> [NoFilter(u) EXCEPT !.archive = TRUE]

Searched(q) == [q EXCEPT !.search = TRUE, !.sort = None, !.descending = FALSE]

\* The counters in the order they are loaded.
Categories(u) ==
    [i \in 1..4 |-> PageFilter(u, <<"unread", "all", "favourite", "archived">>[i])]

UiFilters ==
    {PageFilter(u, c) : u \in Users, c \in {"unread", "all", "favourite", "archived"}}

\* GET /api/entries; main, partial_articles and search; partial_categories;
\* render_article_cards; GET /api/entries/{entry_id}/tags.
Kinds == {"api", "page", "categories", "cards", "tags"}

ASSUME AskedAssumption ==
    /\ Asked \subseteq [kind : Kinds, filter : Filters, entry : EntryIds \cup {None}]
    /\ \A q \in Asked : q.kind = "tags" <=> q.entry # None
    /\ \A q \in Asked :
          CASE q.kind = "api" -> None \notin {q.filter.since, q.filter.page, q.filter.perPage}
            [] q.kind = "page" -> q.filter \in UiFilters \cup {Searched(f) : f \in UiFilters}
            [] q.kind = "tags" -> q.filter = NoFilter(q.filter.user)
            [] OTHER -> q.filter \in UiFilters

VARIABLES
    entries,    \* the committed rows, with the ids of their tags
    pc,         \* the next statement
    req,        \* what is asked
    snapshot,   \* what the transaction of the request reads
    total,      \* count_without_paging
    items,      \* what find_all returned
    counters,   \* ArticleCounters, as far as it is loaded
    tags,       \* what find_by_entry_id returned
    told,       \* what becomes of the request
    seen        \* history: the states committed while the request ran

vars == <<entries, pc, req, snapshot, total, items, counters, tags, told, seen>>

Databases == [EntryIds -> Rows \cup {None}]

-----------------------------------------------------------------------------
(* db::repository::entries *)

\* push_predicates and push_search_match; NULL equals nothing.
Matches(row, q) ==
    /\ row # None
    /\ row.owner = q.user
    /\ q.archive # None => q.archive = (row.archivedAt # None)
    /\ q.starred # None => q.starred = row.starred
    /\ q.public # None => q.public = row.public
    /\ q.since # None => row.updated > q.since
    /\ q.search => row.text # "neither"

Wanted(d, q) == {e \in EntryIds : Matches(d[e], q)}

\* The column of ORDER BY; NULL comes before every number.  What is searched for
\* is ordered by SEARCH_ORDER_BY: matches of the title first, the ranks within
\* the two tiers depend on every row and are left open.
Column(row, q) ==
    CASE q.sort = "created" -> row.created
      [] q.sort = "updated" -> row.updated
      [] q.sort = "archived" -> IF row.archivedAt = None THEN -1 ELSE row.archivedAt
      [] q.sort = None -> IF q.search /\ row.text # "title" THEN 1 ELSE 0

Before(row, other, q) ==
    IF q.descending THEN Column(row, q) > Column(other, q)
                    ELSE Column(row, q) < Column(other, q)

\* The orders SQLite may return rows of a SELECT in, tuples that begin with the
\* id: those with equal keys in any.
Orders(d, q, rows) ==
    {s \in SetToSeqs(rows) :
        \A i, j \in DOMAIN s : i < j => ~Before(d[s[j][1]], d[s[i][1]], q)}

\* push_limit.  A negative OFFSET counts as none, a negative LIMIT as no limit.
Offset(q) ==
    IF None \in {q.page, q.perPage} THEN 0 ELSE Max({0, (q.page - 1) * q.perPage})

Cut(s, q) ==
    SubSeq(s, Offset(q) + 1,
           IF q.perPage = None \/ q.perPage < 0 THEN Len(s)
           ELSE Min({Len(s), Offset(q) + q.perPage}))

\* The ids the sub-select can yield.
Selections(d, q) ==
    {{r[1] : r \in ToSet(Cut(s, q))} : s \in Orders(d, q, {<<e>> : e \in Wanted(d, q)})}

\* An article without tags is joined with NULLs, which are read as 0 and "".
NoTag == 0

Joined(d, ids) ==
    UNION {{e} \X (IF d[e].tags = {} THEN {NoTag} ELSE d[e].tags) : e \in ids}

\* A row of `e` comes before all of `f`.
Precedes(rows, e, f) ==
    \E i \in DOMAIN rows : rows[i][1] = e /\ \A j \in 1..i : rows[j][1] # f

\* The rows of the join are gathered by id, in the order of first appearance.
Gather(d, rows) ==
    LET item(e) == [id |-> e, row |-> d[e],
                    tags |-> {r[2] : r \in {r \in ToSet(rows) : r[1] = e}}]
    IN  {[i \in DOMAIN s |-> item(s[i])] :
            s \in {s \in SetToSeqs({r[1] : r \in ToSet(rows)}) :
                     \A i, j \in DOMAIN s : i < j => Precedes(rows, s[i], s[j])}}

\* What find_all and find_all_metadata can return.
Found(d, q) ==
    LET joins == UNION {Orders(d, q, Joined(d, ids)) : ids \in Selections(d, q)}
    IN  UNION {Gather(d, rows) : rows \in joins}

\* `ceil(count / per_page) as i64`, in f64.
Pages(count, perPage) ==
    IF perPage > 0 THEN (count + perPage - 1) \div perPage
    ELSE IF perPage < 0 THEN -(count \div (-perPage))
    ELSE IF count = 0 THEN 0 ELSE MaxI64

-----------------------------------------------------------------------------
(* The handlers *)

\* The database as the next statement sees it.
View == IF snapshot = None THEN entries ELSE snapshot

\* A SELECT: the first one of a transaction takes the snapshot.
Select(next) ==
    /\ snapshot' = IF req.kind \in {"api", "page", "tags"} THEN View ELSE None
    /\ pc' = next
    /\ UNCHANGED <<entries, req, seen>>

Start(q) ==
    /\ pc = "idle"
    /\ pc' = CASE q.kind = "api" -> "count"
               [] q.kind \in {"page", "cards"} -> "find"
               [] q.kind = "categories" -> "counters"
               [] q.kind = "tags" -> "exists"
    /\ req' = q
    /\ seen' = {entries}
    /\ UNCHANGED <<entries, snapshot, total, items, counters, tags, told>>

\* ensure_supported.
Unsupported ==
    /\ pc = "count"
    /\ req.filter.unsupported
    /\ pc' = "respond"
    /\ told' = "error"
    /\ UNCHANGED <<entries, req, snapshot, total, items, counters, tags, seen>>

Count ==
    /\ pc = "count"
    /\ ~req.filter.unsupported
    /\ total' = Cardinality(Wanted(View, req.filter))
    /\ Select("find")
    /\ UNCHANGED <<items, counters, tags, told>>

\* The pages go on with the counters, in the same transaction.
AfterFind == IF req.kind = "page" THEN "counters" ELSE "answer"

\* Mutant: the rows are selected on another connection than they are counted on.
FindOnPool ==
    /\ pc = "find"
    /\ items' \in Found(entries, req.filter)
    /\ Select(AfterFind)
    /\ UNCHANGED <<total, counters, tags, told>>

Find ==
    /\ pc = "find"
    /\ items' \in Found(View, req.filter)
    /\ Select(AfterFind)
    /\ UNCHANGED <<total, counters, tags, told>>

\* Mutant: the first two categories are swapped.
LoadCounterSwapped ==
    /\ pc = "counters"
    /\ LET i == <<2, 1, 3, 4>>[Len(counters) + 1]
       IN  counters' = Append(counters,
               Cardinality(Wanted(View, Categories(req.filter.user)[i])))
    /\ Select(IF Len(counters) < 3 THEN "counters" ELSE "answer")
    /\ UNCHANGED <<total, items, tags, told>>

\* One of the four counts of ArticleCounters::load.
LoadCounter ==
    /\ pc = "counters"
    /\ LET q == Categories(req.filter.user)[Len(counters) + 1]
       IN  counters' = Append(counters, Cardinality(Wanted(View, q)))
    /\ Select(IF Len(counters) < 3 THEN "counters" ELSE "answer")
    /\ UNCHANGED <<total, items, tags, told>>

\* exists_by_id: the article is one of the user.
Exists(d) == d[req.entry] # None /\ d[req.entry].owner = req.filter.user

\* get_tags_by_entry asks first whether there is the article ...
Look ==
    /\ pc = "exists"
    /\ told' = IF Exists(View) THEN "none" ELSE "not_found"
    /\ Select(IF Exists(View) THEN "tags" ELSE "answer")
    /\ UNCHANGED <<total, items, counters, tags>>

\* ... and then, in the same transaction, for its tags: none if it is gone.
FindTags ==
    /\ pc = "tags"
    /\ tags' = IF Exists(View) THEN View[req.entry].tags ELSE {}
    /\ Select("answer")
    /\ UNCHANGED <<total, items, counters, told>>

Malformed(list) == \E i \in DOMAIN list : list[i].row.origin = "malformed"

\* The API converts every row before it looks at the page; the UI shows what
\* it has.
Answer ==
    /\ pc = "answer"
    /\ pc' = "respond"
    /\ told' = IF told = "not_found" THEN told
               ELSE IF req.kind # "api" THEN "shown"
               ELSE IF Malformed(items) THEN "error"
               ELSE IF req.filter.page > Pages(total, req.filter.perPage) THEN "not_found"
               ELSE "shown"
    /\ snapshot' = None
    /\ UNCHANGED <<entries, req, total, items, counters, tags, seen>>

Respond ==
    /\ pc = "respond"
    /\ pc' = "idle"
    /\ req' = None
    /\ total' = 0
    /\ items' = <<>>
    /\ counters' = <<>>
    /\ tags' = {}
    /\ told' = "none"
    /\ seen' = {}
    /\ UNCHANGED <<entries, snapshot>>

-----------------------------------------------------------------------------
(* Other requests *)

\* Commits matter while something is read: Init has every database.
Commit(d) ==
    /\ pc \notin {"idle", "respond"}
    /\ Cardinality(seen) < MaxStates
    /\ entries' = d
    /\ seen' = seen \cup {d}
    /\ UNCHANGED <<pc, req, snapshot, total, items, counters, tags, told>>

\* Ids are not used again.
Create(e, row) ==
    /\ \A d \in seen : \A f \in EntryIds : f >= e => d[f] = None
    /\ Commit([entries EXCEPT ![e] = row])

Update(e, row) ==
    /\ entries[e] # None
    /\ row.owner = entries[e].owner /\ row.created = entries[e].created
    /\ Commit([entries EXCEPT ![e] = row])

Delete(e) ==
    /\ entries[e] # None
    /\ Commit([entries EXCEPT ![e] = None])

-----------------------------------------------------------------------------
Init ==
    /\ entries \in Databases
    /\ pc = "idle"
    /\ req = None
    /\ snapshot = None
    /\ total = 0
    /\ items = <<>>
    /\ counters = <<>>
    /\ tags = {}
    /\ told = "none"
    /\ seen = {}

Next ==
    \/ \E q \in Asked : Start(q)
    \/ Unsupported \/ Count \/ Find \/ LoadCounter \/ Look \/ FindTags \/ Answer \/ Respond
    \/ \E e \in EntryIds : Delete(e) \/ \E row \in Rows : Create(e, row) \/ Update(e, row)

Spec == Init /\ [][Next]_vars

-----------------------------------------------------------------------------
(* Properties *)

\* The locals of the handlers; a row of the answer has at least one tag row.
TypeOK ==
    /\ entries \in Databases
    /\ pc \in {"idle", "count", "find", "counters", "exists", "tags", "answer", "respond"}
    /\ req \in Asked \cup {None}
    /\ snapshot \in Databases \cup {None}
    /\ total \in 0..Cardinality(EntryIds)
    /\ \A i \in DOMAIN items :
          items[i].id \in EntryIds /\ items[i].row \in Rows /\ items[i].tags # {}
    /\ Len(counters) <= 4 /\ ToSet(counters) \subseteq 0..Cardinality(EntryIds)
    /\ tags \in SUBSET (Nat \ {0})
    /\ told \in {"none", "shown", "not_found", "error"}
    /\ seen \subseteq Databases

\* Pages are numbered from 1 and have room for an article.
Sane(q) == q.perPage = None \/ (q.page >= 1 /\ q.perPage >= 1)

\* The articles of `d` that come before the page.
Skipped(q) == IF q.perPage = None THEN 0 ELSE (q.page - 1) * q.perPage

\* `items` is what was asked of `d`: every article once, as it is in `d` and
\* with all its tags, and at a place it can have among all that match.
IsListing(d, q) ==
    /\ \A i, j \in DOMAIN items : items[i].id = items[j].id => i = j
    /\ \A i \in DOMAIN items :
          LET e == items[i].id IN
          /\ Matches(d[e], q)
          /\ items[i].row = d[e]
          /\ items[i].tags = IF d[e].tags = {} THEN {NoTag} ELSE d[e].tags
          /\ Sane(q) =>
                /\ Cardinality({f \in Wanted(d, q) : Before(d[f], d[e], q)}) < Skipped(q) + i
                /\ Skipped(q) + i <=
                      Cardinality({f \in Wanted(d, q) : ~Before(d[e], d[f], q)})
    /\ Sane(q) =>
          Len(items) = LET rest == Max({0, Cardinality(Wanted(d, q)) - Skipped(q)})
                       IN  IF q.perPage = None THEN rest ELSE Min({rest, q.perPage})

\* An answer of GET /api/entries shows one committed state: its page of it,
\* the number of all articles and 404 exactly beyond the last page.
PageOfOneState ==
    pc = "respond" /\ req.kind = "api" /\ ~req.filter.unsupported =>
        \E d \in seen :
            /\ IsListing(d, req.filter)
            /\ total = Cardinality(Wanted(d, req.filter))
            /\ told = "error" <=> Malformed(items)
            /\ Sane(req.filter) /\ told # "error" =>
                  (told = "not_found" <=> Skipped(req.filter) >= total)

\* A page of the UI shows one committed state, its articles and its counters; of
\* what is searched for, the matches of the title come first.
CountersOfOneState ==
    pc = "respond" /\ req.kind = "page" =>
        \E d \in seen :
            /\ IsListing(d, req.filter)
            /\ \A i \in 1..4 :
                  counters[i] = Cardinality(Wanted(d, Categories(req.filter.user)[i]))
            /\ req.filter.search =>
                  \A i, j \in DOMAIN items :
                      i < j /\ items[j].row.text = "title" => items[i].row.text = "title"

\* The counters that are loaded alone are read one by one, on no common
\* state; each of them was true while the request ran.
EachCounterWasTrue ==
    pc = "respond" /\ req.kind = "categories" =>
        \A i \in 1..4 : \E d \in seen :
            counters[i] = Cardinality(Wanted(d, Categories(req.filter.user)[i]))

\* The cards that answer a form are the articles of one committed state.
CardsOfOneState ==
    pc = "respond" /\ req.kind = "cards" =>
        \E d \in seen : IsListing(d, req.filter)

\* The tags of an article are those it had in one committed state, and 404 says
\* that in one there was no such article: an article that is deleted meanwhile is
\* never shown as one without tags.
TagsOfOneState ==
    pc = "respond" /\ req.kind = "tags" =>
        \E d \in seen :
            IF told = "not_found" THEN ~Exists(d)
            ELSE Exists(d) /\ tags = d[req.entry].tags

\* Whatever a handler answers with one state in mind was true at one moment
\* while it ran, however many SELECTs and functions put it together: the rows
\* and their tags, the number of rows and of pages, the counters beside them.
AnswersOfOneState == PageOfOneState /\ CountersOfOneState /\ CardsOfOneState /\ TagsOfOneState
=============================================================================
