--------------------------- MODULE MCEntryStore ---------------------------
(* Small instances of EntryStore for TLC.                                  *)
EXTENDS EntryStore, FiniteSets, TLC

CONSTANTS u1, u2

\* Two spellings of one tag and a third label.
MCLabels == {"Rust", "rust", "go"}
MCSlug == [l \in MCLabels |-> IF l = "go" THEN "go" ELSE "rust"]

Create(u, ls, marks, origin) ==
    [op |-> "create", user |-> u, labels |-> ls, document |-> "A",
     marks |-> marks, origin |-> origin]
Patch(u, e, c, ls) ==
    [op |-> "patch", user |-> u, entry |-> e, change |-> c, labels |-> ls]
SetTags(u, e, ls) == [op |-> "tags", user |-> u, entry |-> e, labels |-> ls]
RemoveTag(u, e, t) == [op |-> "untag", user |-> u, entry |-> e, tag |-> t]
Remove(u, e, full) ==
    [op |-> IF full THEN "delete_full" ELSE "delete_id", user |-> u, entry |-> e]

NoChange == [title |-> None, content |-> None, set |-> {}, clear |-> {}, origin |-> None]
Retitle == [NoChange EXCEPT !.title = "B"]
Archive == [NoChange EXCEPT !.set = {"archived"}]
Unarchive == [NoChange EXCEPT !.clear = {"archived"}]
Rewrite == [NoChange EXCEPT !.content = "B", !.clear = {"archived"}]
BreakOrigin == [NoChange EXCEPT !.title = "B", !.origin = "malformed"]
MCChanges == {Retitle, Archive, Unarchive, Rewrite, BreakOrigin}

\* No label, both spellings apart and together, one label too many.
MCLists == {<<>>, <<"Rust">>, <<"rust">>, <<"go">>, <<"rust", "Rust">>,
            <<"rust", "go">>, <<"go", "rust", "Rust">>}

\* Two concurrent requests about one article of one user.
SharedArticle ==
    {Create(u1, <<"Rust">>, {}, None),
     Patch(u1, 1, Rewrite, <<"rust", "go">>),
     SetTags(u1, 1, <<"go">>),
     RemoveTag(u1, 1, 1),
     Remove(u1, 1, TRUE),
     Remove(u1, 1, FALSE)}

\* An article is tagged with one spelling and then with the other.
Spellings == {Create(u1, <<"Rust">>, {}, None), SetTags(u1, 1, <<"rust">>)}

\* One request at a time of two users, beside the writers of one statement.
TwoUsers ==
    {Create(u, ls, {}, None) : u \in {u1, u2}, ls \in {<<>>, <<"rust">>}}
    \cup {SetTags(u1, 1, ls) : ls \in {<<>>, <<"rust", "Rust">>, <<"go", "rust", "Rust">>}}
    \cup {Patch(u1, 1, c, None) : c \in {Rewrite, BreakOrigin}}
    \cup {Create(u1, <<>>, {"archived"}, "malformed"),
          Remove(u1, 1, TRUE), RemoveTag(u1, 1, 1), Patch(u2, 2, Archive, <<>>)}

MCAsked == SharedArticle \cup TwoUsers

Symmetry == Permutations(Requests)

\* Bound: requests that only SharedArticle has, and two at the same time, meet
\* the tables with no more than an article and tags of u1.
OneArticle ==
    /\ db.entrySeq <= 1
    /\ \A t \in db.tags : t.owner = u1
    /\ \A e \in EntryIds :
          db.entries[e] # None => db.entries[e].owner = u1 /\ Convertible(db.entries[e])

Bounded ==
    LET active == {r \in Requests : pc[r] # "idle"}
    IN  (Cardinality(active) > 1 \/ \E r \in active : req[r] \notin TwoUsers) => OneArticle
=============================================================================
