----------------------------- MODULE MCListing -----------------------------
(* A small instance of Listing for TLC.                                    *)
EXTENDS Listing

CONSTANTS u1, u2

\* Unread with two tags; archived; starred, public and later; somebody's.
Plain == [owner |-> u1, archivedAt |-> None, starred |-> FALSE, public |-> None,
          created |-> 1, updated |-> 1, tags |-> {1, 2}, origin |-> "url",
          text |-> "body"]
MCRows == {Plain,
           [Plain EXCEPT !.archivedAt = 2, !.updated = 2, !.tags = {}, !.text = "neither"],
           [Plain EXCEPT !.created = 2, !.updated = 2, !.starred = TRUE, !.public = TRUE,
                         !.tags = {1}, !.origin = "malformed", !.text = "title"],
           [Plain EXCEPT !.owner = u2]}

Api(sort, descending, page, perPage) ==
    [kind |-> "api", entry |-> None,
     filter |-> [NoFilter(u1) EXCEPT !.sort = sort, !.descending = descending,
                                     !.page = page, !.perPage = perPage, !.since = 1]]
All(q) == [q EXCEPT !.filter.since = 0]

\* Every page of every size, the odd ones too; each filter once.
Questions ==
    {Api("created", FALSE, 2, 1), Api("updated", TRUE, 1, 2), Api("archived", FALSE, 1, 1),
     All(Api("created", TRUE, 1, 2)), All(Api("archived", TRUE, 2, 2)),
     All(Api("created", FALSE, 0, 1)), All(Api("created", FALSE, 1, 0)),
     All(Api("created", FALSE, 1, -1)), All(Api("created", FALSE, -1, -1)),
     [Api("created", FALSE, 1, 2) EXCEPT !.filter.unsupported = TRUE],
     [All(Api("created", FALSE, 1, 2)) EXCEPT !.filter.public = TRUE],
     [kind |-> "page", entry |-> None, filter |-> PageFilter(u1, "unread")],
     [kind |-> "page", entry |-> None, filter |-> PageFilter(u1, "favourite")],
     [kind |-> "page", entry |-> None, filter |-> Searched(PageFilter(u1, "all"))],
     [kind |-> "cards", entry |-> None, filter |-> PageFilter(u1, "archived")],
     [kind |-> "categories", entry |-> None, filter |-> PageFilter(u1, "all")],
     [kind |-> "tags", entry |-> 1, filter |-> NoFilter(u1)]}

\* The test is always true.  It makes TLC bring the nested records into their
\* normal form before its workers share them.
MCAsked == {q \in Questions : q.filter \in Filters}
=============================================================================
