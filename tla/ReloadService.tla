--------------------------- MODULE ReloadService ---------------------------
(***************************************************************************)
(* What `articlerctl reload-articles` promises beside a running server: an *)
(* article changes by one request or by one reload; a reload puts what the *)
(* page of an article now is into any of the articles of one account, all  *)
(* of them at once, leaves what the user did to them and articles whose    *)
(* page cannot be had, and brings nothing back that was deleted.           *)
(***************************************************************************)
CONSTANTS
    Articles, Users, None, Gone

VARIABLES
    rows,       \* the articles: None before, Gone after
    fetched     \* what the page of each article is, None if it cannot be had

Live(a) == rows[a] \notin {None, Gone}

Init == DOMAIN rows = Articles /\ \A a \in Articles : rows[a] # Gone

\* Only article a is another afterwards.
Only(a) == rows'[a] # rows[a] /\ rows' = [rows EXCEPT ![a] = rows'[a]]

Create(a) == rows[a] = None /\ Only(a) /\ rows'[a] # Gone /\ rows'[a].owner \in Users

Change(a) == Live(a) /\ Only(a) /\ rows'[a] \notin {None, Gone} /\ rows'[a].owner = rows[a].owner

Delete(a) == Live(a) /\ Only(a) /\ rows'[a] = Gone

Reload(u) ==
    /\ DOMAIN rows' = Articles
    /\ \A a \in Articles :
        \/ rows'[a] = rows[a]
        \/ /\ Live(a) /\ rows[a].owner = u /\ fetched[a] # None
           /\ rows'[a] = [rows[a] EXCEPT !.text = fetched[a]]

Next ==
    \/ \E a \in Articles : Delete(a) \/ Create(a) \/ Change(a)
    \/ \E u \in Users : Reload(u)

Spec == Init /\ [][Next]_rows
=============================================================================
