------------------------------- MODULE WebUi -------------------------------
(***************************************************************************)
(* The pages of the web UI (server/src/web) and the browser they are shown *)
(* in: several tabs with one cookie.  The session lives in the cookie      *)
(* alone (CookieSessionStore), so between the moment a page is rendered    *)
(* and the moment its form is posted another tab may have logged out or    *)
(* logged in as another user, and have deleted what the page shows.        *)
(*                                                                         *)
(* A request carries the cookie of the moment it is sent; its answer may   *)
(* set the cookie when it arrives.  A plain request navigates the tab, one *)
(* sent by htmx swaps the answer into the page that is there.              *)
(*                                                                         *)
(* What an update does to an article is in module EntryStore, which        *)
(* articles a list shows in module Listing, how a user comes to be in      *)
(* module Setup; here rows exist or do not, and belong to a user.          *)
(***************************************************************************)
EXTENDS Naturals, FiniteSets

CONSTANTS
    Users,
    Tabs,
    MaxRows,    \* bound: the rows that are ever inserted; then the disk is full
    None        \* nobody is signed in

ASSUME WebUiAssumption ==
    /\ Users # {} /\ Tabs # {} /\ None \notin Users
    /\ MaxRows \in Nat

Ids  == 1..MaxRows
Rows == [id : Ids, user : Users]

\* An address: the page and, for an article, its id.
At(page)       == [page |-> page, id |-> 0]
ArticleAt(i)   == [page |-> "article", id |-> i]
ClientAt(i)    == [page |-> "client", id |-> i]   \* in a form only
Addresses      == {At(p) : p \in {"root", "login", "setup", "clients", "developer"}}
                  \cup {ArticleAt(i) : i \in Ids}

VARIABLES
    users,      \* the users there are
    articles,   \* rows of entries
    clients,    \* rows of clients
    last,       \* sqlite_sequence: the last id of each of the two tables
    cookie,     \* the user_id in the browser's session cookie, or None
    screen,     \* per tab: where it is, what it shows, the rows it shows
    wire,       \* per tab: the request or the answer on its way
    told        \* history: articles somebody was told do not exist

db   == <<users, articles, clients, last>>
vars == <<users, articles, clients, last, cookie, screen, wire, told>>

Idle == [kind |-> "idle"]

TypeOK ==
    /\ users \subseteq Users
    /\ articles \subseteq Rows /\ clients \subseteq Rows
    /\ \A r \in articles \cup clients : r.user \in users
    /\ cookie \in users \cup {None}
    /\ \A t \in Tabs :
          /\ screen[t].at \in Addresses
          /\ screen[t].rows \subseteq Rows
          /\ wire[t].kind \in {"idle", "request", "answer"}
    /\ told \subseteq Users \X Ids

-----------------------------------------------------------------------------
(* The repositories, as far as these pages use them.                       *)

Owned(rows, u) == {r \in rows : r.user = u}

\* Mutant: WHERE id = ?
MatchAny(rows, u, i) == {r \in rows : r.id = i}

\* WHERE user_id = ? AND id = ?
Match(rows, u, i) == {r \in rows : r.id = i /\ r.user = u}

\* clients::delete_by_id
DeleteClientRow(u, i) == clients' = clients \ Match(clients, u, i)

\* Mutant: one more than the largest id there is.
NextIdOfRows(table, rows) ==
    1 + Cardinality({i \in Ids : \E r \in rows : r.id >= i})

\* AUTOINCREMENT: one more than the largest id there ever was.
NextId(table, rows) == last[table] + 1

-----------------------------------------------------------------------------
(* Answers.                                                                *)

Answer(status, at, shows, rows) ==
    [kind |-> "answer", status |-> status, at |-> at, shows |-> shows,
     rows |-> rows, session |-> "keep", htmx |-> FALSE, ref |-> At("root"), hops |-> 0]

Page(q, shows, rows) == Answer("page", q.at, shows, rows)
Redirect(at)         == Answer("redirect", at, "", {})
HxRedirect(at)       == Answer("hx-redirect", at, "", {})
Failure(q)           == Answer("failure", q.at, "error", {})
Invalid(q)           == Answer("invalid", q.at, "", {})

\* The referer of a request, whether htmx sent it and how many redirects it
\* follows stay with its answer.
Reply(t, a) == wire' = [wire EXCEPT ![t] = [a EXCEPT !.htmx = @ \/ wire[t].htmx,
                                                     !.ref = wire[t].ref,
                                                     !.hops = wire[t].hops]]

\* Mutant: both cases are redirected to the login page.
UnauthenticatedPage(q) == Redirect(At("login"))

\* SessionUser::from_request without a user_id in the session.
Unauthenticated(q) ==
    IF q.htmx THEN HxRedirect(At("login")) ELSE Redirect(At("login"))

\* What a handler with a SessionUser answers, given what it answers a user.
ForUser(q, a) == IF q.user = None THEN Unauthenticated(q) ELSE a

Asks(t, verb) == wire[t].kind = "request" /\ wire[t].verb = verb

Gets(t, page) == Asks(t, "get") /\ wire[t].at.page = page

-----------------------------------------------------------------------------
(* The handlers.                                                           *)

\* login
LoginPage(t) ==
    /\ Gets(t, "login")
    /\ Reply(t, IF users = {} THEN Redirect(At("setup"))
                ELSE Page(wire[t], "login", {}))
    /\ UNCHANGED <<db, cookie, screen, told>>

\* Mutant: the page is for the second user as well.
SetupPageTwice(t) ==
    /\ Gets(t, "setup")
    /\ Reply(t, Redirect(At("login")))
    /\ UNCHANGED <<db, cookie, screen, told>>

\* setup
SetupPage(t) ==
    /\ Gets(t, "setup")
    /\ Reply(t, IF users # {} THEN Redirect(At("login"))
                ELSE Page(wire[t], "setup", {}))
    /\ UNCHANGED <<db, cookie, screen, told>>

\* index, and the other lists like it
ListPage(t) ==
    /\ Gets(t, "root")
    /\ Reply(t, ForUser(wire[t], Page(wire[t], "list", Owned(articles, wire[t].user))))
    /\ UNCHANGED <<db, cookie, screen, told>>

\* clients
ClientsPage(t) ==
    /\ Gets(t, "clients")
    /\ Reply(t, ForUser(wire[t], Page(wire[t], "clients", Owned(clients, wire[t].user))))
    /\ UNCHANGED <<db, cookie, screen, told>>

\* developer, which looks into the session itself
DeveloperPage(t) ==
    /\ Gets(t, "developer")
    /\ Reply(t, IF wire[t].user = None THEN Redirect(At("login"))
                ELSE Page(wire[t], "developer", Owned(clients, wire[t].user)))
    /\ UNCHANGED <<db, cookie, screen, told>>

\* Somebody is told that an article of the id does not exist for them.
Missing(q) == q.user # None /\ Match(articles, q.user, q.at.id) = {}

Tells(q) == told' = IF Missing(q) THEN told \cup {<<q.user, q.at.id>>} ELSE told

\* article
ArticlePage(t) ==
    LET q == wire[t]
    IN  /\ Gets(t, "article")
        /\ Reply(t, ForUser(q, IF Missing(q) THEN Failure(q)
                               ELSE Page(q, "article", Match(articles, q.user, q.at.id))))
        /\ Tells(q)
        /\ UNCHANGED <<db, cookie, screen>>

\* do_login: with a password that is right for the user u, or with another
DoLogin(t) ==
    LET q == wire[t]
    IN  /\ Asks(t, "login")
        /\ Reply(t, IF q.known /\ q.as \in users
                    THEN [Redirect(At("root")) EXCEPT !.session = q.as]
                    ELSE Redirect(q.ref))
        /\ UNCHANGED <<db, cookie, screen, told>>

\* logout
Logout(t) ==
    /\ Asks(t, "logout")
    /\ Reply(t, [Redirect(At("login")) EXCEPT !.session = None])
    /\ UNCHANGED <<db, cookie, screen, told>>

\* There is room for another row.
Fits == last["articles"] + last["clients"] < MaxRows

\* do_add
DoAdd(t) ==
    LET q == wire[t]
        i == NextId("articles", articles)
    IN  /\ Asks(t, "add")
        /\ Reply(t, ForUser(q, IF Fits THEN Redirect(q.ref) ELSE Failure(q)))
        /\ IF q.user # None /\ Fits
           THEN /\ articles' = articles \cup {[id |-> i, user |-> q.user]}
                /\ last' = [last EXCEPT !["articles"] = i]
                /\ UNCHANGED <<users, clients>>
           ELSE UNCHANGED db
        /\ UNCHANGED <<cookie, screen, told>>

\* clients::create
InsertClient(u) ==
    LET i == NextId("clients", clients)
    IN  /\ clients' = clients \cup {[id |-> i, user |-> u]}
        /\ last' = [last EXCEPT !["clients"] = i]
        /\ UNCHANGED <<users, articles>>

\* do_create_client: a name that is refused is a 422 for htmx
DoCreateClient(t) ==
    LET q == wire[t]
    IN  /\ Asks(t, "create_client")
        /\ Reply(t, ForUser(q, CASE ~ q.known -> Invalid(q)
                                 [] q.known /\ Fits -> HxRedirect(At("clients"))
                                 [] OTHER -> Failure(q)))
        /\ IF q.user # None /\ q.known /\ Fits THEN InsertClient(q.user)
                                              ELSE UNCHANGED db
        /\ UNCHANGED <<cookie, screen, told>>

\* post_client_create: a name that is refused is an error
PostClientCreate(t) ==
    LET q == wire[t]
    IN  /\ Asks(t, "developer_create")
        /\ Reply(t, IF q.user = None THEN Redirect(At("login"))
                    ELSE IF q.known /\ Fits THEN Page(q, "created", {}) ELSE Failure(q))
        /\ IF q.user # None /\ q.known /\ Fits THEN InsertClient(q.user)
                                              ELSE UNCHANGED db
        /\ UNCHANGED <<cookie, screen, told>>

\* do_client_delete
DoClientDelete(t) ==
    LET q == wire[t]
    IN  /\ Asks(t, "delete_client")
        /\ Reply(t, ForUser(q, Redirect(q.ref)))
        /\ IF q.user = None THEN UNCHANGED clients ELSE DeleteClientRow(q.user, q.at.id)
        /\ UNCHANGED <<users, articles, last, cookie, screen, told>>

\* do_delete: from the page of the article or from a list
DoDelete(t) ==
    LET q    == wire[t]
        rest == articles \ Match(articles, q.user, q.at.id)
    IN  /\ Asks(t, "delete")
        /\ Reply(t, ForUser(q, IF q.fromArticle THEN HxRedirect(At("root"))
                               ELSE Page(q, "list", Owned(rest, q.user))))
        /\ articles' = IF q.user = None THEN articles ELSE rest
        /\ UNCHANGED <<users, clients, last, cookie, screen, told>>

\* do_archive, do_favourite and do_edit_title: what they show after the update
DoUpdate(t) ==
    LET q == wire[t]
    IN  /\ Asks(t, "update")
        /\ Reply(t, ForUser(q,
              IF ~ q.fromArticle THEN Page(q, "list", Owned(articles, q.user))
              ELSE IF Missing(q) THEN Failure(q)
              ELSE Page(q, "article", Match(articles, q.user, q.at.id))))
        /\ IF q.fromArticle THEN Tells(q) ELSE UNCHANGED told
        /\ UNCHANGED <<db, cookie, screen>>

\* do_setup, which htmx posts: a form that came too late is redirected plainly,
\* fields that are refused are a 422
DoSetup(t) ==
    LET q == wire[t]
    IN  /\ Asks(t, "setup")
        /\ Reply(t, CASE users # {}             -> Redirect(At("login"))
                      [] users = {} /\ ~ q.known -> Invalid(q)
                      [] OTHER                  -> HxRedirect(At("login")))
        /\ users' = IF users = {} /\ q.known THEN {q.as} ELSE users
        /\ UNCHANGED <<articles, clients, last, cookie, screen, told>>

\* articlerctl create-user
CreateUser(u) ==
    /\ u \notin users
    /\ users' = users \cup {u}
    /\ UNCHANGED <<articles, clients, last, cookie, screen, wire, told>>

\* articlerctl create-client
CreateClient(u) ==
    /\ u \in users /\ Fits /\ InsertClient(u)
    /\ UNCHANGED <<cookie, screen, wire, told>>

-----------------------------------------------------------------------------
(* The browser.                                                            *)

Request(t, verb, at, ref, htmx) ==
    [kind |-> "request", verb |-> verb, at |-> at, ref |-> ref, htmx |-> htmx,
     user |-> cookie, as |-> None, known |-> TRUE, hops |-> 0,
     fromArticle |-> screen[t].shows = "article"]

Sends(t, q) ==
    /\ wire[t] = Idle
    /\ wire' = [wire EXCEPT ![t] = q]
    /\ UNCHANGED <<db, cookie, screen, told>>

\* An address is typed: there is no referer.
Open(t, page) == Sends(t, Request(t, "get", At(page), At("root"), FALSE))

\* The card of an article is followed, or its page is reloaded.
Follow(t, r) ==
    /\ screen[t].shows \in {"list", "article"} /\ r \in screen[t].rows
    /\ Sends(t, Request(t, "get", ArticleAt(r.id), screen[t].at, FALSE))

\* The form of the setup page: the user it names, with fields that are accepted
\* or not.
SubmitSetup(t, u, known) ==
    /\ screen[t].shows = "setup"
    /\ Sends(t, [Request(t, "setup", At("setup"), screen[t].at, TRUE)
                    EXCEPT !.as = u, !.known = known])

\* The form of the login page.  Where that page was swapped into the setup page
\* its form lies in the setup form, and htmx may take the submit and post an
\* empty setup form, which is refused before do_setup and changes nothing.
SubmitLogin(t, u, known) ==
    /\ screen[t].shows = "login"
    /\ Sends(t, [Request(t, "login", At("login"), screen[t].at, FALSE)
                    EXCEPT !.as = u, !.known = known])

\* Every page but those for login and setup has the address bar and the menu.
SignedInPages == {"list", "article", "clients"}

SubmitLogout(t) ==
    /\ screen[t].shows \in SignedInPages
    /\ Sends(t, Request(t, "logout", At("login"), screen[t].at, FALSE))

SubmitAdd(t) ==
    /\ screen[t].shows \in SignedInPages
    /\ Sends(t, Request(t, "add", At("root"), screen[t].at, FALSE))

SubmitClient(t, known) ==
    \/ /\ screen[t].shows = "clients"
       /\ Sends(t, [Request(t, "create_client", At("clients"), screen[t].at, TRUE)
                       EXCEPT !.known = known])
    \/ /\ screen[t].shows = "developer"
       /\ Sends(t, [Request(t, "developer_create", At("developer"), screen[t].at, FALSE)
                       EXCEPT !.known = known])

SubmitClientDelete(t, r) ==
    /\ screen[t].shows = "clients" /\ r \in screen[t].rows
    /\ Sends(t, Request(t, "delete_client", ClientAt(r.id), screen[t].at, FALSE))

SubmitForArticle(t, verb, r) ==
    /\ screen[t].shows \in {"list", "article"} /\ r \in screen[t].rows
    /\ Sends(t, Request(t, verb, ArticleAt(r.id), screen[t].at, TRUE))

Browse(t) ==
    \/ \E p \in {"root", "clients", "developer"} : Open(t, p)
    \/ \E r \in screen[t].rows :
          \/ Follow(t, r)
          \/ SubmitClientDelete(t, r)
          \/ \E verb \in {"delete", "update"} : SubmitForArticle(t, verb, r)
    \/ \E u \in Users, known \in BOOLEAN : SubmitSetup(t, u, known) \/ SubmitLogin(t, u, known)
    \/ SubmitLogout(t) \/ SubmitAdd(t)
    \/ \E known \in BOOLEAN : SubmitClient(t, known)

\* An answer arrives.  A redirect is followed with the referer of the request
\* it answers; HX-Redirect is followed as from the page that is shown.
Receive(t) ==
    LET a       == wire[t]
        session == IF a.session = "keep" THEN cookie ELSE a.session
        next(ref, htmx) == [Request(t, "get", a.at, ref, htmx)
                               EXCEPT !.user = session, !.hops = a.hops + 1]
    IN  /\ a.kind = "answer"
        /\ cookie' = session
        /\ wire' = [wire EXCEPT ![t] =
                      CASE a.status = "redirect"    -> next(a.ref, a.htmx)
                        [] a.status = "hx-redirect" -> next(screen[t].at, FALSE)
                        [] OTHER                    -> Idle]
        /\ screen' = [screen EXCEPT ![t] =
                      CASE a.status = "page" ->
                              [at |-> IF a.htmx THEN @.at ELSE a.at,
                               shows |-> a.shows, rows |-> a.rows]
                        [] a.status = "failure" /\ ~ a.htmx ->
                              [at |-> a.at, shows |-> "error", rows |-> {}]
                        [] OTHER -> @]
        /\ UNCHANGED <<db, told>>

-----------------------------------------------------------------------------
Init ==
    /\ users = {} /\ articles = {} /\ clients = {}
    /\ last = [articles |-> 0, clients |-> 0]
    /\ cookie = None
    /\ screen = [t \in Tabs |-> [at |-> At("root"), shows |-> "nothing", rows |-> {}]]
    /\ wire = [t \in Tabs |-> Idle]
    /\ told = {}

Handle(t) ==
    \/ LoginPage(t) \/ SetupPage(t) \/ ListPage(t) \/ ClientsPage(t)
    \/ DeveloperPage(t) \/ ArticlePage(t) \/ DoSetup(t) \/ DoLogin(t)
    \/ Logout(t) \/ DoAdd(t) \/ DoCreateClient(t)
    \/ PostClientCreate(t) \/ DoClientDelete(t) \/ DoDelete(t) \/ DoUpdate(t)

Next ==
    \/ \E t \in Tabs : Browse(t) \/ Handle(t) \/ Receive(t)
    \/ \E u \in Users : CreateUser(u) \/ CreateClient(u)

Spec == Init /\ [][Next]_vars

-----------------------------------------------------------------------------
(* Properties.                                                             *)

\* A row goes only because its owner, still or again signed in when the form
\* was posted, posted the form of the very row the page showed: not of
\* another row of the id, and not of a page another user left in a tab
\* (clients.rs:31-46, entries.rs:475-490).
DeletesWhatItShowed ==
    [][\A r \in (clients \ clients') \cup (articles \ articles') :
          \E t \in Tabs : /\ wire[t].kind = "request" /\ wire[t].user = r.user
                          /\ r \in screen[t].rows /\ wire[t].at.id = r.id]_vars

\* Who was told that an article does not exist is not contradicted later: a
\* link to an article that was deleted never leads to another article
\* (ui.rs:108-140, 622-652).
NotFoundIsFinal == \A r \in articles : <<r.user, r.id>> \notin told

\* The login page is never swapped into a page for users: a click on a page
\* whose session has ended in another tab leads the tab to the login page
\* (session_user.rs:16-42).  A setup form that came too late is another matter:
\* its plain redirect puts the login page into the page at /setup
\* (setup.rs:39-43, 71-75).
LoginOutsidePages ==
    \A t \in Tabs : screen[t].shows = "login" => screen[t].at \in {At("login"), At("setup")}

\* Whatever is clicked or posted, at most three redirects follow, before and after the
\* first user exists and while it comes to exist: the pages for login and setup
\* never send the browser to each other for ever (ui.rs:68-81, setup.rs:22-35,
\* session_user.rs).
RedirectsEnd == \A t \in Tabs : wire[t] # Idle => wire[t].hops <= 3
=============================================================================
