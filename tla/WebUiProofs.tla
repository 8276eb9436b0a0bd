----------------------------- MODULE WebUiProofs -----------------------------
(***************************************************************************)
(* The properties of WebUi for any users, any number of tabs and rows.     *)
(*                                                                         *)
(* A tab may show what is long gone, and two things keep that harmless: an *)
(* id is given out once, so what a page shows is the row of that id or     *)
(* none; and what a form asks for is on the page until its answer comes.   *)
(* Redirects end because the first user only comes and never goes:         *)
(* PageRank bounds what may still follow.                                  *)
(***************************************************************************)
EXTENDS WebUi, TLAPS

ArticlePages == {"list", "article"}
ClientPages  == {"clients", "developer"}
Blank        == {"", "nothing", "setup", "error"}
Shows        == Blank \cup {"login", "created"} \cup ArticlePages \cup ClientPages
Verbs        == {"get", "login", "logout", "add", "create_client", "developer_create",
                 "delete_client", "delete", "update", "setup"}
HtmxVerbs    == {"create_client", "delete", "update", "setup"}
Somebody     == Users \cup {None}
Redirects    == {"redirect", "hx-redirect"}

\* The shapes of what is on the wire and on the screens.
RequestForms ==
    [kind : {"request"}, verb : Verbs, at : Addresses \cup {ClientAt(i) : i \in Ids},
     ref : Addresses, htmx : BOOLEAN, user : Somebody, as : Somebody, known : BOOLEAN,
     hops : Nat, fromArticle : BOOLEAN]

AnswerForms ==
    [kind : {"answer"}, status : {"page", "failure", "invalid"} \cup Redirects,
     at : Addresses, shows : Shows, rows : SUBSET Rows,
     session : Somebody \cup {"keep"}, htmx : BOOLEAN, ref : Addresses, hops : Nat]

ScreenForms == [at : Addresses, shows : Shows, rows : SUBSET Rows]

-----------------------------------------------------------------------------
(* The invariant.                                                          *)

\* The row was inserted, and is still the only one of its id.
Past(rows, n, r) == r.id <= n /\ \A s \in rows : s.id = r.id => s = r

\* What a page shows was in the table the page is about.
Shown(shows, rows) ==
    /\ shows \in ArticlePages => \A r \in rows : Past(articles, last["articles"], r)
    /\ shows \in ClientPages => \A r \in rows : Past(clients, last["clients"], r)

\* An id in an address was given out.
Given(at) == at.page = "article" => at.id <= last["articles"]

\* Whoever sees a page for users sees it after the first of them exists.
SomeUser(shows) == shows \notin Blank => users # {}

\* How many redirects may follow a request for a page: a user who comes to exist
\* on the way costs the way back from the setup page.
PageRank(page) ==
    IF page = "login" THEN IF users = {} THEN 2 ELSE 0
    ELSE IF page = "setup" THEN 1
    ELSE IF users = {} THEN 3 ELSE 1

ScreenInv(s) ==
    /\ s \in ScreenForms
    /\ Shown(s.shows, s.rows) /\ Given(s.at) /\ SomeUser(s.shows)
    /\ s.shows = "login" => s.at \in {At("login"), At("setup")}
    /\ s.shows = "setup" => s.at = At("setup")

\* What a form asks for is on the page it was sent from.
Asked(q, s) ==
    /\ q.verb \in {"delete", "update"} =>
           s.shows \in ArticlePages /\ \E r \in s.rows : q.at = ArticleAt(r.id)
    /\ q.verb = "delete_client" =>
           s.shows = "clients" /\ \E r \in s.rows : q.at = ClientAt(r.id)
    /\ q.verb = "setup" => s.at = At("setup") /\ q.as \in Users
    /\ q.verb # "delete_client" => q.at \in Addresses

\* The setup form of the page came too late and leads to the login page.
Late(at, s) == at = At("login") /\ s.at = At("setup") /\ users # {}

RequestInv(q, s) ==
    /\ q \in RequestForms
    /\ Given(q.at) /\ Given(q.ref) /\ Asked(q, s)
    /\ q.user \in users \cup {None}
    /\ q.htmx => q.verb \in HtmxVerbs \/ (q.verb = "get" /\ Late(q.at, s))
    /\ IF q.verb = "get" THEN q.hops + PageRank(q.at.page) <= 3
                         ELSE q.hops = 0 /\ (q.verb = "setup" \/ users # {})

\* A plain redirect swaps the login page into the setup page and no page into
\* another: nothing else that htmx asks for is answered with one.
AnswerInv(a, s) ==
    /\ a \in AnswerForms
    /\ Given(a.at) /\ Given(a.ref) /\ Shown(a.shows, a.rows) /\ SomeUser(a.shows)
    /\ a.session \in users \cup {None, "keep"}
    /\ a.htmx /\ a.status = "redirect" => Late(a.at, s)
    /\ a.shows = "login" => a.at = At("login") /\ (a.htmx => s.at = At("setup"))
    /\ a.shows = "setup" => a.at = At("setup") /\ ~a.htmx
    /\ a.hops + (IF a.status \in Redirects THEN 1 + PageRank(a.at.page) ELSE 0) <= 3

WireInv(w, s) == w = Idle \/ RequestInv(w, s) \/ AnswerInv(w, s)

DbInv ==
    /\ users \subseteq Users
    /\ articles \subseteq Rows /\ clients \subseteq Rows
    /\ last \in [{"articles", "clients"} -> Nat]
    /\ last["articles"] + last["clients"] <= MaxRows
    /\ \A r \in articles : r.user \in users /\ Past(articles, last["articles"], r)
    /\ \A r \in clients : r.user \in users /\ Past(clients, last["clients"], r)

ToldInv ==
    /\ told \subseteq Users \X Ids
    /\ \A p \in told : p[2] <= last["articles"]

TabsInv ==
    /\ cookie \in users \cup {None}
    /\ screen \in [Tabs -> ScreenForms]
    /\ wire \in [Tabs -> RequestForms \cup AnswerForms \cup {Idle}]
    /\ \A t \in Tabs : ScreenInv(screen[t]) /\ WireInv(wire[t], screen[t])

IInv == DbInv /\ ToldInv /\ TabsInv /\ NotFoundIsFinal

-----------------------------------------------------------------------------
(* Shapes.                                                                 *)

LEMMA AddressForms ==
    /\ \A p \in {"root", "login", "setup", "clients", "developer"} :
          At(p) \in Addresses /\ At(p).page = p
    /\ \A i \in Ids : /\ ArticleAt(i) \in Addresses
                      /\ ArticleAt(i).page = "article" /\ ArticleAt(i).id = i
                      /\ ClientAt(i).page = "client" /\ ClientAt(i).id = i
    /\ \A at \in Addresses : at.page = "article" => at.id \in Ids
<1>1. \A p \in {"root", "login", "setup", "clients", "developer"} :
          At(p) \in Addresses /\ At(p).page = p
  BY DEF Addresses, At
<1>2. \A i \in Ids : /\ ArticleAt(i) \in Addresses
                      /\ ArticleAt(i).page = "article" /\ ArticleAt(i).id = i
                      /\ ClientAt(i).page = "client" /\ ClientAt(i).id = i
  BY DEF Addresses, ArticleAt, ClientAt
<1>3. ASSUME NEW at \in Addresses, at.page = "article" PROVE at.id \in Ids
  <2>1. ASSUME NEW p \in {"root", "login", "setup", "clients", "developer"}, at = At(p)
        PROVE  FALSE
    BY <1>3, <2>1 DEF At
  <2>2. PICK i \in Ids : at = ArticleAt(i)
    BY <2>1 DEF Addresses
  <2> QED
    BY <1>2, <2>2
<1> QED
  BY <1>1, <1>2, <1>3

\* What Reply puts on the wire for an answer a to a request q.
Replied(a, q) == [a EXCEPT !.htmx = @ \/ q.htmx, !.ref = q.ref, !.hops = q.hops]

LEMMA RepliedForm ==
    ASSUME NEW q \in RequestForms, NEW at \in Addresses, NEW shows \in Shows,
           NEW rows \in SUBSET Rows,
           NEW status \in {"page", "failure", "invalid"} \cup Redirects,
           NEW b, b = Replied(Answer(status, at, shows, rows), q)
    PROVE  /\ b \in AnswerForms
           /\ b.status = status /\ b.at = at /\ b.shows = shows /\ b.rows = rows
           /\ b.session = "keep" /\ b.ref = q.ref /\ b.hops = q.hops
           /\ b.htmx = q.htmx
  BY DEF Replied, Answer, AnswerForms, RequestForms

\* An answer that sends the browser on.
To(status, at) == Answer(status, at, "", {})

Leads(b, status, at, q) ==
    /\ b \in AnswerForms
    /\ b.status = status /\ b.at = at /\ b.shows = "" /\ b.rows = {}
    /\ b.session = "keep" /\ b.ref = q.ref /\ b.hops = q.hops /\ b.htmx = q.htmx

LEMMA RepliedTo ==
    ASSUME NEW q \in RequestForms, NEW at \in Addresses, NEW status \in Redirects,
           NEW b, b = Replied(To(status, at), q)
    PROVE  Leads(b, status, at, q)
  BY DEF Leads, Replied, To, Answer, AnswerForms, RequestForms, Shows, Blank

\* A redirect that sets the cookie.
ToAs(at, u) == [Redirect(at) EXCEPT !.session = u]

LeadsAs(b, at, u, q) ==
    /\ b \in AnswerForms
    /\ b.status = "redirect" /\ b.at = at /\ b.shows = "" /\ b.rows = {}
    /\ b.session = u /\ b.ref = q.ref /\ b.hops = q.hops /\ b.htmx = q.htmx

LEMMA RepliedSession ==
    ASSUME NEW q \in RequestForms, NEW at \in Addresses, NEW u \in Somebody,
           NEW b, b = Replied(ToAs(at, u), q)
    PROVE  LeadsAs(b, at, u, q)
  BY DEF LeadsAs, ToAs, Replied, Redirect, Answer, AnswerForms, RequestForms, Redirects, Shows, Blank

\* Kinds tell the forms on the wire apart.
LEMMA WireForms ==
    /\ Idle.kind = "idle"
    /\ \A q \in RequestForms : q.kind = "request" /\ q # Idle
    /\ \A a \in AnswerForms : a.kind = "answer" /\ a # Idle
  BY DEF Idle, RequestForms, AnswerForms

LEMMA OnTheWire ==
    ASSUME TabsInv, NEW t \in Tabs
    PROVE  /\ ScreenInv(screen[t])
           /\ wire[t].kind = "request" => RequestInv(wire[t], screen[t])
           /\ wire[t].kind = "answer" => AnswerInv(wire[t], screen[t])
<1>1. ScreenInv(screen[t]) /\ WireInv(wire[t], screen[t])
  BY DEF TabsInv
<1>2. RequestInv(wire[t], screen[t]) => wire[t].kind = "request"
  BY WireForms DEF RequestInv
<1>3. AnswerInv(wire[t], screen[t]) => wire[t].kind = "answer"
  BY WireForms DEF AnswerInv
<1> QED
  BY <1>1, <1>2, <1>3, WireForms DEF WireInv

-----------------------------------------------------------------------------
(* What holds of a tab goes on to hold while others write.                 *)

\* What one step may do to the tables: it inserts under new ids only.
Later ==
    /\ users \subseteq users'
    /\ last["articles"] <= last'["articles"] /\ last["clients"] <= last'["clients"]
    /\ \A r \in articles' : r \in articles \/ r.id > last["articles"]
    /\ \A r \in clients' : r \in clients \/ r.id > last["clients"]

LEMMA PastStays ==
    ASSUME DbInv, DbInv', Later, NEW r \in Rows
    PROVE  /\ Past(articles, last["articles"], r) => Past(articles, last["articles"], r)'
           /\ Past(clients, last["clients"], r) => Past(clients, last["clients"], r)'
  BY WebUiAssumption DEF DbInv, Later, Past, Rows, Ids

LEMMA ShownStays ==
    ASSUME DbInv, DbInv', Later, NEW shows, NEW rows \in SUBSET Rows, Shown(shows, rows)
    PROVE  Shown(shows, rows)'
  BY PastStays DEF Shown

LEMMA GivenStays ==
    ASSUME DbInv, DbInv', Later, NEW at, at.page = "article" => at.id \in Ids, Given(at)
    PROVE  Given(at)'
  BY WebUiAssumption DEF DbInv, Later, Given, Ids

LEMMA RankStays ==
    ASSUME Later, NEW page
    PROVE  /\ PageRank(page) \in 0..3 /\ PageRank(page)' \in 0..3
           /\ PageRank(page)' <= PageRank(page)
  BY DEF Later, PageRank

LEMMA ScreenStays ==
    ASSUME DbInv, DbInv', Later, NEW s, ScreenInv(s)
    PROVE  ScreenInv(s)'
<1>1. s \in ScreenForms /\ s.rows \in SUBSET Rows /\ s.at \in Addresses
  BY DEF ScreenInv, ScreenForms
<1>2. Given(s.at)' /\ Shown(s.shows, s.rows)'
  BY <1>1, GivenStays, ShownStays, AddressForms DEF ScreenInv
<1>3. SomeUser(s.shows)'
  BY DEF ScreenInv, SomeUser, Later
<1> QED
  BY <1>1, <1>2, <1>3 DEF ScreenInv

LEMMA RequestStays ==
    ASSUME DbInv, DbInv', Later, NEW s, NEW q, RequestInv(q, s)
    PROVE  RequestInv(q, s)'
<1>1. q \in RequestForms /\ q.hops \in Nat /\ q.ref \in Addresses
      /\ q.at \in Addresses \cup {ClientAt(i) : i \in Ids}
  BY DEF RequestInv, RequestForms
<1>2. Given(q.at)' /\ Given(q.ref)'
  BY <1>1, GivenStays, AddressForms DEF RequestInv
<1>3. q.user \in users' \cup {None}
  BY DEF RequestInv, Later
<1>4. IF q.verb = "get" THEN q.hops + PageRank(q.at.page)' <= 3
                         ELSE q.hops = 0 /\ (q.verb = "setup" \/ users' # {})
  <2>1. PageRank(q.at.page)' <= PageRank(q.at.page) /\ PageRank(q.at.page) \in Nat
        /\ PageRank(q.at.page)' \in Nat
    BY RankStays
  <2> QED
    BY <1>1, <2>1 DEF RequestInv, Later
<1>5. \A at : Late(at, s) => Late(at, s)'
  BY DEF Late, Later
<1> QED
  BY <1>1, <1>2, <1>3, <1>4, <1>5 DEF RequestInv, Asked

LEMMA AnswerStays ==
    ASSUME DbInv, DbInv', Later, NEW s, NEW a, AnswerInv(a, s)
    PROVE  AnswerInv(a, s)'
<1>1. a \in AnswerForms /\ a.hops \in Nat /\ a.ref \in Addresses /\ a.at \in Addresses
      /\ a.rows \in SUBSET Rows
  BY DEF AnswerInv, AnswerForms
<1>2. Given(a.at)' /\ Given(a.ref)' /\ Shown(a.shows, a.rows)'
  BY <1>1, GivenStays, ShownStays, AddressForms DEF AnswerInv
<1>3. SomeUser(a.shows)' /\ a.session \in users' \cup {None, "keep"}
  BY DEF AnswerInv, SomeUser, Later
<1>4. a.hops + (IF a.status \in Redirects THEN 1 + PageRank(a.at.page)' ELSE 0) <= 3
  <2>1. PageRank(a.at.page)' <= PageRank(a.at.page) /\ PageRank(a.at.page) \in Nat
        /\ PageRank(a.at.page)' \in Nat
    BY RankStays
  <2> QED
    BY <1>1, <2>1 DEF AnswerInv
<1>5. \A at : Late(at, s) => Late(at, s)'
  BY DEF Late, Later
<1> QED
  BY <1>1, <1>2, <1>3, <1>4, <1>5 DEF AnswerInv

LEMMA WireStays ==
    ASSUME DbInv, DbInv', Later, NEW s, NEW w, WireInv(w, s)
    PROVE  WireInv(w, s)'
  BY RequestStays, AnswerStays DEF WireInv

\* One tab is given another request or answer, or none is.
LEMMA TabsStep ==
    ASSUME DbInv, DbInv', Later, TabsInv, UNCHANGED <<cookie, screen>>,
           \/ UNCHANGED wire
           \/ \E t \in Tabs, w \in RequestForms \cup AnswerForms :
                 wire' = [wire EXCEPT ![t] = w] /\ WireInv(w, screen[t])'
    PROVE  TabsInv'
<1>1. cookie' \in users' \cup {None}
  BY DEF TabsInv, Later
<1>2. wire' \in [Tabs -> RequestForms \cup AnswerForms \cup {Idle}]
  BY DEF TabsInv
<1>3. \A t \in Tabs : ScreenInv(screen[t])'
  <2> SUFFICES ASSUME NEW t \in Tabs PROVE ScreenInv(screen[t])'
    OBVIOUS
  <2>1. ScreenInv(screen[t]) /\ screen'[t] = screen[t]
    BY DEF TabsInv
  <2> QED
    BY <2>1, ScreenStays
<1>4. \A t \in Tabs : WireInv(wire[t], screen[t])'
  <2> SUFFICES ASSUME NEW t \in Tabs PROVE WireInv(wire[t], screen[t])'
    OBVIOUS
  <2>1. CASE wire'[t] = wire[t]
    <3>1. WireInv(wire[t], screen[t]) /\ screen'[t] = screen[t]
      BY DEF TabsInv
    <3> QED
      BY <2>1, <3>1, WireStays
  <2>2. CASE wire'[t] # wire[t]
    BY <2>2 DEF TabsInv
  <2> QED
    BY <2>1, <2>2
<1> QED
  BY <1>1, <1>2, <1>3, <1>4 DEF TabsInv

\* A handler answers with what AnswerInv asks for.
LEMMA ReplyStep ==
    ASSUME DbInv, DbInv', Later, TabsInv, NEW t \in Tabs, UNCHANGED <<cookie, screen>>,
           NEW a, Reply(t, a), NEW b, b = Replied(a, wire[t]),
           NEW s, s = screen[t], AnswerInv(b, s)'
    PROVE  TabsInv'
<1>1. b \in AnswerForms /\ WireInv(b, screen[t])'
  <2>1. b \in AnswerForms /\ WireInv(b, s)'
    BY DEF AnswerInv, WireInv
  <2> QED
    BY <2>1
<1>2. wire' = [wire EXCEPT ![t] = b]
  BY DEF Reply, Replied
<1> QED
  BY <1>1, <1>2, TabsStep

-----------------------------------------------------------------------------
(* The tables.                                                             *)

LEMMA SameDb == ASSUME DbInv, UNCHANGED db PROVE DbInv' /\ Later
<1>1. last["articles"] \in Nat /\ last["clients"] \in Nat
  BY DEF DbInv
<1> QED
  BY <1>1 DEF DbInv, Later, Past, db

LEMMA InsertedArticle ==
    ASSUME DbInv, Fits, NEW u \in users,
           articles' = articles \cup {[id |-> last["articles"] + 1, user |-> u]},
           last' = [last EXCEPT !["articles"] = last["articles"] + 1],
           UNCHANGED <<users, clients>>
    PROVE  DbInv' /\ Later
<1> DEFINE new == [id |-> last["articles"] + 1, user |-> u]
<1>1. last["articles"] \in Nat /\ last["clients"] \in Nat /\ MaxRows \in Nat
      /\ last'["articles"] = last["articles"] + 1 /\ last'["clients"] = last["clients"]
      /\ last' \in [{"articles", "clients"} -> Nat]
      /\ last'["articles"] + last'["clients"] <= MaxRows
  BY WebUiAssumption DEF DbInv, Fits
<1>2. new \in Rows /\ new.id = last["articles"] + 1 /\ new.user = u
  BY <1>1 DEF Rows, Ids, DbInv
<1>3. \A r \in articles : r.id \in Nat
  BY <1>1 DEF DbInv, Rows, Ids
<1> HIDE DEF new
<1>4. \A r \in articles' : r.user \in users' /\ Past(articles, last["articles"], r)'
  <2> SUFFICES ASSUME NEW r \in articles'
               PROVE  r.user \in users /\ r.id <= last["articles"] + 1
                      /\ \A o \in articles' : o.id = r.id => o = r
    BY <1>1 DEF Past
  <2>1. \A o \in articles : o.id <= last["articles"] /\ o.user \in users
    BY DEF DbInv, Past
  <2>2. articles' = articles \cup {new}
    BY DEF new
  <2>3. r.user \in users /\ r.id <= last["articles"] + 1
    BY <1>1, <1>2, <1>3, <2>1, <2>2
  <2>4. ASSUME NEW o \in articles', o.id = r.id PROVE o = r
    <3>1. CASE r \in articles /\ o \in articles
      BY <2>4, <3>1 DEF DbInv, Past
    <3>2. CASE r = new \/ o = new
      BY <1>1, <1>2, <1>3, <2>1, <2>2, <2>4, <3>2
    <3> QED
      BY <2>2, <3>1, <3>2
  <2> QED
    BY <2>3, <2>4
<1>5. DbInv'
  BY <1>1, <1>2, <1>4 DEF DbInv, Past, new
<1> QED
  BY <1>1, <1>2, <1>5 DEF Later, new

LEMMA InsertedClient ==
    ASSUME DbInv, Fits, NEW u \in users, InsertClient(u)
    PROVE  DbInv' /\ Later
<1> DEFINE new == [id |-> last["clients"] + 1, user |-> u]
<1>1. last["articles"] \in Nat /\ last["clients"] \in Nat /\ MaxRows \in Nat
      /\ last'["clients"] = last["clients"] + 1 /\ last'["articles"] = last["articles"]
      /\ last' \in [{"articles", "clients"} -> Nat]
      /\ last'["articles"] + last'["clients"] <= MaxRows
  BY WebUiAssumption DEF DbInv, Fits, InsertClient, NextId
<1>2. new \in Rows /\ new.id = last["clients"] + 1 /\ new.user = u
  BY <1>1 DEF Rows, Ids, DbInv
<1>3. \A r \in clients : r.id \in Nat
  BY <1>1 DEF DbInv, Rows, Ids
<1> HIDE DEF new
<1>4. clients' = clients \cup {new} /\ UNCHANGED <<users, articles>>
  BY DEF InsertClient, NextId, new
<1>5. \A r \in clients' : r.user \in users' /\ Past(clients, last["clients"], r)'
  <2> SUFFICES ASSUME NEW r \in clients'
               PROVE  r.user \in users /\ r.id <= last["clients"] + 1
                      /\ \A o \in clients' : o.id = r.id => o = r
    BY <1>1, <1>4 DEF Past
  <2>1. \A o \in clients : o.id <= last["clients"] /\ o.user \in users
    BY DEF DbInv, Past
  <2>2. r.user \in users /\ r.id <= last["clients"] + 1
    BY <1>1, <1>2, <1>3, <1>4, <2>1
  <2>3. ASSUME NEW o \in clients', o.id = r.id PROVE o = r
    <3>1. CASE r \in clients /\ o \in clients
      BY <2>3, <3>1 DEF DbInv, Past
    <3>2. CASE r = new \/ o = new
      BY <1>1, <1>2, <1>3, <1>4, <2>1, <2>3, <3>2
    <3> QED
      BY <1>4, <3>1, <3>2
  <2> QED
    BY <2>2, <2>3
<1>6. DbInv'
  BY <1>1, <1>2, <1>4, <1>5 DEF DbInv, Past
<1> QED
  BY <1>1, <1>2, <1>4, <1>6 DEF Later

LEMMA Deleted ==
    ASSUME DbInv, articles' \subseteq articles, clients' \subseteq clients,
           UNCHANGED <<users, last>>
    PROVE  DbInv' /\ Later
<1>1. last["articles"] \in Nat /\ last["clients"] \in Nat
  BY DEF DbInv
<1> QED
  BY <1>1 DEF DbInv, Later, Past

LEMMA CreatedUser ==
    ASSUME DbInv, NEW u \in Users, users' = users \cup {u},
           UNCHANGED <<articles, clients, last>>
    PROVE  DbInv' /\ Later
<1>1. last["articles"] \in Nat /\ last["clients"] \in Nat
  BY DEF DbInv
<1> QED
  BY <1>1 DEF DbInv, Later, Past

-----------------------------------------------------------------------------
(* The answers of the handlers.                                            *)

LEMMA PageAnswer ==
    ASSUME DbInv, DbInv', Later, NEW q, NEW s, RequestInv(q, s), q.at \in Addresses,
           NEW shows \in Shows, NEW rows \in SUBSET Rows,
           NEW status \in {"page", "failure", "invalid"},
           Shown(shows, rows)', SomeUser(shows)',
           shows = "login" => q.at = At("login") /\ (q.htmx => s.at = At("setup")),
           shows = "setup" => q.at = At("setup") /\ ~q.htmx,
           NEW b, b = Replied(Answer(status, q.at, shows, rows), q)
    PROVE  AnswerInv(b, s)'
<1>1. q \in RequestForms /\ q.ref \in Addresses /\ q.hops \in Nat
  BY DEF RequestInv, RequestForms
<1>2. /\ b \in AnswerForms
      /\ b.status = status /\ b.at = q.at /\ b.shows = shows /\ b.rows = rows
      /\ b.session = "keep" /\ b.ref = q.ref /\ b.hops = q.hops /\ b.htmx = q.htmx
  BY <1>1, RepliedForm
<1>3. Given(q.at)' /\ Given(q.ref)'
  BY <1>1, GivenStays, AddressForms DEF RequestInv
<1>4. q.hops <= 3
  BY <1>1, RankStays DEF RequestInv
<1>5. status \notin Redirects /\ status # "redirect"
  BY DEF Redirects
<1> QED
  BY <1>1, <1>2, <1>3, <1>4, <1>5 DEF AnswerInv

\* An error page, or nothing at all.
LEMMA BlankAnswer ==
    ASSUME DbInv, DbInv', Later, NEW q, NEW s, RequestInv(q, s), q.at \in Addresses,
           NEW shows \in Blank, NEW status \in {"page", "failure", "invalid"},
           shows = "setup" => q.at = At("setup") /\ ~q.htmx,
           NEW b, b = Replied(Answer(status, q.at, shows, {}), q)
    PROVE  AnswerInv(b, s)'
<1>1. Shown(shows, {})' /\ SomeUser(shows)' /\ shows \in Shows /\ shows # "login"
  BY DEF Shown, SomeUser, Blank, Shows, ArticlePages, ClientPages
<1> QED
  BY <1>1, PageAnswer

LEMMA RedirectAnswer ==
    ASSUME DbInv, DbInv', Later, NEW q, NEW s, RequestInv(q, s),
           NEW at \in Addresses, Given(at)', NEW status \in Redirects,
           q.htmx /\ status = "redirect" => Late(at, s)',
           q.hops + 1 + PageRank(at.page)' <= 3,
           NEW b, b = Replied(To(status, at), q)
    PROVE  AnswerInv(b, s)'
<1>1. q \in RequestForms /\ q.ref \in Addresses /\ q.hops \in Nat
  BY DEF RequestInv, RequestForms
<1>2. Leads(b, status, at, q)
  BY <1>1, RepliedTo
<1>3. Given(q.ref)'
  BY <1>1, GivenStays, AddressForms DEF RequestInv
<1>4. Shown("", {})' /\ SomeUser("")'
  BY DEF Shown, SomeUser, Blank, ArticlePages, ClientPages
<1>5. q.hops + (1 + PageRank(at.page)') <= 3
  <2>1. PageRank(at.page)' \in Nat
    BY RankStays
  <2> QED
    BY <1>1, <2>1
<1> QED
  BY <1>1, <1>2, <1>3, <1>4, <1>5 DEF AnswerInv, Leads

\* A form's answer may lead to any page.
LEMMA FormRedirect ==
    ASSUME DbInv, DbInv', Later, NEW q, NEW s, RequestInv(q, s), q.verb # "get",
           NEW at \in Addresses, Given(at)', NEW status \in Redirects,
           q.htmx /\ status = "redirect" => Late(at, s)', users' # {},
           NEW b, b = Replied(To(status, at), q)
    PROVE  AnswerInv(b, s)'
<1>1. q.hops = 0 /\ users' # {}
  BY DEF RequestInv
<1>2. PageRank(at.page)' \in {0, 1}
  BY <1>1 DEF PageRank
<1>3. q.hops + 1 + PageRank(at.page)' <= 3
  BY <1>1, <1>2
<1> QED
  BY <1>3, RedirectAnswer

\* Nobody is signed in.
LEMMA UnauthenticatedAnswer ==
    ASSUME DbInv, DbInv', Later, NEW q, NEW s, RequestInv(q, s),
           q.verb # "setup", q.verb = "get" => q.at.page \notin {"login", "setup"},
           NEW b, b = Replied(Unauthenticated(q), q)
    PROVE  AnswerInv(b, s)'
<1> DEFINE status == IF q.htmx THEN "hx-redirect" ELSE "redirect"
<1>1. Unauthenticated(q) = To(status, At("login"))
  BY DEF Unauthenticated, Redirect, HxRedirect, To
<1>2. status \in Redirects /\ (q.htmx => status # "redirect")
  BY DEF Redirects
<1>3. At("login") \in Addresses /\ At("login").page = "login" /\ Given(At("login"))'
  BY AddressForms DEF Given
<1>4. CASE q.verb # "get"
  <2>1. users' # {}
    BY <1>4 DEF RequestInv, Later
  <2> QED
    BY <1>1, <1>2, <1>3, <1>4, <2>1, FormRedirect
<1>5. CASE q.verb = "get"
  <2>1. q.hops \in Nat /\ q.hops + (IF users = {} THEN 3 ELSE 1) <= 3
    BY <1>5 DEF RequestInv, RequestForms, PageRank
  <2>2. PageRank("login")' <= (IF users = {} THEN 2 ELSE 0) /\ PageRank("login")' \in Nat
    BY DEF PageRank, Later
  <2>3. q.hops + 1 + PageRank("login")' <= 3
    BY <2>1, <2>2
  <2> QED
    BY <1>1, <1>2, <1>3, <2>3, RedirectAnswer
<1> QED
  BY <1>4, <1>5

-----------------------------------------------------------------------------
(* The handlers.                                                           *)

\* Pages that answer whoever asks.
LEMMA LoginStep ==
    ASSUME IInv, NEW t \in Tabs, LoginPage(t) \/ SetupPage(t)
    PROVE  TabsInv'
<1> DEFINE q == wire[t]
<1>1. DbInv' /\ Later
  BY SameDb DEF IInv, LoginPage, SetupPage
<1>s. PICK s : s = screen[t]
  OBVIOUS
<1>2. /\ RequestInv(q, s) /\ q.verb = "get" /\ q.at \in Addresses
      /\ q.hops \in Nat /\ UNCHANGED <<users, cookie, screen>>
  BY <1>s, OnTheWire DEF IInv, LoginPage, SetupPage, Gets, Asks, RequestInv, RequestForms, Asked, db
<1>3. /\ At("login") \in Addresses /\ At("login").page = "login" /\ Given(At("login"))'
      /\ At("setup") \in Addresses /\ At("setup").page = "setup" /\ Given(At("setup"))'
  BY AddressForms DEF Given
<1>4. \A at \in Addresses : at.page = "login" => at = At("login")
  BY DEF Addresses, At, ArticleAt
<1>5. \A a, b : b = Replied(a, q) /\ Reply(t, a) /\ AnswerInv(b, s)' => TabsInv'
  BY <1>s, <1>1, <1>2, ReplyStep DEF IInv
<1>h. q.htmx => Late(q.at, s)
  BY <1>2 DEF RequestInv, HtmxVerbs
<1>6. CASE LoginPage(t)
  <2>1. q.at.page = "login"
    BY <1>6 DEF LoginPage, Gets
  <2>2. CASE users = {}
    <3>1. Reply(t, To("redirect", At("setup")))
      BY <1>6, <2>2 DEF LoginPage, Redirect, To
    <3>2. PICK b : b = Replied(To("redirect", At("setup")), q)
      OBVIOUS
    <3>3. q.hops + 1 + PageRank("setup")' <= 3
      BY <1>2, <2>1, <2>2 DEF RequestInv, PageRank
    <3>4. AnswerInv(b, s)'
      BY <1>1, <1>2, <1>3, <1>h, <2>2, <3>2, <3>3, RedirectAnswer DEF IInv, Redirects, Late
    <3> QED
      BY <1>5, <3>1, <3>2, <3>4
  <2>3. CASE users # {}
    <3>1. Reply(t, Answer("page", q.at, "login", {}))
      BY <1>6, <2>3 DEF LoginPage, Page
    <3>2. PICK b : b = Replied(Answer("page", q.at, "login", {}), q)
      OBVIOUS
    <3>3. Shown("login", {})' /\ SomeUser("login")' /\ "login" \in Shows
      BY <1>2, <2>3 DEF Shown, SomeUser, Shows, ArticlePages, ClientPages
    <3>4. AnswerInv(b, s)'
      BY <1>1, <1>2, <1>4, <1>h, <2>1, <3>2, <3>3, PageAnswer DEF IInv, Late
    <3> QED
      BY <1>5, <3>1, <3>2, <3>4
  <2> QED
    BY <2>2, <2>3
<1>7. CASE SetupPage(t)
  <2>1. q.at.page = "setup" /\ q.at = At("setup") /\ ~q.htmx
    <3>1. q.at.page = "setup"
      BY <1>7 DEF SetupPage, Gets
    <3>2. q.at = At("setup")
      BY <1>2, <3>1 DEF Addresses, At, ArticleAt
    <3> QED
      BY <1>3, <1>h, <3>1, <3>2 DEF Late
  <2>2. CASE users # {}
    <3>1. Reply(t, To("redirect", At("login")))
      BY <1>7, <2>2 DEF SetupPage, Redirect, To
    <3>2. PICK b : b = Replied(To("redirect", At("login")), q)
      OBVIOUS
    <3>3. q.hops + 1 + PageRank("login")' <= 3
      BY <1>2, <2>1, <2>2 DEF RequestInv, PageRank
    <3>4. AnswerInv(b, s)'
      BY <1>1, <1>2, <1>3, <2>1, <3>2, <3>3, RedirectAnswer DEF IInv, Redirects
    <3> QED
      BY <1>5, <3>1, <3>2, <3>4
  <2>3. CASE users = {}
    <3>1. Reply(t, Answer("page", q.at, "setup", {}))
      BY <1>7, <2>3 DEF SetupPage, Page
    <3>2. PICK b : b = Replied(Answer("page", q.at, "setup", {}), q)
      OBVIOUS
    <3>3. AnswerInv(b, s)'
      BY <1>1, <1>2, <2>1, <3>2, BlankAnswer DEF IInv, Blank
    <3> QED
      BY <1>5, <3>1, <3>2, <3>3
  <2> QED
    BY <2>2, <2>3
<1> QED
  BY <1>6, <1>7

\* What the other handlers answer, each kind of answer as a step.  Handles says
\* that a request is handled and that what becomes of the tables is in order.
Handles(t) ==
    /\ IInv /\ DbInv' /\ Later
    /\ wire[t].kind = "request" /\ UNCHANGED <<cookie, screen>>

LEMMA Handled ==
    ASSUME NEW t \in Tabs, Handles(t)
    PROVE  /\ RequestInv(wire[t], screen[t]) /\ ScreenInv(screen[t])
           /\ wire[t].user # None => wire[t].user \in users /\ users # {} /\ users' # {}
           /\ wire[t].verb \notin {"get", "setup"} => users' # {}
           /\ wire[t].verb # "delete_client" => wire[t].at \in Addresses
           /\ wire[t].ref \in Addresses /\ Given(wire[t].ref)
<1>1. RequestInv(wire[t], screen[t]) /\ ScreenInv(screen[t])
  BY OnTheWire DEF Handles, IInv
<1> QED
  BY <1>1 DEF RequestInv, RequestForms, Asked, Handles, Later

LEMMA NobodyStep ==
    ASSUME NEW t \in Tabs, Handles(t), Reply(t, Unauthenticated(wire[t])),
           wire[t].verb # "setup", wire[t].verb = "get" => wire[t].at.page \notin {"login", "setup"}
    PROVE  TabsInv'
<1>1. PICK s, b : s = screen[t] /\ b = Replied(Unauthenticated(wire[t]), wire[t])
  OBVIOUS
<1>2. AnswerInv(b, s)'
  BY <1>1, Handled, UnauthenticatedAnswer DEF Handles, IInv
<1> QED
  BY <1>1, <1>2, ReplyStep DEF Handles, IInv

LEMMA PageStep ==
    ASSUME NEW t \in Tabs, Handles(t), wire[t].verb # "delete_client",
           NEW shows \in Shows \ {"login", "setup"}, NEW rows \in SUBSET Rows,
           NEW status \in {"page", "failure", "invalid"},
           Shown(shows, rows)', SomeUser(shows)',
           Reply(t, Answer(status, wire[t].at, shows, rows))
    PROVE  TabsInv'
<1>1. PICK s, b : s = screen[t] /\ b = Replied(Answer(status, wire[t].at, shows, rows), wire[t])
  OBVIOUS
<1>2. shows # "login" /\ shows # "setup" /\ shows \in Shows
  OBVIOUS
<1>3. AnswerInv(b, s)'
  BY <1>1, <1>2, Handled, PageAnswer DEF Handles, IInv
<1> QED
  BY <1>1, <1>3, ReplyStep DEF Handles, IInv

LEMMA BlankStep ==
    ASSUME NEW t \in Tabs, Handles(t), wire[t].verb # "delete_client",
           Reply(t, Failure(wire[t])) \/ Reply(t, Invalid(wire[t]))
    PROVE  TabsInv'
<1>1. PICK shows \in {"", "error"}, status \in {"failure", "invalid"} :
          Reply(t, Answer(status, wire[t].at, shows, {}))
  BY DEF Failure, Invalid
<1>2. PICK s, b : s = screen[t] /\ b = Replied(Answer(status, wire[t].at, shows, {}), wire[t])
  OBVIOUS
<1>3. AnswerInv(b, s)'
  BY <1>1, <1>2, Handled, BlankAnswer DEF Handles, IInv, Blank
<1> QED
  BY <1>1, <1>2, <1>3, ReplyStep DEF Handles, IInv

LEMMA FormStep ==
    ASSUME NEW t \in Tabs, Handles(t), wire[t].verb # "get",
           NEW at \in Addresses, Given(at), NEW status \in Redirects,
           wire[t].htmx /\ status = "redirect" => Late(at, screen[t]), users' # {},
           Reply(t, To(status, at))
    PROVE  TabsInv'
<1>1. PICK s, b : s = screen[t] /\ b = Replied(To(status, at), wire[t])
  OBVIOUS
<1>2. Given(at)'
  BY GivenStays, AddressForms DEF Handles, IInv
<1>3. AnswerInv(b, s)'
  BY <1>1, <1>2, Handled, FormRedirect DEF Handles, IInv, Late
<1> QED
  BY <1>1, <1>3, ReplyStep DEF Handles, IInv

\* Rows of a table may be shown as they are after the step.
LEMMA TableRows ==
    ASSUME DbInv'
    PROVE  /\ \A rows \in SUBSET articles', shows \in ArticlePages :
                 rows \in SUBSET Rows /\ Shown(shows, rows)' /\ shows \in Shows \ {"login", "setup"}
           /\ \A rows \in SUBSET clients', shows \in ClientPages :
                 rows \in SUBSET Rows /\ Shown(shows, rows)' /\ shows \in Shows \ {"login", "setup"}
<1>1. articles' \subseteq Rows /\ \A r \in articles' : Past(articles, last["articles"], r)'
  BY DEF DbInv
<1>2. clients' \subseteq Rows /\ \A r \in clients' : Past(clients, last["clients"], r)'
  BY DEF DbInv
<1> QED
  BY <1>1, <1>2 DEF Shown, ArticlePages, ClientPages, Shows, Blank

\* Pages of lists.
LEMMA ListStep ==
    ASSUME IInv, NEW t \in Tabs, ListPage(t) \/ ClientsPage(t) \/ DeveloperPage(t)
    PROVE  TabsInv'
<1> DEFINE q == wire[t]
<1>1. Handles(t) /\ UNCHANGED <<articles, clients>>
  BY SameDb DEF IInv, ListPage, ClientsPage, DeveloperPage, Gets, Asks, Handles, db
<1>2. q.verb = "get" /\ q.at.page \notin {"login", "setup"}
  BY DEF ListPage, ClientsPage, DeveloperPage, Gets, Asks
<1>3. ~q.htmx
  BY <1>1, <1>2, Handled, AddressForms DEF RequestInv, HtmxVerbs, Late
<1>4. CASE q.user = None
  <2>1. Reply(t, Unauthenticated(q))
    BY <1>3, <1>4 DEF ListPage, ClientsPage, DeveloperPage, ForUser, Unauthenticated
  <2> QED
    BY <1>1, <1>2, <2>1, NobodyStep
<1>5. CASE q.user # None
  <2>1. PICK shows \in ArticlePages \cup ClientPages :
          \/ /\ shows \in ArticlePages
             /\ Reply(t, Answer("page", q.at, shows, Owned(articles, q.user)))
          \/ /\ shows \in ClientPages
             /\ Reply(t, Answer("page", q.at, shows, Owned(clients, q.user)))
    BY <1>5 DEF ListPage, ClientsPage, DeveloperPage, ForUser, Page, ArticlePages, ClientPages
  <2>2. Owned(articles, q.user) \in SUBSET articles' /\ Owned(clients, q.user) \in SUBSET clients'
    BY <1>1 DEF Owned
  <2>3. SomeUser(shows)'
    BY <1>1, <1>5, Handled DEF SomeUser
  <2> QED
    BY <1>1, <1>2, <2>1, <2>2, <2>3, TableRows, PageStep DEF Handles
<1> QED
  BY <1>4, <1>5

\* Pages of an article.
LEMMA ArticleStep ==
    ASSUME IInv, NEW t \in Tabs, ArticlePage(t) \/ DoUpdate(t)
    PROVE  TabsInv'
<1> DEFINE q == wire[t]
<1>1. Handles(t) /\ UNCHANGED <<articles, clients>>
  BY SameDb DEF IInv, ArticlePage, DoUpdate, Gets, Asks, Handles, db
<1>2. /\ q.verb = "get" => q.at.page \notin {"login", "setup"}
      /\ q.verb \notin {"delete_client", "setup"}
  BY DEF ArticlePage, DoUpdate, Gets, Asks
<1>3. CASE q.user = None
  <2>1. Reply(t, Unauthenticated(q))
    BY <1>3 DEF ArticlePage, DoUpdate, ForUser
  <2> QED
    BY <1>1, <1>2, <2>1, NobodyStep
<1>4. CASE q.user # None
  <2>1. \/ Reply(t, Failure(q))
        \/ \E shows \in ArticlePages, rows \in SUBSET articles' :
              Reply(t, Answer("page", q.at, shows, rows))
    <3>1. Owned(articles, q.user) \in SUBSET articles'
          /\ Match(articles, q.user, q.at.id) \in SUBSET articles'
      BY <1>1 DEF Owned, Match
    <3> QED
      BY <1>4, <3>1 DEF ArticlePage, DoUpdate, ForUser, Page, ArticlePages
  <2>2. CASE Reply(t, Failure(q))
    BY <1>1, <1>2, <2>2, BlankStep
  <2>3. ASSUME NEW shows \in ArticlePages, NEW rows \in SUBSET articles',
               Reply(t, Answer("page", q.at, shows, rows))
        PROVE  TabsInv'
    <3>1. SomeUser(shows)'
      BY <1>1, <1>4, Handled DEF SomeUser
    <3> QED
      BY <1>1, <1>2, <2>3, <3>1, TableRows, PageStep DEF Handles
  <2> QED
    BY <2>1, <2>2, <2>3
<1> QED
  BY <1>3, <1>4

\* The session begins and ends.
LEMMA SessionStep ==
    ASSUME IInv, NEW t \in Tabs, DoLogin(t) \/ Logout(t)
    PROVE  TabsInv'
<1>q. PICK q : q = wire[t]
  OBVIOUS
<1>1. Handles(t)
  BY SameDb DEF IInv, DoLogin, Logout, Asks, Handles, db
<1>2. q.verb \in {"login", "logout"}
  BY <1>q DEF DoLogin, Logout, Asks
<1>3. RequestInv(q, screen[t]) /\ q \in RequestForms
  BY <1>q, <1>1, Handled DEF RequestInv
<1>4. ~q.htmx /\ q.hops = 0 /\ users' # {} /\ q.ref \in Addresses /\ Given(q.ref)'
  <2>1. Given(q.ref) /\ q.ref \in Addresses
    BY <1>q, <1>1, Handled
  <2>2. Given(q.ref)'
    BY <1>1, <2>1, GivenStays, AddressForms DEF Handles, IInv
  <2> QED
    BY <1>1, <1>2, <1>3, <2>1, <2>2 DEF RequestInv, Handles, Later, HtmxVerbs
<1>5. ASSUME NEW at \in Addresses, NEW u \in users' \cup {None}, Given(at)',
             Reply(t, ToAs(at, u))
      PROVE  TabsInv'
  <2>1. PICK s, b : s = screen[t] /\ b = Replied(ToAs(at, u), q)
    OBVIOUS
  <2>2. u \in Somebody
    BY <1>1 DEF Handles, DbInv, Somebody
  <2>3. LeadsAs(b, at, u, q)
    BY <1>3, <2>1, <2>2, RepliedSession
  <2>4. Shown("", {})' /\ SomeUser("")'
    BY DEF Shown, SomeUser, Blank, ArticlePages, ClientPages
  <2>5. 0 + (1 + PageRank(at.page)') <= 3
    <3>1. PageRank(at.page)' \in {0, 1}
      BY <1>4 DEF PageRank
    <3> QED
      BY <3>1
  <2>6. AnswerInv(b, s)'
    BY <1>4, <1>5, <2>3, <2>4, <2>5 DEF AnswerInv, LeadsAs, Redirects
  <2> QED
    BY <1>q, <1>1, <1>5, <2>1, <2>6, ReplyStep DEF Handles, IInv
<1>6. At("login") \in Addresses /\ Given(At("login"))'
      /\ At("root") \in Addresses /\ Given(At("root"))'
  BY AddressForms DEF Given
<1>7. CASE Logout(t)
  BY <1>5, <1>6, <1>7 DEF Logout, ToAs
<1>8. CASE DoLogin(t)
  <2>1. CASE q.known /\ q.as \in users
    <3>1. q.as \in users'
      BY <1>1, <2>1 DEF Handles, Later
    <3> QED
      BY <1>q, <1>5, <1>6, <1>8, <2>1, <3>1 DEF DoLogin, ToAs
  <2>2. CASE ~(q.known /\ q.as \in users)
    <3>1. Reply(t, To("redirect", q.ref)) /\ Given(q.ref)
      BY <1>q, <1>1, <1>8, <2>2, Handled DEF DoLogin, Redirect, To
    <3> QED
      BY <1>q, <1>1, <1>2, <1>4, <3>1, FormStep DEF Redirects
  <2> QED
    BY <2>1, <2>2
<1> QED
  BY <1>7, <1>8

\* Rows are inserted and deleted.
LEMMA WriteDb ==
    ASSUME IInv, NEW t \in Tabs,
           \/ DoAdd(t) \/ DoCreateClient(t) \/ PostClientCreate(t)
           \/ DoClientDelete(t) \/ DoDelete(t)
    PROVE  DbInv' /\ Later
<1> DEFINE q == wire[t]
<1>1. q.kind = "request"
  BY DEF DoAdd, DoCreateClient, PostClientCreate, DoClientDelete, DoDelete, Asks
<1>2. q.user \in users \cup {None}
  BY <1>1, OnTheWire DEF IInv, RequestInv
<1>3. CASE UNCHANGED db
  BY <1>3, SameDb DEF IInv
<1>4. CASE DoAdd(t)
  <2>1. \/ UNCHANGED db
        \/ /\ Fits /\ q.user \in users /\ UNCHANGED <<users, clients>>
           /\ articles' = articles \cup {[id |-> last["articles"] + 1, user |-> q.user]}
           /\ last' = [last EXCEPT !["articles"] = last["articles"] + 1]
    BY <1>2, <1>4 DEF DoAdd, NextId
  <2> QED
    BY <1>3, <2>1, InsertedArticle DEF IInv
<1>5. CASE DoCreateClient(t) \/ PostClientCreate(t)
  <2>1. UNCHANGED db \/ (Fits /\ q.user \in users /\ InsertClient(q.user))
    BY <1>2, <1>5 DEF DoCreateClient, PostClientCreate
  <2> QED
    BY <1>3, <2>1, InsertedClient DEF IInv
<1>6. CASE DoClientDelete(t)
  <2>1. clients' \subseteq clients
    BY <1>6 DEF DoClientDelete, DeleteClientRow
  <2> QED
    BY <1>6, <2>1, Deleted DEF IInv, DoClientDelete
<1>7. CASE DoDelete(t)
  <2>1. articles' \subseteq articles
    BY <1>7 DEF DoDelete
  <2> QED
    BY <1>7, <2>1, Deleted DEF IInv, DoDelete
<1> QED
  BY <1>4, <1>5, <1>6, <1>7

LEMMA WriteStep ==
    ASSUME IInv, NEW t \in Tabs,
           \/ DoAdd(t) \/ DoCreateClient(t) \/ PostClientCreate(t)
           \/ DoClientDelete(t) \/ DoDelete(t)
    PROVE  TabsInv'
<1> DEFINE q == wire[t]
<1>1. Handles(t)
  BY WriteDb DEF DoAdd, DoCreateClient, PostClientCreate, DoClientDelete, DoDelete, Asks,
                 Handles
<1>2. q.verb # "get"
  BY DEF DoAdd, DoCreateClient, PostClientCreate, DoClientDelete, DoDelete, Asks
<1>3. At("login") \in Addresses /\ Given(At("login")) /\ At("root") \in Addresses
      /\ Given(At("root")) /\ At("clients") \in Addresses /\ Given(At("clients"))
  BY AddressForms DEF Given
<1>4. q.ref \in Addresses /\ Given(q.ref)
  BY <1>1, Handled
<1>v. q.verb \in {"add", "create_client", "developer_create", "delete_client", "delete"}
  BY DEF DoAdd, DoCreateClient, PostClientCreate, DoClientDelete, DoDelete, Asks
<1>5. /\ q.htmx => q.verb \in {"create_client", "delete"}
      /\ users' # {} /\ q.verb # "setup"
  BY <1>1, <1>v, Handled DEF RequestInv, HtmxVerbs
<1>6. CASE q.user = None
  <2>1. \/ Reply(t, Unauthenticated(q))
        \/ ~q.htmx /\ Reply(t, To("redirect", At("login")))
    BY <1>5, <1>6 DEF DoAdd, DoCreateClient, PostClientCreate, DoClientDelete, DoDelete,
                      ForUser, Redirect, To, Asks
  <2> QED
    BY <1>1, <1>2, <1>3, <1>5, <2>1, NobodyStep, FormStep DEF Redirects
<1>7. CASE q.user # None /\ DoAdd(t)
  <2>1. ~q.htmx /\ q.verb # "delete_client"
    BY <1>5, <1>7 DEF DoAdd, Asks
  <2>2. Reply(t, To("redirect", q.ref)) \/ Reply(t, Failure(q))
    BY <1>7 DEF DoAdd, ForUser, Redirect, To
  <2> QED
    BY <1>1, <1>2, <1>4, <1>5, <2>1, <2>2, FormStep, BlankStep DEF Redirects
<1>8. CASE q.user # None /\ DoCreateClient(t)
  <2>1. q.verb # "delete_client"
    BY <1>8 DEF DoCreateClient, Asks
  <2>2. \/ Reply(t, To("hx-redirect", At("clients")))
        \/ Reply(t, Failure(q)) \/ Reply(t, Invalid(q))
    BY <1>8 DEF DoCreateClient, ForUser, HxRedirect, To
  <2> QED
    BY <1>1, <1>2, <1>3, <1>5, <2>1, <2>2, FormStep, BlankStep DEF Redirects
<1>9. CASE q.user # None /\ PostClientCreate(t)
  <2>1. q.verb # "delete_client"
    BY <1>9 DEF PostClientCreate, Asks
  <2>2. Reply(t, Answer("page", q.at, "created", {})) \/ Reply(t, Failure(q))
    BY <1>9 DEF PostClientCreate, Page
  <2>3. Shown("created", {})' /\ SomeUser("created")' /\ "created" \in Shows \ {"login", "setup"}
    BY <1>5, <1>9 DEF Shown, SomeUser, Shows, ArticlePages, ClientPages
  <2> QED
    BY <1>1, <2>1, <2>2, <2>3, PageStep, BlankStep
<1>10. CASE q.user # None /\ DoClientDelete(t)
  <2>1. ~q.htmx /\ Reply(t, To("redirect", q.ref))
    BY <1>5, <1>10 DEF DoClientDelete, ForUser, Redirect, To, Asks
  <2> QED
    BY <1>1, <1>2, <1>4, <1>5, <2>1, FormStep DEF Redirects
<1>11. CASE q.user # None /\ DoDelete(t)
  <2>1. q.verb # "delete_client"
    BY <1>11 DEF DoDelete, Asks
  <2>2. \/ Reply(t, To("hx-redirect", At("root")))
        \/ \E rows \in SUBSET articles' : Reply(t, Answer("page", q.at, "list", rows))
    BY <1>11 DEF DoDelete, ForUser, HxRedirect, Page, To, Owned
  <2>3. CASE Reply(t, To("hx-redirect", At("root")))
    BY <1>1, <1>2, <1>3, <1>5, <2>3, FormStep DEF Redirects
  <2>4. ASSUME NEW rows \in SUBSET articles', Reply(t, Answer("page", q.at, "list", rows))
        PROVE  TabsInv'
    <3>1. SomeUser("list")' /\ "list" \in ArticlePages
      BY <1>5, <1>11 DEF SomeUser, ArticlePages
    <3>2. rows \in SUBSET Rows /\ Shown("list", rows)' /\ "list" \in Shows \ {"login", "setup"}
      BY <1>1, <3>1, TableRows DEF Handles
    <3> QED
      BY <1>1, <2>1, <2>4, <3>1, <3>2, PageStep
  <2> QED
    BY <2>2, <2>3, <2>4
<1> QED
  BY <1>6, <1>7, <1>8, <1>9, <1>10, <1>11

\* The first user, who comes from the setup page.
LEMMA SetupDb ==
    ASSUME IInv, NEW t \in Tabs, DoSetup(t)
    PROVE  DbInv' /\ Later
<1>1. CASE UNCHANGED users
  BY <1>1, SameDb DEF IInv, DoSetup, db
<1>2. CASE users = {} /\ users' = {wire[t].as}
  <2>1. wire[t].as \in Users
    BY OnTheWire DEF IInv, DoSetup, Asks, RequestInv, Asked
  <2>2. users' = users \cup {wire[t].as}
    BY <1>2
  <2> QED
    BY <2>1, <2>2, CreatedUser DEF IInv, DoSetup
<1> QED
  BY <1>1, <1>2 DEF DoSetup

LEMMA SetupStep ==
    ASSUME IInv, NEW t \in Tabs, DoSetup(t)
    PROVE  TabsInv'
<1> DEFINE q == wire[t]
<1>1. Handles(t)
  BY SetupDb DEF DoSetup, Asks, Handles
<1>2. /\ q.verb = "setup" /\ screen[t].at = At("setup")
      /\ At("login") \in Addresses /\ Given(At("login"))
  BY <1>1, Handled, AddressForms DEF DoSetup, Asks, RequestInv, Asked, Given
<1>3. CASE users # {}
  <2>1. Reply(t, To("redirect", At("login")))
    BY <1>3 DEF DoSetup, Redirect, To
  <2>2. users' # {} /\ Late(At("login"), screen[t])
    BY <1>1, <1>2, <1>3 DEF Handles, Later, Late
  <2> QED
    BY <1>1, <1>2, <2>1, <2>2, FormStep DEF Redirects
<1>4. CASE users = {} /\ ~q.known
  <2>1. Reply(t, Invalid(q))
    BY <1>4 DEF DoSetup
  <2> QED
    BY <1>1, <1>2, <2>1, BlankStep
<1>5. CASE users = {} /\ q.known
  <2>1. Reply(t, To("hx-redirect", At("login"))) /\ users' # {}
    BY <1>5 DEF DoSetup, HxRedirect, To
  <2> QED
    BY <1>1, <1>2, <2>1, FormStep DEF Redirects
<1> QED
  BY <1>3, <1>4, <1>5

-----------------------------------------------------------------------------
(* The browser and the command line.                                       *)

\* A request as the properties of the wire see it.
Asking(q, verb, at, ref, htmx, hops) ==
    /\ q \in RequestForms
    /\ q.verb = verb /\ q.at = at /\ q.ref = ref /\ q.htmx = htmx /\ q.hops = hops

\* The fields of a login and of a new client.
Filled(q, u, known)  == [q EXCEPT !.as = u, !.known = known]
Named(q, known)      == [q EXCEPT !.known = known]

LEMMA SentRequest ==
    ASSUME IInv, NEW t \in Tabs, NEW verb \in Verbs,
           NEW at \in Addresses \cup {ClientAt(i) : i \in Ids}, NEW ref \in Addresses,
           NEW htmx \in BOOLEAN, NEW q, q = Request(t, verb, at, ref, htmx)
    PROVE  Asking(q, verb, at, ref, htmx, 0) /\ q.user = cookie
<1>1. cookie \in Somebody /\ None \in Somebody
  BY DEF IInv, TabsInv, DbInv, Somebody
<1>2. (screen[t].shows = "article") \in BOOLEAN
  OBVIOUS
<1> HIDE DEF IInv
<1> QED
  BY <1>1, <1>2 DEF Asking, Request, RequestForms

LEMMA SentForm ==
    ASSUME NEW p, NEW verb, NEW at, NEW ref, NEW htmx, Asking(p, verb, at, ref, htmx, 0),
           p.user = cookie, NEW q, NEW u \in Somebody, NEW known \in BOOLEAN,
           q = Filled(p, u, known) \/ q = Named(p, known)
    PROVE  Asking(q, verb, at, ref, htmx, 0) /\ q.user = cookie
<1>1. p \in RequestForms
  BY DEF Asking
<1>2. /\ q \in RequestForms
      /\ q.verb = p.verb /\ q.at = p.at /\ q.ref = p.ref /\ q.htmx = p.htmx
      /\ q.hops = p.hops /\ q.user = p.user
  <2>1. CASE q = Filled(p, u, known)
    BY <1>1, <2>1 DEF RequestForms, Filled
  <2>2. CASE q = Named(p, known)
    BY <1>1, <2>2 DEF RequestForms, Named
  <2> QED
    BY <2>1, <2>2
<1> QED
  BY <1>2 DEF Asking

\* A request that is in order may be sent.
LEMMA SendStep ==
    ASSUME IInv, NEW t \in Tabs, NEW verb \in Verbs,
           NEW at \in Addresses \cup {ClientAt(i) : i \in Ids}, NEW ref \in Addresses,
           NEW htmx \in BOOLEAN, NEW q, Sends(t, q),
           Asking(q, verb, at, ref, htmx, 0), q.user = cookie,
           Given(at), Given(ref), Asked(q, screen[t]),
           htmx => verb \in HtmxVerbs,
           verb = "get" => at.page \notin {"login", "setup"},
           verb \notin {"get", "setup"} => users # {}
    PROVE  TabsInv'
<1>1. DbInv' /\ Later
  BY SameDb DEF IInv, Sends
<1>2. q.user \in users \cup {None}
  BY DEF IInv, TabsInv
<1>3. PageRank(at.page) \in 0..3
  BY DEF PageRank
<1>4. RequestInv(q, screen[t])
  <2>1. q.verb = "get" => q.hops + PageRank(q.at.page) <= 3
    BY <1>3 DEF Asking
  <2> QED
    BY <1>2, <2>1 DEF RequestInv, Asking
<1>5. WireInv(q, screen[t])'
  <2>1. PICK s : s = screen[t]
    OBVIOUS
  <2>2. RequestInv(q, s)' /\ screen'[t] = s
    BY <1>1, <1>4, <2>1, RequestStays DEF Sends, IInv
  <2> QED
    BY <2>2 DEF WireInv
<1> QED
  BY <1>1, <1>5, TabsStep DEF Sends, IInv, Asking

\* A form of the page on the screen may be posted.
LEMMA PostStep ==
    ASSUME IInv, NEW t \in Tabs, NEW verb \in Verbs \ {"get"}, NEW at \in Addresses,
           NEW ref \in Addresses, NEW htmx \in BOOLEAN, NEW q, Sends(t, q),
           Asking(q, verb, at, ref, htmx, 0), q.user = cookie,
           Given(at), Given(ref), Asked(q, screen[t]),
           htmx => verb \in HtmxVerbs, users # {} \/ verb = "setup"
    PROVE  TabsInv'
<1>1. verb \in Verbs /\ at \in Addresses \cup {ClientAt(i) : i \in Ids} /\ verb # "get"
  OBVIOUS
<1> QED
  BY <1>1, SendStep

LEMMA BrowseStep ==
    ASSUME IInv, NEW t \in Tabs, Browse(t)
    PROVE  TabsInv'
<1> DEFINE s == screen[t]
<1>1. /\ ScreenInv(s) /\ s.at \in Addresses /\ s.rows \subseteq Rows /\ Given(s.at)
      /\ s.shows \notin Blank => users # {}
  BY OnTheWire DEF IInv, ScreenInv, ScreenForms, SomeUser
<1>2. \A p \in {"root", "login", "setup", "clients", "developer"} :
         At(p) \in Addresses /\ At(p).page = p /\ Given(At(p))
  BY AddressForms DEF Given
<1>w. ASSUME NEW p \in {"root", "login", "clients", "developer"}, NEW ref \in Addresses,
             NEW verb \in Verbs, NEW q, q = Request(t, verb, At(p), ref, FALSE)
      PROVE  Asking(q, verb, At(p), ref, FALSE, 0) /\ q.user = cookie
  <2>1. PICK at \in Addresses, htmx \in BOOLEAN : at = At(p) /\ htmx = FALSE
    BY <1>2
  <2> QED
    BY <1>w, <2>1, SentRequest
<1>3. ASSUME NEW r \in s.rows, s.shows \in ArticlePages
      PROVE  /\ ArticleAt(r.id) \in Addresses /\ Given(ArticleAt(r.id))
             /\ ArticleAt(r.id).page = "article"
  <2>1. r.id \in Ids /\ r.id <= last["articles"]
    BY <1>1, <1>3 DEF ScreenInv, Shown, Past, Rows
  <2> QED
    BY <2>1, AddressForms DEF Given
<1>4. ASSUME NEW r \in s.rows
      PROVE  /\ ClientAt(r.id) \in {ClientAt(i) : i \in Ids} /\ Given(ClientAt(r.id))
  <2>1. r.id \in Ids
    BY <1>1 DEF Rows
  <2> QED
    BY <2>1, AddressForms DEF Given
<1>5. ASSUME NEW p \in {"root", "clients", "developer"}, Open(t, p) PROVE TabsInv'
  <2>1. PICK q : q = Request(t, "get", At(p), At("root"), FALSE)
    OBVIOUS
  <2>2. Asking(q, "get", At(p), At("root"), FALSE, 0) /\ q.user = cookie
    <3>1. p \in {"root", "login", "clients", "developer"} /\ "get" \in Verbs
          /\ At("root") \in Addresses
      BY <1>2 DEF Verbs
    <3> QED
      BY <1>w, <2>1, <3>1
  <2>3. Asked(q, s)
    BY <1>2, <2>2 DEF Asked, Asking
  <2> QED
    BY <1>2, <1>5, <2>1, <2>2, <2>3, SendStep DEF Open, Verbs
<1>6. ASSUME NEW r \in s.rows, Follow(t, r) PROVE TabsInv'
  <2>1. PICK q : q = Request(t, "get", ArticleAt(r.id), s.at, FALSE)
    OBVIOUS
  <2>2. s.shows \in ArticlePages
    BY <1>6 DEF Follow, ArticlePages
  <2>3. Asking(q, "get", ArticleAt(r.id), s.at, FALSE, 0) /\ q.user = cookie
    BY <1>1, <1>3, <2>1, <2>2, SentRequest DEF Verbs
  <2>4. Asked(q, s)
    BY <1>3, <2>2, <2>3 DEF Asked, Asking
  <2> QED
    BY <1>1, <1>3, <1>6, <2>1, <2>2, <2>3, <2>4, SendStep DEF Follow, Verbs
<1>7. ASSUME NEW r \in s.rows, SubmitClientDelete(t, r) PROVE TabsInv'
  <2>1. PICK q : q = Request(t, "delete_client", ClientAt(r.id), s.at, FALSE)
    OBVIOUS
  <2>2. Asking(q, "delete_client", ClientAt(r.id), s.at, FALSE, 0) /\ q.user = cookie
    BY <1>1, <1>4, <2>1, SentRequest DEF Verbs
  <2>3. Asked(q, s) /\ users # {}
    BY <1>1, <1>7, <2>2 DEF Asked, Asking, SubmitClientDelete, Blank
  <2> QED
    BY <1>1, <1>4, <1>7, <2>1, <2>2, <2>3, SendStep DEF SubmitClientDelete, Verbs
<1>8. ASSUME NEW r \in s.rows, NEW verb \in {"delete", "update"}, SubmitForArticle(t, verb, r)
      PROVE  TabsInv'
  <2>1. PICK q : q = Request(t, verb, ArticleAt(r.id), s.at, TRUE)
    OBVIOUS
  <2>2. s.shows \in ArticlePages /\ users # {}
    BY <1>1, <1>8 DEF SubmitForArticle, ArticlePages, Blank
  <2>3. /\ verb \in Verbs \ {"get"} /\ verb \in Verbs
        /\ ArticleAt(r.id) \in Addresses /\ Given(ArticleAt(r.id))
        /\ ArticleAt(r.id) \in Addresses \cup {ClientAt(i) : i \in Ids}
    BY <1>3, <2>2 DEF Verbs
  <2>4. Asking(q, verb, ArticleAt(r.id), s.at, TRUE, 0) /\ q.user = cookie
    BY <1>1, <2>1, <2>3, SentRequest
  <2>5. Asked(q, s)
    BY <2>2, <2>3, <2>4 DEF Asked, Asking
  <2>6. Sends(t, q)
    BY <1>8, <2>1 DEF SubmitForArticle
  <2> QED
    BY <1>1, <2>2, <2>3, <2>4, <2>5, <2>6, PostStep DEF HtmxVerbs
<1>9. ASSUME NEW u \in Users, NEW known \in BOOLEAN, SubmitLogin(t, u, known)
      PROVE  TabsInv'
  <2>1. PICK p, q : /\ p = Request(t, "login", At("login"), s.at, FALSE)
                    /\ q = Filled(p, u, known)
    OBVIOUS
  <2>2. Asking(p, "login", At("login"), s.at, FALSE, 0) /\ p.user = cookie
    <3>1. "login" \in {"root", "login", "clients", "developer"} /\ "login" \in Verbs
      BY DEF Verbs
    <3> QED
      BY <1>1, <1>w, <2>1, <3>1
  <2>3. Asking(q, "login", At("login"), s.at, FALSE, 0) /\ q.user = cookie
    BY <2>1, <2>2, SentForm DEF Somebody
  <2>4. Asked(q, s) /\ users # {}
    BY <1>1, <1>2, <1>9, <2>3 DEF Asked, Asking, SubmitLogin, Blank
  <2>5. Sends(t, q)
    BY <1>9, <2>1 DEF SubmitLogin, Filled
  <2>6. "login" \in Verbs \ {"get"} /\ At("login") \in Addresses /\ Given(At("login"))
    BY <1>2 DEF Verbs
  <2> QED
    BY <1>1, <2>3, <2>4, <2>5, <2>6, PostStep
<1>10. CASE SubmitLogout(t) \/ SubmitAdd(t)
  <2>1. PICK verb \in {"logout", "add"}, p \in {"login", "root"} :
          Sends(t, Request(t, verb, At(p), s.at, FALSE))
    BY <1>10 DEF SubmitLogout, SubmitAdd
  <2>2. PICK q : q = Request(t, verb, At(p), s.at, FALSE)
    OBVIOUS
  <2>3. Asking(q, verb, At(p), s.at, FALSE, 0) /\ q.user = cookie
    <3>1. p \in {"root", "login", "clients", "developer"} /\ verb \in Verbs
      BY DEF Verbs
    <3> QED
      BY <1>1, <1>w, <2>2, <3>1
  <2>4. Asked(q, s) /\ users # {}
    BY <1>1, <1>2, <1>10, <2>3 DEF Asked, Asking, SubmitLogout, SubmitAdd, SignedInPages, Blank
  <2>5. verb \in Verbs \ {"get"} /\ At(p) \in Addresses /\ Given(At(p)) /\ Sends(t, q)
    BY <1>2, <2>1, <2>2 DEF Verbs
  <2> QED
    BY <1>1, <2>3, <2>4, <2>5, PostStep
<1>11. ASSUME NEW known \in BOOLEAN, SubmitClient(t, known) PROVE TabsInv'
  <2>1. PICK verb \in {"create_client", "developer_create"}, p \in {"clients", "developer"},
             htmx \in BOOLEAN :
          /\ Sends(t, [Request(t, verb, At(p), s.at, htmx) EXCEPT !.known = known])
          /\ htmx => verb = "create_client"
    BY <1>11 DEF SubmitClient
  <2>2. PICK o, q : o = Request(t, verb, At(p), s.at, htmx) /\ q = Named(o, known)
    OBVIOUS
  <2>3. /\ verb \in Verbs \ {"get"} /\ verb \in Verbs
        /\ At(p) \in Addresses /\ Given(At(p))
        /\ At(p) \in Addresses \cup {ClientAt(i) : i \in Ids}
    BY <1>2 DEF Verbs
  <2>4. Asking(o, verb, At(p), s.at, htmx, 0) /\ o.user = cookie
    BY <1>1, <2>2, <2>3, SentRequest
  <2>5. Asking(q, verb, At(p), s.at, htmx, 0) /\ q.user = cookie
    BY <2>2, <2>4, SentForm DEF Somebody
  <2>6. Asked(q, s) /\ users # {}
    BY <1>1, <1>2, <1>11, <2>5 DEF Asked, Asking, SubmitClient, Blank
  <2>7. Sends(t, q)
    BY <2>1, <2>2 DEF Named
  <2> QED
    BY <1>1, <2>1, <2>5, <2>6, <2>7, <2>3, PostStep DEF HtmxVerbs
<1>12. ASSUME NEW u \in Users, NEW known \in BOOLEAN, SubmitSetup(t, u, known)
       PROVE  TabsInv'
  <2>1. PICK at \in Addresses, htmx \in BOOLEAN : at = At("setup") /\ htmx = TRUE
    BY <1>2
  <2>2. PICK p, q : /\ p = Request(t, "setup", at, s.at, htmx)
                    /\ q = Filled(p, u, known)
    OBVIOUS
  <2>3. Asking(p, "setup", at, s.at, htmx, 0) /\ p.user = cookie /\ "setup" \in Verbs \ {"get"}
    BY <1>1, <2>2, SentRequest DEF Verbs
  <2>4. Asking(q, "setup", at, s.at, htmx, 0) /\ q.user = cookie
    BY <2>2, <2>3, SentForm DEF Somebody
  <2>5. q.as = u
    BY <2>2, <2>3 DEF Filled, Asking, RequestForms
  <2>6. s.at = At("setup")
    BY <1>1, <1>12 DEF SubmitSetup, ScreenInv
  <2>7. Asked(q, s)
    BY <2>1, <2>4, <2>5, <2>6 DEF Asked, Asking
  <2>8. Sends(t, q)
    BY <1>12, <2>1, <2>2 DEF SubmitSetup, Filled
  <2>9. Given(at)
    BY <1>2, <2>1
  <2> QED
    BY <1>1, <2>3, <2>4, <2>7, <2>8, <2>9, PostStep DEF HtmxVerbs
<1> QED
  BY <1>5, <1>6, <1>7, <1>8, <1>9, <1>10, <1>11, <1>12 DEF Browse

\* The request that follows a redirect.
Followed(q, a, at, ref, htmx) ==
    /\ q \in RequestForms
    /\ q.verb = "get" /\ q.at = at /\ q.ref = ref /\ q.htmx = htmx /\ q.hops = a.hops + 1
    /\ q.user \in users \cup {None}

LEMMA FollowedForm ==
    ASSUME IInv, NEW t \in Tabs, NEW s, NEW a, AnswerInv(a, s), NEW ref \in Addresses,
           NEW htmx \in BOOLEAN, NEW session \in users \cup {None}, NEW q,
           q = [Request(t, "get", a.at, ref, htmx)
                   EXCEPT !.user = session, !.hops = a.hops + 1]
    PROVE  Followed(q, a, a.at, ref, htmx)
<1>1. session \in Somebody /\ None \in Somebody
  BY DEF IInv, DbInv, Somebody
<1>2. a.at \in Addresses /\ a.hops + 1 \in Nat
  BY DEF AnswerInv, AnswerForms
<1>3. (screen[t].shows = "article") \in BOOLEAN /\ "get" \in Verbs
  BY DEF Verbs
<1> HIDE DEF IInv, AnswerInv
<1> QED
  BY <1>1, <1>2, <1>3 DEF Followed, Request, RequestForms

LEMMA ReceiveStep ==
    ASSUME IInv, NEW t \in Tabs, Receive(t)
    PROVE  TabsInv'
<1>a. PICK a : a = wire[t]
  OBVIOUS
<1>s. PICK s : s = screen[t]
  OBVIOUS
<1> DEFINE session == IF a.session = "keep" THEN cookie ELSE a.session
<1>1. DbInv' /\ Later /\ UNCHANGED db
  BY SameDb DEF IInv, Receive
<1>2. /\ AnswerInv(a, s) /\ ScreenInv(s) /\ a \in AnswerForms /\ a.hops \in Nat
      /\ s.at \in Addresses /\ a.at \in Addresses /\ a.ref \in Addresses
      /\ a.htmx \in BOOLEAN /\ a.rows \in SUBSET Rows /\ a.shows \in Shows
  BY <1>a, <1>s, OnTheWire DEF IInv, Receive, AnswerInv, AnswerForms, ScreenInv, ScreenForms
<1>3. cookie' = session /\ session \in users \cup {None}
  BY <1>2, <1>a DEF Receive, IInv, TabsInv, AnswerInv
<1>4. /\ screen'[t] \in ScreenForms /\ ScreenInv(screen'[t])
      /\ \A o \in Tabs \ {t} : screen'[o] = screen[o]
      /\ DOMAIN screen' = Tabs /\ screen' = [o \in Tabs |-> screen'[o]]
  <2>1. PICK n : screen' = [screen EXCEPT ![t] = n] /\ n = screen'[t]
    BY DEF Receive, IInv, TabsInv
  <2>2. n \in ScreenForms /\ ScreenInv(n)
    <3>1. CASE n = s
      BY <1>2, <3>1 DEF ScreenInv
    <3>2. CASE /\ a.status = "page"
               /\ n = [at |-> IF a.htmx THEN s.at ELSE a.at, shows |-> a.shows, rows |-> a.rows]
      <4>1. n \in ScreenForms /\ n.shows = a.shows /\ n.rows = a.rows
            /\ n.at = IF a.htmx THEN s.at ELSE a.at
        BY <1>2, <3>2 DEF ScreenForms
      <4>2. Given(n.at)
        BY <1>2, <4>1 DEF AnswerInv, ScreenInv
      <4> QED
        BY <1>2, <4>1, <4>2 DEF ScreenInv, AnswerInv
    <3>3. CASE n = [at |-> a.at, shows |-> "error", rows |-> {}]
      <4>1. "error" \in Shows /\ "error" \in Blank
        BY DEF Shows, Blank
      <4>2. n \in ScreenForms /\ n.at = a.at /\ n.shows = "error" /\ n.rows = {}
        BY <1>2, <3>3, <4>1 DEF ScreenForms
      <4>3. Given(n.at)
        BY <1>2, <4>2 DEF AnswerInv
      <4>4. SomeUser(n.shows) /\ Shown(n.shows, n.rows)
        BY <4>2 DEF SomeUser, Shown, Blank, ArticlePages, ClientPages
      <4> QED
        BY <4>2, <4>3, <4>4 DEF ScreenInv
    <3> QED
      BY <1>a, <1>s, <2>1, <3>1, <3>2, <3>3 DEF Receive, IInv, TabsInv
  <2> QED
    BY <2>1, <2>2 DEF IInv, TabsInv
<1>5. /\ \/ wire'[t] = Idle
         \/ RequestInv(wire'[t], screen'[t])
      /\ \A o \in Tabs \ {t} : wire'[o] = wire[o]
      /\ DOMAIN wire' = Tabs /\ wire' = [o \in Tabs |-> wire'[o]]
  <2>1. PICK n : wire' = [wire EXCEPT ![t] = n] /\ n = wire'[t]
    BY DEF Receive, IInv, TabsInv
  <2>2. n = Idle \/ (RequestInv(n, s) /\ a.status \in Redirects)
    <3>1. CASE n = Idle
      BY <3>1
    <3>2. ASSUME NEW ref \in Addresses, NEW htmx \in BOOLEAN, Given(ref),
                 htmx => Late(a.at, s),
                 a.status \in Redirects, Followed(n, a, a.at, ref, htmx)
          PROVE  RequestInv(n, s)
      <4>1. Given(n.at) /\ Given(n.ref) /\ n.at \in Addresses /\ (n.htmx => Late(n.at, s))
        BY <1>2, <3>2 DEF AnswerInv, Followed
      <4>2. Asked(n, s)
        BY <3>2, <4>1 DEF Asked, Followed
      <4>3. n.hops + PageRank(n.at.page) <= 3
        <5>1. PageRank(a.at.page) \in Nat
          BY RankStays DEF PageRank
        <5>2. a.hops + (1 + PageRank(a.at.page)) <= 3
          BY <1>2, <3>2 DEF AnswerInv
        <5> QED
          BY <1>2, <3>2, <5>1, <5>2 DEF Followed
      <4> QED
        BY <3>2, <4>1, <4>2, <4>3 DEF RequestInv, Followed
    <3>3. CASE /\ a.status = "redirect"
               /\ n = [Request(t, "get", a.at, a.ref, a.htmx)
                          EXCEPT !.user = session, !.hops = a.hops + 1]
      <4>1. Followed(n, a, a.at, a.ref, a.htmx)
        BY <1>2, <1>3, <3>3, FollowedForm
      <4> QED
        BY <1>2, <3>2, <3>3, <4>1 DEF AnswerInv, Redirects
    <3>4. CASE /\ a.status = "hx-redirect"
               /\ n = [Request(t, "get", a.at, s.at, FALSE)
                          EXCEPT !.user = session, !.hops = a.hops + 1]
      <4>1. PICK htmx \in BOOLEAN : htmx = FALSE
        OBVIOUS
      <4>2. Followed(n, a, a.at, s.at, htmx)
        BY <1>2, <1>3, <3>4, <4>1, FollowedForm
      <4> QED
        BY <1>2, <3>2, <3>4, <4>1, <4>2 DEF ScreenInv, Redirects
    <3> QED
      BY <1>a, <1>s, <2>1, <3>1, <3>3, <3>4 DEF Receive, IInv, TabsInv
  <2>3. a.status \in Redirects => screen'[t] = s
    BY <1>a, <1>s DEF Receive, IInv, TabsInv, Redirects
  <2> QED
    BY <2>1, <2>2, <2>3 DEF IInv, TabsInv
<1>6. \A o \in Tabs : ScreenInv(screen'[o]) /\ WireInv(wire'[o], screen'[o])
  BY <1>4, <1>5 DEF IInv, TabsInv, WireInv
<1>7. \A o \in Tabs : ScreenInv(screen[o])' /\ WireInv(wire[o], screen[o])'
  <2> SUFFICES ASSUME NEW o \in Tabs
               PROVE  ScreenInv(screen[o])' /\ WireInv(wire[o], screen[o])'
    OBVIOUS
  <2>1. PICK n, w : n = screen'[o] /\ w = wire'[o]
    OBVIOUS
  <2>2. ScreenInv(n)' /\ WireInv(w, n)'
    BY <1>1, <1>6, <2>1, ScreenStays, WireStays DEF IInv
  <2> QED
    BY <2>1, <2>2
<1>8. screen' \in [Tabs -> ScreenForms]
      /\ wire' \in [Tabs -> RequestForms \cup AnswerForms \cup {Idle}]
  BY <1>4, <1>5, <1>6 DEF ScreenInv, WireInv, RequestInv, AnswerInv
<1> QED
  BY <1>1, <1>3, <1>7, <1>8 DEF TabsInv, db

-----------------------------------------------------------------------------
(* What somebody was told.                                                 *)

ToldOk == ToldInv /\ NotFoundIsFinal

\* New rows have ids nobody was told of.
LEMMA ToldStays ==
    ASSUME DbInv, DbInv', Later, ToldOk, UNCHANGED told
    PROVE  ToldOk'
<1>1. last["articles"] \in Nat /\ last'["articles"] \in Nat
      /\ last["articles"] <= last'["articles"]
  BY DEF DbInv, Later
<1>2. \A p \in told : p[2] \in Nat /\ p[2] <= last["articles"]
  BY WebUiAssumption DEF ToldOk, ToldInv, Ids
<1>3. ToldInv'
  BY <1>1, <1>2 DEF ToldOk, ToldInv
<1>4. ASSUME NEW r \in articles' PROVE <<r.user, r.id>> \notin told'
  <2>1. r.id \in Nat
    BY WebUiAssumption DEF DbInv, Rows, Ids
  <2>2. CASE r \in articles
    BY <2>2 DEF ToldOk, NotFoundIsFinal
  <2>3. CASE r.id > last["articles"]
    <3>1. ASSUME <<r.user, r.id>> \in told PROVE FALSE
      <4>1. <<r.user, r.id>>[2] <= last["articles"]
        BY <1>2, <3>1
      <4> QED
        BY <1>1, <2>1, <2>3, <4>1
    <3> QED
      BY <3>1
  <2> QED
    BY <2>2, <2>3 DEF Later
<1> QED
  BY <1>3, <1>4 DEF ToldOk, NotFoundIsFinal

LEMMA TellsStep ==
    ASSUME IInv, NEW t \in Tabs, ArticlePage(t) \/ DoUpdate(t)
    PROVE  ToldOk'
<1> DEFINE q == wire[t]
<1>1. /\ RequestInv(q, screen[t]) /\ ScreenInv(screen[t]) /\ UNCHANGED db
      /\ q.user \in users \cup {None}
  BY OnTheWire DEF IInv, ArticlePage, DoUpdate, Gets, Asks, RequestInv
<1>2. DbInv' /\ Later
  BY <1>1, SameDb DEF IInv
<1>3. ToldOk
  BY DEF IInv, ToldOk
<1>4. CASE UNCHANGED told
  BY <1>2, <1>3, <1>4, ToldStays DEF IInv
<1>5. CASE told' = told \cup {<<q.user, q.at.id>>} /\ Missing(q)
  <2>1. q.at.id \in Ids /\ q.at.id <= last["articles"]
    <3>1. CASE ArticlePage(t)
      <4>1. q.at.page = "article" /\ q.at \in Addresses
        BY <1>1, <3>1 DEF ArticlePage, Gets, Asks, RequestInv, Asked
      <4> QED
        BY <1>1, <4>1, AddressForms DEF RequestInv, Given
    <3>2. CASE DoUpdate(t)
      <4>1. PICK r \in screen[t].rows : q.at = ArticleAt(r.id)
        BY <1>1, <3>2 DEF DoUpdate, Asks, RequestInv, Asked
      <4>2. r.id \in Ids
        BY <1>1 DEF ScreenInv, ScreenForms, Rows
      <4>3. q.at.page = "article" /\ q.at.id = r.id
        BY <4>1, <4>2, AddressForms
      <4> QED
        BY <1>1, <4>2, <4>3 DEF RequestInv, Given
    <3> QED
      BY <3>1, <3>2
  <2>2. q.user \in Users
    BY <1>1, <1>5 DEF Missing, IInv, DbInv
  <2>3. UNCHANGED <<articles, last>>
    BY <1>1 DEF db
  <2>4. ToldInv'
    BY <1>3, <1>5, <2>1, <2>2, <2>3 DEF ToldOk, ToldInv
  <2>5. ASSUME NEW r \in articles PROVE <<r.user, r.id>> # <<q.user, q.at.id>>
    BY <1>5 DEF Missing, Match
  <2>6. NotFoundIsFinal'
    BY <1>3, <1>5, <2>3, <2>5 DEF ToldOk, NotFoundIsFinal
  <2> QED
    BY <2>4, <2>6 DEF ToldOk
<1> QED
  BY <1>4, <1>5 DEF ArticlePage, DoUpdate, Tells

-----------------------------------------------------------------------------
(* The invariant holds.                                                    *)

LEMMA InitInv == Init => IInv
<1> SUFFICES ASSUME Init PROVE IInv
  OBVIOUS
<1>1. At("root") \in Addresses /\ Given(At("root"))
  BY AddressForms DEF Given
<1>2. DbInv
  BY WebUiAssumption DEF Init, DbInv
<1>3. ToldInv /\ NotFoundIsFinal
  BY DEF Init, ToldInv, NotFoundIsFinal
<1>4. ASSUME NEW t \in Tabs
      PROVE  ScreenInv(screen[t]) /\ screen[t] \in ScreenForms /\ wire[t] = Idle
  <2>1. "nothing" \in Shows /\ "nothing" \in Blank
    BY DEF Shows, Blank
  <2>2. PICK s : s = screen[t]
    OBVIOUS
  <2>3. s.at = At("root") /\ s.shows = "nothing" /\ s.rows = {} /\ s \in ScreenForms
    BY <1>1, <2>1, <2>2 DEF Init, ScreenForms
  <2>4. Shown(s.shows, s.rows) /\ SomeUser(s.shows)
    BY <2>3 DEF Shown, SomeUser, Blank, ArticlePages, ClientPages
  <2> QED
    BY <1>1, <2>2, <2>3, <2>4 DEF ScreenInv, Init
<1>5. TabsInv
  BY <1>4 DEF TabsInv, Init, WireInv
<1> QED
  BY <1>2, <1>3, <1>5 DEF IInv

LEMMA HandleStep ==
    ASSUME IInv, NEW t \in Tabs, Handle(t)
    PROVE  IInv'
<1>1. CASE LoginPage(t) \/ SetupPage(t)
  BY <1>1, LoginStep, SameDb, ToldStays DEF IInv, ToldOk, LoginPage, SetupPage
<1>2. CASE ListPage(t) \/ ClientsPage(t) \/ DeveloperPage(t)
  BY <1>2, ListStep, SameDb, ToldStays DEF IInv, ToldOk, ListPage, ClientsPage, DeveloperPage
<1>3. CASE ArticlePage(t) \/ DoUpdate(t)
  BY <1>3, ArticleStep, SameDb, TellsStep DEF IInv, ToldOk, ArticlePage, DoUpdate
<1>4. CASE DoLogin(t) \/ Logout(t)
  BY <1>4, SessionStep, SameDb, ToldStays DEF IInv, ToldOk, DoLogin, Logout
<1>5. CASE \/ DoAdd(t) \/ DoCreateClient(t) \/ PostClientCreate(t)
           \/ DoClientDelete(t) \/ DoDelete(t)
  <2>1. DbInv' /\ Later /\ TabsInv'
    BY <1>5, WriteDb, WriteStep
  <2>2. UNCHANGED told
    BY <1>5 DEF DoAdd, DoCreateClient, PostClientCreate, DoClientDelete, DoDelete
  <2> QED
    BY <2>1, <2>2, ToldStays DEF IInv, ToldOk
<1>6. CASE DoSetup(t)
  <2>1. DbInv' /\ Later /\ TabsInv'
    BY <1>6, SetupDb, SetupStep
  <2> QED
    BY <1>6, <2>1, ToldStays DEF IInv, ToldOk, DoSetup
<1> QED
  BY <1>1, <1>2, <1>3, <1>4, <1>5, <1>6 DEF Handle

LEMMA NextInv == IInv /\ [Next]_vars => IInv'
<1> SUFFICES ASSUME IInv, [Next]_vars PROVE IInv'
  OBVIOUS
<1>1. ASSUME NEW t \in Tabs, Browse(t) PROVE IInv'
  <2>1. UNCHANGED <<db, told>>
    BY <1>1 DEF Browse, Open, Follow, SubmitClientDelete, SubmitForArticle, SubmitSetup,
                SubmitLogin, SubmitLogout, SubmitAdd, SubmitClient, Sends
  <2> QED
    BY <1>1, <2>1, BrowseStep, SameDb, ToldStays DEF IInv, ToldOk
<1>2. ASSUME NEW t \in Tabs, Handle(t) PROVE IInv'
  BY <1>2, HandleStep
<1>3. ASSUME NEW t \in Tabs, Receive(t) PROVE IInv'
  <2>1. UNCHANGED <<db, told>>
    BY <1>3 DEF Receive
  <2> QED
    BY <1>3, <2>1, ReceiveStep, SameDb, ToldStays DEF IInv, ToldOk
<1>4. ASSUME NEW u \in Users, CreateUser(u) PROVE IInv'
  <2>1. DbInv' /\ Later
    BY <1>4, CreatedUser DEF CreateUser, IInv
  <2>2. UNCHANGED <<cookie, screen, wire, told>>
    BY <1>4 DEF CreateUser
  <2> QED
    BY <2>1, <2>2, TabsStep, ToldStays DEF IInv, ToldOk
<1>5. ASSUME NEW u \in Users, CreateClient(u) PROVE IInv'
  <2>1. DbInv' /\ Later
    BY <1>5, InsertedClient DEF CreateClient, IInv
  <2>2. UNCHANGED <<cookie, screen, wire, told>>
    BY <1>5 DEF CreateClient
  <2> QED
    BY <2>1, <2>2, TabsStep, ToldStays DEF IInv, ToldOk
<1>6. CASE UNCHANGED vars
  <2>1. UNCHANGED db /\ UNCHANGED <<cookie, screen, wire, told>>
    BY <1>6 DEF vars, db
  <2> QED
    BY <2>1, SameDb, TabsStep, ToldStays DEF IInv, ToldOk
<1> QED
  BY <1>1, <1>2, <1>3, <1>4, <1>5, <1>6 DEF Next

LEMMA IInvAlways == Spec => []IInv
  BY InitInv, NextInv, PTL DEF Spec

-----------------------------------------------------------------------------
(* The theorems.                                                           *)

\* Every row is of a user there is and the cookie names one or nobody, in every
\* order of requests, answers and other tabs' writes (server/src/web).
THEOREM TypeCorrect == Spec => []TypeOK
<1>1. IInv => TypeOK
  <2> SUFFICES ASSUME IInv PROVE TypeOK
    OBVIOUS
  <2>1. ASSUME NEW t \in Tabs
        PROVE  /\ screen[t].at \in Addresses /\ screen[t].rows \subseteq Rows
               /\ wire[t].kind \in {"idle", "request", "answer"}
    <3>1. ScreenInv(screen[t])
      BY <2>1, OnTheWire DEF IInv
    <3>2. wire[t] \in RequestForms \cup AnswerForms \cup {Idle}
      BY DEF IInv, TabsInv
    <3> QED
      BY <3>1, <3>2, WireForms DEF ScreenInv, ScreenForms
  <2>2. \A r \in articles \cup clients : r.user \in users
    BY DEF IInv, DbInv
  <2> QED
    BY <2>1, <2>2 DEF IInv, DbInv, ToldInv, TabsInv, TypeOK
<1> QED
  BY <1>1, IInvAlways, PTL

\* Who was told that an article does not exist is never contradicted, because the
\* ids of deleted rows are not given out again (ui.rs:108-140, 622-652).
THEOREM NotFoundStaysFinal == Spec => []NotFoundIsFinal
<1>1. IInv => NotFoundIsFinal
  BY DEF IInv
<1> QED
  BY <1>1, IInvAlways, PTL

\* The login page is never swapped into a page for users, because what htmx asks
\* for there without a session is answered with HX-Redirect; only the page at
\* /setup may come to hold it (session_user.rs:16-42, setup.rs:39-43, 71-75).
THEOREM LoginStaysOutsidePages == Spec => []LoginOutsidePages
<1>1. IInv => LoginOutsidePages
  BY OnTheWire DEF IInv, ScreenInv, LoginOutsidePages
<1> QED
  BY <1>1, IInvAlways, PTL

\* At most three redirects follow whatever is clicked: while there are no users the
\* way leads over the login page to the setup page, and back to the login page only
\* once a user has come to exist (ui.rs:68-81, setup.rs:22-35).
THEOREM RedirectsAreFew == Spec => []RedirectsEnd
<1>1. IInv => RedirectsEnd
  <2> SUFFICES ASSUME IInv, NEW t \in Tabs, wire[t] # Idle PROVE wire[t].hops <= 3
    BY DEF RedirectsEnd
  <2>1. CASE RequestInv(wire[t], screen[t])
    <3>1. wire[t].hops \in Nat /\ PageRank(wire[t].at.page) \in Nat
      BY <2>1 DEF RequestInv, RequestForms, PageRank
    <3> QED
      BY <2>1, <3>1 DEF RequestInv
  <2>2. CASE AnswerInv(wire[t], screen[t])
    <3>1. wire[t].hops \in Nat /\ PageRank(wire[t].at.page) \in Nat
      BY <2>2 DEF AnswerInv, AnswerForms, PageRank
    <3> QED
      BY <2>2, <3>1 DEF AnswerInv
  <2> QED
    BY <2>1, <2>2 DEF IInv, TabsInv, WireInv
<1> QED
  BY <1>1, IInvAlways, PTL

\* A row goes only because its owner posted the form of the very row the page
\* showed, whatever happened since the page was rendered (clients.rs:31-46,
\* entries.rs:475-490).
THEOREM OnlyWhatWasShownGoes == Spec => DeletesWhatItShowed
<1> DEFINE Asker(r) == \E t \in Tabs : /\ wire[t].kind = "request" /\ wire[t].user = r.user
                                       /\ r \in screen[t].rows /\ wire[t].at.id = r.id
<1>1. ASSUME IInv, NEW t \in Tabs, DoDelete(t), NEW r \in articles \ articles'
      PROVE  Asker(r)
  <2> DEFINE q == wire[t]
  <2>1. q.kind = "request" /\ q.verb = "delete" /\ r.user = q.user /\ r.id = q.at.id
    BY <1>1 DEF DoDelete, Asks, Match
  <2>2. RequestInv(q, screen[t]) /\ ScreenInv(screen[t])
    BY <1>1, <2>1, OnTheWire DEF IInv
  <2>3. PICK s \in screen[t].rows : q.at = ArticleAt(s.id)
    BY <2>1, <2>2 DEF RequestInv, Asked
  <2>4. s.id \in Ids /\ Past(articles, last["articles"], s)
    BY <2>1, <2>2 DEF ScreenInv, ScreenForms, Shown, Rows, RequestInv, Asked
  <2>5. r.id = s.id
    BY <2>1, <2>3, <2>4, AddressForms
  <2> QED
    BY <2>1, <2>4, <2>5 DEF Past
<1>2. ASSUME IInv, NEW t \in Tabs, DoClientDelete(t), NEW r \in clients \ clients'
      PROVE  Asker(r)
  <2> DEFINE q == wire[t]
  <2>1. q.kind = "request" /\ q.verb = "delete_client" /\ r.user = q.user /\ r.id = q.at.id
    BY <1>2 DEF DoClientDelete, DeleteClientRow, Asks, Match
  <2>2. RequestInv(q, screen[t]) /\ ScreenInv(screen[t])
    BY <1>2, <2>1, OnTheWire DEF IInv
  <2>3. PICK s \in screen[t].rows : q.at = ClientAt(s.id)
    BY <2>1, <2>2 DEF RequestInv, Asked
  <2>4. s.id \in Ids /\ Past(clients, last["clients"], s)
    BY <2>1, <2>2 DEF ScreenInv, ScreenForms, Shown, Rows, RequestInv, Asked, ClientPages
  <2>5. r.id = s.id
    BY <2>1, <2>3, <2>4, AddressForms
  <2> QED
    BY <2>1, <2>4, <2>5 DEF Past
<1>3. ASSUME IInv, [Next]_vars,
             NEW r \in (clients \ clients') \cup (articles \ articles')
      PROVE  Asker(r)
  <2>1. CASE UNCHANGED <<articles, clients>>
    BY <1>3, <2>1
  <2>2. ASSUME NEW t \in Tabs, Browse(t) PROVE UNCHANGED <<articles, clients>>
    BY <2>2 DEF Browse, Open, Follow, SubmitClientDelete, SubmitForArticle, SubmitSetup,
                SubmitLogin, SubmitLogout, SubmitAdd, SubmitClient, Sends, db
  <2>3. ASSUME NEW t \in Tabs, Handle(t) PROVE Asker(r)
    <3>1. CASE DoDelete(t)
      BY <1>1, <1>3, <3>1 DEF DoDelete
    <3>2. CASE DoClientDelete(t)
      BY <1>2, <1>3, <3>2 DEF DoClientDelete
    <3>3. CASE DoAdd(t)
      BY <1>3, <3>3 DEF DoAdd, db
    <3>4. CASE DoCreateClient(t) \/ PostClientCreate(t)
      BY <1>3, <3>4 DEF DoCreateClient, PostClientCreate, InsertClient, db
    <3>5. CASE \/ LoginPage(t) \/ SetupPage(t) \/ ListPage(t) \/ ClientsPage(t)
               \/ DeveloperPage(t) \/ ArticlePage(t) \/ DoSetup(t) \/ DoLogin(t)
               \/ Logout(t) \/ DoUpdate(t)
      BY <2>1, <3>5 DEF LoginPage, SetupPage, ListPage, ClientsPage, DeveloperPage,
                        ArticlePage, DoSetup, DoLogin, Logout, DoUpdate, db
    <3> QED
      BY <2>3, <3>1, <3>2, <3>3, <3>4, <3>5 DEF Handle
  <2>4. ASSUME NEW t \in Tabs, Receive(t) PROVE UNCHANGED <<articles, clients>>
    BY <2>4 DEF Receive, db
  <2>5. ASSUME NEW u \in Users, CreateUser(u) \/ CreateClient(u)
        PROVE  articles \subseteq articles' /\ clients \subseteq clients'
    BY <2>5 DEF CreateUser, CreateClient, InsertClient
  <2>6. CASE UNCHANGED vars
    BY <2>1, <2>6 DEF vars
  <2> QED
    BY <1>3, <2>1, <2>2, <2>3, <2>4, <2>5, <2>6 DEF Next
<1>4. IInv /\ [Next]_vars =>
        [\A r \in (clients \ clients') \cup (articles \ articles') : Asker(r)]_vars
  BY <1>3
<1> QED
  BY <1>4, IInvAlways, PTL DEF Spec, DeletesWhatItShowed
=============================================================================
