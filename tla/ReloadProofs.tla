---------------------------- MODULE ReloadProofs ----------------------------
(***************************************************************************)
(* The reload of articles for any number of articles, accounts, requests   *)
(* and runs of the command line.  What carries the proofs is FreshInv: the *)
(* snapshot a run reads from is what is committed, for as long as the run  *)
(* holds the write lock or may still take it; so the draft differs from    *)
(* the committed articles in the texts the run has fetched and in nothing  *)
(* else (DraftInv), whatever the server commits in between.                *)
(***************************************************************************)
EXTENDS Reload, FiniteSetTheorems, TLAPS

-----------------------------------------------------------------------------
(* Articles and texts.                                                     *)

Tables == [Articles -> Row \cup {None, Gone}]

\* The columns a page determines.
WithText(row, text) == [row EXCEPT !.text = text]

LEMMA TextFields ==
    ASSUME NEW row \in Row, NEW text \in Texts
    PROVE  /\ WithText(row, text) \in Row
           /\ WithText(row, text).owner = row.owner
           /\ WithText(WithText(row, text), text) = WithText(row, text)
  BY DEF WithText, Row

LEMMA LiveRows ==
    ASSUME NEW table \in Tables, NEW a \in Articles
    PROVE  Live(table, a) <=> table[a] \in Row
  BY RowsAssumption DEF Live, Tables

Fetched(a) == Extract(web[a], "none").document

\* A scrape that succeeds finds what is on the web: there is one page behind an
\* address, and a fault gives no document.
LEMMA Scrapes ==
    ASSUME web \in Webs, NEW a \in Articles, NEW fault \in Faults,
           Extract(web[a], fault).error = None
    PROVE  /\ Extract(web[a], fault).document = Fetched(a)
           /\ Fetched(a) \in Texts /\ Fetched(a) # None
<1>1. fault = "none"
  BY NamesAssumption DEF Extract, Failed, Errors, Faults
<1>2. Fetched(a) = ExtractOrFallback(web[a], "none")
  BY <1>1 DEF Fetched, ExtractOrFallback
<1>3. Fetched(a) \in Texts
  BY <1>2 DEF Texts, Faults
<1> QED
  BY <1>1, <1>3, RowsAssumption DEF Fetched

LEMMA AddedTexts ==
    ASSUME web \in Webs, NEW a \in Articles
    PROVE  Added(a) \subseteq Texts
  BY DEF Added, Texts

-----------------------------------------------------------------------------
(* The invariant.                                                          *)

\* An article of the account that the SELECT of run r saw.
Listed(r, a) == Live(found[r], a) /\ found[r][a].owner = job[r]

\* What a run has in hand.
RunInv(r) ==
    /\ pc[r] \in {"idle", "read", "scrape", "update"}
    /\ pc[r] # "idle" => job[r] \in Users
    /\ pc[r] \in {"scrape", "update"} =>
           found[r] \in Tables /\ \A a \in todo[r] : Listed(r, a)
    /\ pc[r] = "update" =>
           \E a \in Articles : /\ page[r] = <<a, Fetched(a)>> /\ Listed(r, a)
                               /\ Fetched(a) \in Texts /\ Fetched(a) # None

\* The snapshot of a run that may write, or has written, is what is committed.
FreshInv(r) ==
    /\ lock = r => pc[r] \in {"scrape", "update"}
    /\ pc[r] \in {"scrape", "update"} /\ (lock = r \/ r \notin stale) => found[r] = rows

\* A row as run r may leave it: with the text of its page if it is of the account.
Renewed(r, row, new, a) ==
    \/ new = row
    \/ /\ row \in Row /\ row.owner = job[r] /\ Fetched(a) \in Texts /\ Fetched(a) # None
       /\ new = WithText(row, Fetched(a))

DraftInv(r) ==
    lock = r => draft \in Tables /\ \A a \in Articles : Renewed(r, rows[a], draft[a], a)

RequestInv(q) ==
    /\ pc[q] \in {"idle", "find", "upgrade", "write"}
    /\ pc[q] # "idle" => job[q] \in Jobs

TypeInv == TypeOK /\ (lock = None => draft = None)

IInv ==
    /\ TypeInv
    /\ \A r \in Reloads : RunInv(r) /\ FreshInv(r) /\ DraftInv(r)
    /\ \A q \in Requests : RequestInv(q)

\* Requests and runs are not the same.
LEMMA Actors ==
    /\ None \notin Requests \cup Reloads
    /\ \A q \in Requests, r \in Reloads : q # r
  BY DistinctAssumption

LEMMA InitInv == Init => IInv
<1> SUFFICES ASSUME Init PROVE IInv
  OBVIOUS
<1>1. rows \in Tables
  <2>1. [owner : Users, marked : {FALSE}, text : UNION {Added(a) : a \in Articles}] \subseteq Row
    BY AddedTexts DEF Init, Row
  <2> QED
    BY <2>1 DEF Init, Tables
<1>2. TypeInv
  BY <1>1 DEF Init, TypeInv, TypeOK, Tables
<1>3. ASSUME NEW p \in Requests \cup Reloads PROVE pc[p] = "idle" /\ lock # p
  BY Actors DEF Init
<1> QED
  BY <1>2, <1>3 DEF IInv, RunInv, FreshInv, DraftInv, RequestInv

\* A run that a step is not about, and does not commit beside.
LEMMA OtherRun ==
    ASSUME NEW r \in Reloads, RunInv(r), FreshInv(r), DraftInv(r),
           web' = web, pc'[r] = pc[r], job'[r] = job[r], todo'[r] = todo[r],
           page'[r] = page[r], found'[r] = found[r],
           lock' = r <=> lock = r, lock = r => draft' = draft /\ rows' = rows,
           r \in stale => r \in stale',
           rows' = rows \/ (pc[r] \in {"scrape", "update"} => r \in stale')
    PROVE  RunInv(r)' /\ FreshInv(r)' /\ DraftInv(r)'
<1>1. \A a : Fetched(a)' = Fetched(a) /\ Listed(r, a)' = Listed(r, a)
  BY DEF Fetched, Listed
<1>2. RunInv(r)'
  BY <1>1 DEF RunInv
<1>3. FreshInv(r)'
  BY DEF FreshInv
<1>4. DraftInv(r)'
  BY <1>1 DEF DraftInv, Renewed
<1> QED
  BY <1>2, <1>3, <1>4

LEMMA OtherRequest ==
    ASSUME NEW q \in Requests, RequestInv(q), pc'[q] = pc[q], job'[q] = job[q]
    PROVE  RequestInv(q)'
  BY DEF RequestInv

-----------------------------------------------------------------------------
(* The steps of requests.                                                  *)

\* What a request writes is a row, or none.
LEMMA WrittenRow ==
    ASSUME IInv, NEW q \in Requests, pc[q] \in {"write", "upgrade"},
           NEW j, j = job[q], NEW a, a = j.article, NEW new, new = Written(rows, j)
    PROVE  /\ a \in Articles /\ j \in Jobs
           /\ \/ new = rows[a]
              \/ rows[a] = None /\ new \in Row
              \/ rows[a] \in Row /\ new \in Row /\ new.owner = rows[a].owner
              \/ rows[a] \in Row /\ new = Gone
<1>1. j \in Jobs /\ rows \in Tables
  BY DEF IInv, RequestInv, TypeInv, TypeOK, Tables
<1>2. a \in Articles /\ j.ask \in {"add", "mark", "delete"} /\ (j.ask = "add" => j.row \in Row)
  BY <1>1 DEF Jobs
<1>3. CASE j.ask = "add" /\ rows[a] = None
  <2>1. new = j.row
    BY <1>3 DEF Written
  <2> QED
    BY <1>1, <1>2, <1>3, <2>1
<1>4. CASE j.ask = "mark" /\ Live(rows, a)
  <2>1. new = [rows[a] EXCEPT !.marked = TRUE]
    BY <1>4 DEF Written
  <2>2. rows[a] \in Row
    BY <1>1, <1>2, <1>4, LiveRows
  <2>3. new \in Row /\ new.owner = rows[a].owner
    BY <2>1, <2>2 DEF Row
  <2> QED
    BY <1>1, <1>2, <2>2, <2>3
<1>5. CASE j.ask = "delete" /\ Live(rows, a)
  <2>1. new = Gone
    BY <1>5 DEF Written
  <2> QED
    BY <1>1, <1>2, <1>5, <2>1, LiveRows
<1>6. CASE ~ (j.ask = "add" /\ rows[a] = None) /\ ~ (j.ask = "mark" /\ Live(rows, a))
           /\ ~ (j.ask = "delete" /\ Live(rows, a))
  <2>1. new = rows[a]
    BY <1>6 DEF Written
  <2> QED
    BY <1>1, <1>2, <2>1
<1> QED
  BY <1>3, <1>4, <1>5, <1>6

\* What a request writes: one article, and nothing while a run holds the lock.
LEMMA WriteRows ==
    ASSUME IInv, NEW q \in Requests, Write(q)
    PROVE  /\ lock = None
           /\ \E a \in Articles, new \in Row \cup {None, Gone} :
                 /\ rows' = [rows EXCEPT ![a] = new]
                 /\ \/ new = rows[a]
                    \/ rows[a] = None /\ new \in Row
                    \/ rows[a] \in Row /\ new \in Row /\ new.owner = rows[a].owner
                    \/ rows[a] \in Row /\ new = Gone
<1>1. PICK j : j = job[q]
  OBVIOUS
<1>2. PICK new : new = Written(rows, j)
  OBVIOUS
<1>3. /\ pc[q] \in {"write", "upgrade"} /\ lock = None
      /\ rows' = [rows EXCEPT ![j.article] = new]
  BY <1>1, <1>2 DEF Write
<1>4. /\ j.article \in Articles
      /\ \/ new = rows[j.article]
         \/ rows[j.article] = None /\ new \in Row
         \/ /\ rows[j.article] \in Row /\ new \in Row
            /\ new.owner = rows[j.article].owner
         \/ rows[j.article] \in Row /\ new = Gone
  BY <1>1, <1>2, <1>3, WrittenRow
<1>5. new \in Row \cup {None, Gone}
  BY <1>4 DEF IInv, TypeInv, TypeOK
<1> QED
  BY <1>3, <1>4, <1>5

\* A step of a request: runs only see that the articles have changed.
LEMMA RequestStep ==
    ASSUME IInv, NEW q \in Requests, NEW p \in {"idle", "find", "upgrade", "write"}, NEW j,
           p # "idle" => j \in Jobs, j \in Jobs \cup {None},
           pc' = [pc EXCEPT ![q] = p], job' = [job EXCEPT ![q] = j],
           rows' \in Tables, UNCHANGED <<web, draft, lock, todo, page, found>>,
           stale' \subseteq Requests \cup Reloads, stale \ {q} \subseteq stale',
           \/ rows' = rows
           \/ lock = None /\ Readers \ {q} \subseteq stale'
    PROVE  IInv'
<1>1. TypeInv'
  BY DEF IInv, TypeInv, TypeOK, Tables
<1>2. ASSUME NEW r \in Reloads PROVE RunInv(r)' /\ FreshInv(r)' /\ DraftInv(r)'
  <2>1. pc'[r] = pc[r] /\ job'[r] = job[r] /\ r # q
    BY Actors DEF IInv, TypeInv, TypeOK
  <2>2. lock # r /\ pc[r] \in {"scrape", "update"} => r \in Readers
    BY DEF Readers
  <2>3. lock = None => lock # r
    BY Actors
  <2> QED
    BY <2>1, <2>2, <2>3, OtherRun DEF IInv
<1>3. ASSUME NEW s \in Requests PROVE RequestInv(s)'
  <2>1. CASE s = q
    BY <2>1 DEF IInv, TypeInv, TypeOK, RequestInv
  <2>2. CASE s # q
    BY <2>2, OtherRequest DEF IInv, TypeInv, TypeOK
  <2> QED
    BY <2>1, <2>2
<1> QED
  BY <1>1, <1>2, <1>3 DEF IInv

LEMMA RequestsInv ==
    ASSUME IInv, NEW q \in Requests,
           Handle(q) \/ \E a \in Articles : \E j \in Asked(a) : Start(q, j)
    PROVE  IInv'
<1>1. /\ rows \in Tables /\ stale \subseteq Requests \cup Reloads /\ web \in Webs
      /\ Readers \subseteq Requests \cup Reloads /\ job[q] \in Jobs \cup Users \cup {None}
  BY DEF IInv, TypeInv, TypeOK, Tables, Readers
<1>2. ASSUME NEW a \in Articles, NEW j \in Asked(a), Start(q, j) PROVE IInv'
  <2>1. j \in Jobs
    <3>1. [owner : Users, marked : {FALSE}, text : Added(a)] \subseteq Row
      BY <1>1, AddedTexts DEF Row
    <3>2. CASE Live(rows, a)
      <4>1. PICK ask \in {"mark", "delete"}, how \in {"direct", "after_read"} :
               j = [ask |-> ask, how |-> how, article |-> a]
        BY <3>2 DEF Asked
      <4> QED
        BY <4>1 DEF Jobs
    <3>3. CASE ~ Live(rows, a)
      <4> DEFINE New == [owner : Users, marked : {FALSE}, text : Added(a)]
      <4>1. Asked(a) = IF rows[a] = None
                       THEN {[ask |-> "add", how |-> "direct", article |-> a, row |-> row] :
                               row \in New}
                       ELSE {}
        BY <3>3 DEF Asked
      <4> HIDE DEF New
      <4>2. PICK row \in New : j = [ask |-> "add", how |-> "direct", article |-> a, row |-> row]
        BY <4>1
      <4>3. row \in Row
        BY <3>1 DEF New
      <4> QED
        BY <4>2, <4>3 DEF Jobs
    <3> QED
      BY <3>2, <3>3
  <2>2. PICK p : p = IF j.how = "direct" THEN "write" ELSE "find"
    OBVIOUS
  <2>3. pc' = [pc EXCEPT ![q] = p] /\ job' = [job EXCEPT ![q] = j]
        /\ UNCHANGED <<web, rows, draft, lock, stale, todo, page, found>>
    BY <1>2, <2>2 DEF Start, Goto
  <2> QED
    BY <1>1, <2>1, <2>2, <2>3, RequestStep
<1>3. CASE Find(q)
  <2>1. PICK j : j = job[q]
    OBVIOUS
  <2>2. j \in Jobs
    BY <1>3, <2>1 DEF Find, IInv, RequestInv
  <2>3. /\ pc' = [pc EXCEPT ![q] = "upgrade"] /\ job' = [job EXCEPT ![q] = j]
        /\ UNCHANGED <<web, rows, draft, lock, stale, todo, page, found>>
    BY <1>3, <2>1 DEF Find, Goto, IInv, TypeInv, TypeOK
  <2> QED
    BY <1>1, <2>2, <2>3, RequestStep
<1>4. CASE Write(q)
  <2>1. lock = None /\ rows' \in Tables
    BY <1>1, <1>4, WriteRows DEF Tables
  <2>2. /\ pc' = [pc EXCEPT ![q] = "idle"] /\ job' = [job EXCEPT ![q] = None]
        /\ UNCHANGED <<web, draft, lock, todo, page, found>>
        /\ stale' = (IF rows' = rows THEN stale ELSE stale \cup Readers) \ {q}
    BY <1>4 DEF Write, EndRequest, Goto
  <2> QED
    BY <1>1, <2>1, <2>2, RequestStep
<1>5. CASE WriteFails(q)
  <2>1. /\ pc' = [pc EXCEPT ![q] = "idle"] /\ job' = [job EXCEPT ![q] = None]
        /\ UNCHANGED <<web, rows, draft, lock, todo, page, found>> /\ stale' = stale \ {q}
    BY <1>5 DEF WriteFails, EndRequest, Goto
  <2> QED
    BY <1>1, <2>1, RequestStep
<1> QED
  BY <1>2, <1>3, <1>4, <1>5 DEF Handle

-----------------------------------------------------------------------------
(* The steps of runs.                                                      *)

\* A step of a run that goes on: it commits nothing.
LEMMA RunStep ==
    ASSUME IInv, NEW r \in Reloads, TypeInv',
           UNCHANGED <<web, rows, stale>>,
           \A s \in Requests \cup Reloads : s # r => pc'[s] = pc[s] /\ job'[s] = job[s],
           \A s \in Reloads : s # r => /\ todo'[s] = todo[s] /\ page'[s] = page[s]
                                       /\ found'[s] = found[s],
           lock' = lock \/ (lock = None /\ lock' = r), lock' = r \/ draft' = draft,
           RunInv(r)', FreshInv(r)', DraftInv(r)'
    PROVE  IInv'
<1>1. ASSUME NEW s \in Reloads, s # r PROVE RunInv(s)' /\ FreshInv(s)' /\ DraftInv(s)'
  <2>1. (lock' = s <=> lock = s) /\ (lock = s => draft' = draft)
    BY <1>1, Actors
  <2> QED
    BY <1>1, <2>1, OtherRun DEF IInv
<1>2. ASSUME NEW s \in Requests PROVE RequestInv(s)'
  BY <1>2, Actors, OtherRequest DEF IInv
<1> QED
  BY <1>1, <1>2 DEF IInv

\* A run that ends, with or without a commit.
LEMMA EndStep ==
    ASSUME IInv, NEW r \in Reloads, EndReload(r), rows' \in Tables,
           stale' = (IF rows' = rows THEN stale ELSE stale \cup Readers) \ {r},
           rows' = rows \/ lock = r
    PROVE  IInv'
<1>1. /\ pc' = [pc EXCEPT ![r] = "idle"] /\ job' = [job EXCEPT ![r] = None]
      /\ todo' = [todo EXCEPT ![r] = {}] /\ page' = [page EXCEPT ![r] = None]
      /\ found' = [found EXCEPT ![r] = None]
      /\ lock' = IF lock = r THEN None ELSE lock
      /\ draft' = IF lock = r THEN None ELSE draft
      /\ web' = web
  BY DEF EndReload, Goto
<1>2. TypeInv'
  BY <1>1 DEF IInv, TypeInv, TypeOK, Tables, Readers
<1>3. ASSUME NEW s \in Reloads, s # r PROVE RunInv(s)' /\ FreshInv(s)' /\ DraftInv(s)'
  <2>1. /\ pc'[s] = pc[s] /\ job'[s] = job[s] /\ todo'[s] = todo[s] /\ page'[s] = page[s]
        /\ found'[s] = found[s]
    BY <1>1, <1>3 DEF IInv, TypeInv, TypeOK
  <2>2. /\ lock' = s <=> lock = s
        /\ lock = s => draft' = draft /\ rows' = rows
    BY <1>1, <1>3, Actors
  <2>3. s \in stale => s \in stale'
    BY <1>3
  <2>4. rows' # rows /\ pc[s] \in {"scrape", "update"} => s \in stale'
    BY <1>3 DEF Readers
  <2> QED
    BY <1>1, <2>1, <2>2, <2>3, <2>4, OtherRun DEF IInv
<1>4. RunInv(r)' /\ FreshInv(r)' /\ DraftInv(r)'
  <2>1. pc'[r] = "idle" /\ lock' # r
    BY <1>1, Actors DEF IInv, TypeInv, TypeOK
  <2> QED
    BY <2>1 DEF RunInv, FreshInv, DraftInv
<1>5. ASSUME NEW s \in Requests PROVE RequestInv(s)'
  <2>1. pc'[s] = pc[s] /\ job'[s] = job[s]
    BY <1>1, Actors DEF IInv, TypeInv, TypeOK
  <2> QED
    BY <2>1, OtherRequest DEF IInv
<1> QED
  BY <1>2, <1>3, <1>4, <1>5 DEF IInv

LEMMA BeginInv ==
    ASSUME IInv, NEW r \in Reloads, NEW u \in Users, Begin(r, u)
    PROVE  IInv'
<1>1. /\ pc[r] = "idle" /\ pc' = [pc EXCEPT ![r] = "read"] /\ job' = [job EXCEPT ![r] = u]
      /\ UNCHANGED <<web, rows, draft, lock, stale, todo, page, found>>
  BY DEF Begin, Goto
<1>2. TypeInv'
  BY <1>1 DEF IInv, TypeInv, TypeOK
<1>3. \A s \in Requests \cup Reloads : s # r => pc'[s] = pc[s] /\ job'[s] = job[s]
  BY <1>1 DEF IInv, TypeInv, TypeOK
<1>4. RunInv(r)' /\ FreshInv(r)' /\ DraftInv(r)'
  <2>1. pc'[r] = "read" /\ job'[r] = u /\ lock # r
    BY <1>1 DEF IInv, TypeInv, TypeOK, FreshInv
  <2> QED
    BY <1>1, <2>1 DEF RunInv, FreshInv, DraftInv
<1> QED
  BY <1>1, <1>2, <1>3, <1>4, RunStep

LEMMA ReadArticlesInv ==
    ASSUME IInv, NEW r \in Reloads, ReadArticles(r)
    PROVE  IInv'
<1>1. PICK list : list = {a \in Articles : Live(rows, a) /\ rows[a].owner = job[r]}
  OBVIOUS
<1>2. /\ pc[r] = "read" /\ pc' = [pc EXCEPT ![r] = "scrape"]
      /\ todo' = [todo EXCEPT ![r] = list] /\ found' = [found EXCEPT ![r] = rows]
      /\ UNCHANGED <<web, rows, draft, lock, stale, job, page>>
  BY <1>1 DEF ReadArticles, Goto
<1>3. TypeInv'
  BY <1>1, <1>2 DEF IInv, TypeInv, TypeOK
<1>4. /\ \A s \in Requests \cup Reloads : s # r => pc'[s] = pc[s] /\ job'[s] = job[s]
      /\ \A s \in Reloads : s # r => /\ todo'[s] = todo[s] /\ page'[s] = page[s]
                                     /\ found'[s] = found[s]
  BY <1>2 DEF IInv, TypeInv, TypeOK
<1>5. RunInv(r)' /\ FreshInv(r)' /\ DraftInv(r)'
  <2>1. /\ pc'[r] = "scrape" /\ todo'[r] = list /\ found'[r] = rows /\ job'[r] = job[r]
        /\ job[r] \in Users /\ rows \in Tables /\ lock # r
    BY <1>2 DEF IInv, TypeInv, TypeOK, Tables, RunInv, FreshInv
  <2> QED
    BY <1>1, <1>2, <2>1 DEF RunInv, FreshInv, DraftInv, Listed
<1> QED
  BY <1>2, <1>3, <1>4, <1>5, RunStep

LEMMA ScrapeInv ==
    ASSUME IInv, NEW r \in Reloads, Scrape(r) \/ ScrapeFails(r)
    PROVE  IInv'
<1>1. /\ pc[r] = "scrape" /\ UNCHANGED <<web, rows, draft, lock, stale, job, found>>
      /\ web \in Webs /\ todo[r] \subseteq Articles
  BY DEF Scrape, ScrapeFails, IInv, TypeInv, TypeOK
<1>2. PICK a \in todo[r] :
         /\ todo' = [todo EXCEPT ![r] = todo[r] \ {a}]
         /\ \/ pc' = pc /\ page' = page
            \/ /\ pc' = [pc EXCEPT ![r] = "update"]
               /\ page' = [page EXCEPT ![r] = <<a, Fetched(a)>>]
               /\ Fetched(a) \in Texts /\ Fetched(a) # None
  <2>1. CASE Scrape(r)
    <3>1. PICK a \in todo[r], fault \in Faults :
             /\ Extract(web[a], fault).error = None
             /\ page' = [page EXCEPT ![r] = <<a, Extract(web[a], fault).document>>]
             /\ todo' = [todo EXCEPT ![r] = todo[r] \ {a}]
      BY <2>1 DEF Scrape
    <3>2. /\ Extract(web[a], fault).document = Fetched(a)
          /\ Fetched(a) \in Texts /\ Fetched(a) # None
      BY <1>1, <3>1, Scrapes
    <3> QED
      BY <2>1, <3>1, <3>2 DEF Scrape, Goto
  <2>2. CASE ScrapeFails(r)
    BY <2>2 DEF ScrapeFails
  <2> QED
    BY <2>1, <2>2
<1>3. TypeInv'
  <2>1. TypeInv
    BY DEF IInv
  <2>2. todo' \in [Reloads -> SUBSET Articles]
    BY <1>2, <2>1 DEF TypeInv, TypeOK
  <2>3. /\ pc' \in [Requests \cup Reloads ->
                     {"idle", "find", "upgrade", "write", "read", "scrape", "update"}]
        /\ page' \in [Reloads -> (Articles \X Texts) \cup {None}]
    BY <1>1, <1>2, <2>1 DEF TypeInv, TypeOK
  <2> QED
    BY <1>1, <2>1, <2>2, <2>3 DEF TypeInv, TypeOK
<1>4. /\ \A s \in Requests \cup Reloads : s # r => pc'[s] = pc[s] /\ job'[s] = job[s]
      /\ \A s \in Reloads : s # r => /\ todo'[s] = todo[s] /\ page'[s] = page[s]
                                     /\ found'[s] = found[s]
  BY <1>1, <1>2 DEF IInv, TypeInv, TypeOK
<1>5. /\ job[r] \in Users /\ found[r] \in Tables /\ \A b \in todo[r] : Listed(r, b)
      /\ FreshInv(r) /\ DraftInv(r)
  BY <1>1 DEF IInv, RunInv
<1>6. \A b : Fetched(b)' = Fetched(b) /\ Listed(r, b)' = Listed(r, b)
  BY <1>1 DEF Fetched, Listed
<1>7. FreshInv(r)' /\ DraftInv(r)'
  <2>1. pc'[r] \in {"scrape", "update"}
    BY <1>1, <1>2 DEF IInv, TypeInv, TypeOK
  <2> QED
    BY <1>1, <1>5, <1>6, <2>1 DEF FreshInv, DraftInv, Renewed
<1>8. RunInv(r)'
  <2>1. todo'[r] = todo[r] \ {a}
    BY <1>2 DEF IInv, TypeInv, TypeOK
  <2>2. \/ pc'[r] = "scrape"
        \/ /\ pc'[r] = "update" /\ page'[r] = <<a, Fetched(a)>>
           /\ Fetched(a) \in Texts /\ Fetched(a) # None
    BY <1>1, <1>2 DEF IInv, TypeInv, TypeOK
  <2> QED
    BY <1>1, <1>2, <1>5, <1>6, <2>1, <2>2 DEF RunInv
<1> QED
  BY <1>1, <1>3, <1>4, <1>7, <1>8, RunStep

LEMMA UpdateInv ==
    ASSUME IInv, NEW r \in Reloads, Update(r)
    PROVE  IInv'
<1>1. PICK table : table = IF lock = r THEN draft ELSE rows
  OBVIOUS
<1>2. PICK a \in Articles : /\ page[r] = <<a, Fetched(a)>> /\ Listed(r, a)
                            /\ Fetched(a) \in Texts /\ Fetched(a) # None
  BY DEF Update, IInv, RunInv
<1>3. /\ pc[r] = "update" /\ (lock = r \/ (lock = None /\ r \notin stale)) /\ lock' = r
      /\ draft' = [table EXCEPT ![a] = WithText(table[a], Fetched(a))]
      /\ pc' = [pc EXCEPT ![r] = "scrape"]
      /\ UNCHANGED <<web, rows, stale, job, todo, page, found>>
  BY <1>1, <1>2 DEF Update, Goto, WithText
<1>4. /\ found[r] = rows /\ rows \in Tables /\ job[r] \in Users
      /\ \A b \in todo[r] : Listed(r, b)
      /\ rows[a] \in Row /\ rows[a].owner = job[r]
  <2>1. /\ found[r] = rows /\ rows \in Tables /\ job[r] \in Users
        /\ \A b \in todo[r] : Listed(r, b)
    BY <1>3 DEF IInv, FreshInv, RunInv, TypeInv, TypeOK, Tables
  <2> QED
    BY <1>2, <2>1, LiveRows DEF Listed
<1>5. table \in Tables /\ \A b \in Articles : Renewed(r, rows[b], table[b], b)
  BY <1>1, <1>3, <1>4 DEF IInv, DraftInv, Renewed
<1>6. /\ table[a] \in Row
      /\ WithText(table[a], Fetched(a)) = WithText(rows[a], Fetched(a))
      /\ WithText(rows[a], Fetched(a)) \in Row
  BY <1>2, <1>4, <1>5, TextFields DEF Renewed
<1>7. /\ draft' \in Tables /\ draft'[a] = WithText(rows[a], Fetched(a))
      /\ \A b \in Articles : b # a => draft'[b] = table[b]
  BY <1>3, <1>5, <1>6 DEF Tables
<1>8. \A b \in Articles : Renewed(r, rows[b], draft'[b], b)
  BY <1>2, <1>4, <1>5, <1>7 DEF Renewed
<1>9. TypeInv'
  BY <1>3, <1>7, Actors DEF IInv, TypeInv, TypeOK, Tables
<1>10. \A s \in Requests \cup Reloads : s # r => pc'[s] = pc[s] /\ job'[s] = job[s]
  BY <1>3 DEF IInv, TypeInv, TypeOK
<1>11. \A b : Fetched(b)' = Fetched(b) /\ Listed(r, b)' = Listed(r, b)
  BY <1>3 DEF Fetched, Listed
<1>12. pc'[r] = "scrape"
  BY <1>3 DEF IInv, TypeInv, TypeOK
<1>13. RunInv(r)'
  BY <1>3, <1>4, <1>11, <1>12 DEF RunInv
<1>14. FreshInv(r)'
  BY <1>3, <1>4, <1>12 DEF FreshInv
<1>15. DraftInv(r)'
  BY <1>3, <1>7, <1>8, <1>11 DEF DraftInv, Renewed
<1> QED
  BY <1>3, <1>9, <1>10, <1>13, <1>14, <1>15, RunStep

LEMMA RunsInv ==
    ASSUME IInv, NEW r \in Reloads, Run(r) \/ Abort(r) \/ \E u \in Users : Begin(r, u)
    PROVE  IInv'
<1>1. CASE UpdateRefused(r) \/ Abort(r)
  <2>1. EndReload(r) /\ stale' = stale \ {r} /\ rows' = rows /\ rows \in Tables
    BY <1>1 DEF UpdateRefused, Abort, IInv, TypeInv, TypeOK, Tables
  <2> QED
    BY <2>1, EndStep
<1>2. CASE Commit(r)
  <2>1. /\ EndReload(r) /\ rows' = IF lock = r THEN draft ELSE rows
        /\ stale' = (IF rows' = rows THEN stale ELSE stale \cup Readers) \ {r}
    BY <1>2 DEF Commit
  <2>2. rows' \in Tables
    BY <2>1 DEF IInv, DraftInv, TypeInv, TypeOK, Tables
  <2> QED
    BY <2>1, <2>2, EndStep
<1> QED
  BY <1>1, <1>2, BeginInv, ReadArticlesInv, ScrapeInv, UpdateInv DEF Run

LEMMA NextInv == IInv /\ [Next]_vars => IInv'
<1> SUFFICES ASSUME IInv, [Next]_vars PROVE IInv'
  OBVIOUS
<1>1. CASE Next
  BY <1>1, RequestsInv, RunsInv DEF Next
<1>2. CASE UNCHANGED vars
  <2>1. \A r, a : Fetched(a)' = Fetched(a) /\ Listed(r, a)' = Listed(r, a)
    BY <1>2 DEF vars, Fetched, Listed
  <2> QED
    BY <1>2, <2>1 DEF vars, IInv, TypeInv, TypeOK, RunInv, FreshInv, DraftInv, Renewed,
                      RequestInv
<1> QED
  BY <1>1, <1>2

THEOREM IInvAlways == Spec => []IInv
  BY InitInv, NextInv, PTL DEF Spec

-----------------------------------------------------------------------------
(* What the steps do to the articles.                                      *)

\* Type correctness.
THEOREM TypeCorrect == Spec => []TypeOK
<1>1. IInv => TypeOK
  BY DEF IInv, TypeInv
<1> QED
  BY <1>1, IInvAlways, PTL

\* Only a request, and a run that ends, change articles.
LEMMA Changes ==
    ASSUME [Next]_vars
    PROVE  \/ rows' = rows
           \/ \E q \in Requests : Write(q)
           \/ \E r \in Reloads : Commit(r)
<1>1. ASSUME NEW q \in Requests, Handle(q), ~ Write(q) PROVE rows' = rows
  BY <1>1 DEF Handle, Find, WriteFails
<1>2. ASSUME NEW q \in Requests, NEW j, Start(q, j) PROVE rows' = rows
  BY <1>2 DEF Start
<1>3. ASSUME NEW r \in Reloads, Run(r), ~ Commit(r) PROVE rows' = rows
  BY <1>3 DEF Run, ReadArticles, Scrape, ScrapeFails, Update, UpdateRefused
<1>4. ASSUME NEW r \in Reloads, Abort(r) \/ \E u \in Users : Begin(r, u) PROVE rows' = rows
  BY <1>4 DEF Abort, Begin
<1> QED
  BY <1>1, <1>2, <1>3, <1>4 DEF Next, vars

\* A run overwrites the articles it has read and no others: nothing is committed
\* between its SELECT and its COMMIT.
THEOREM NothingNewerIsOverwritten == Spec => NothingNewerOverwritten
<1>1. IInv /\ [Next]_vars =>
         [\A r \in Reloads : (lock = r /\ rows' # rows) => rows = found[r]]_vars
  BY DEF IInv, FreshInv
<1> QED
  BY <1>1, IInvAlways, PTL DEF Spec, NothingNewerOverwritten

\* A run changes articles as it ends, after every page, or not at all.
THEOREM RunsAreWhole == Spec => WholeRunOrNothing
<1>1. IInv /\ [Next]_vars =>
         [\A r \in Reloads : (pc'[r] # pc[r] /\ rows' # rows) =>
                                 pc'[r] = "idle" /\ todo[r] = {}]_vars
  <2> SUFFICES ASSUME IInv, [Next]_vars, NEW r \in Reloads, pc'[r] # pc[r], rows' # rows
               PROVE  pc'[r] = "idle" /\ todo[r] = {}
    OBVIOUS
  <2>1. ASSUME NEW q \in Requests, Write(q) PROVE FALSE
    <3>1. pc' = [pc EXCEPT ![q] = "idle"] /\ q # r
      BY <2>1, Actors DEF Write, EndRequest, Goto
    <3> QED
      BY <3>1 DEF IInv, TypeInv, TypeOK
  <2>2. ASSUME NEW s \in Reloads, Commit(s) PROVE pc'[r] = "idle" /\ todo[r] = {}
    <3>1. pc' = [pc EXCEPT ![s] = "idle"] /\ todo[s] = {}
      BY <2>2 DEF Commit, EndReload, Goto
    <3> QED
      BY <3>1 DEF IInv, TypeInv, TypeOK
  <2> QED
    BY <2>1, <2>2, Changes
<1> QED
  BY <1>1, IInvAlways, PTL DEF Spec, WholeRunOrNothing

-----------------------------------------------------------------------------
(* Largest numbers.  The library's induction over finite sets takes an      *)
(* operator, so a least counterexample stands in for it.                    *)

LEMMA Least ==
    ASSUME NEW T \in SUBSET Nat, T # {}
    PROVE  \E x \in T : \A y \in T : x <= y
<1> DEFINE R == OpToRel(<, Nat)
<1>1. IsWellFoundedOn(R, Nat)
  BY NatLessThanWellFounded
<1> HIDE DEF R
<1>2. PICK x \in T : \A y \in T : ~ (<<y, x>> \in R)
  BY <1>1, WFMin
<1>3. ASSUME NEW y \in T PROVE x <= y
  <2>1. ~ (<<y, x>> \in R)
    BY <1>2
  <2>2. ~ (y < x)
    BY <2>1 DEF R, OpToRel
  <2> QED
    BY <2>2
<1> QED
  BY <1>3

LEMMA HasLargest ==
    ASSUME NEW X \in SUBSET Nat, IsFiniteSet(X), X # {}
    PROVE  \E m \in X : \A y \in X : y <= m
<1> DEFINE Bounded(S) == \E m \in S : \A y \in S : y <= m
           Wrong == {c \in Nat : \E S \in SUBSET X : S # {} /\ Cardinality(S) = c /\ ~ Bounded(S)}
<1> SUFFICES ASSUME ~ Bounded(X) PROVE FALSE
  OBVIOUS
<1>1. Cardinality(X) \in Wrong
  BY FS_CardinalityType
<1>2. PICK c \in Wrong : \A d \in Wrong : c <= d
  <2>1. Wrong \in SUBSET Nat /\ Wrong # {}
    BY <1>1
  <2> HIDE DEF Wrong
  <2> QED
    BY <2>1, Least
<1>3. PICK S \in SUBSET X : S # {} /\ Cardinality(S) = c /\ ~ Bounded(S)
  OBVIOUS
<1>4. PICK x \in S : TRUE
  BY <1>3
<1>5. /\ IsFiniteSet(S) /\ IsFiniteSet(S \ {x})
      /\ Cardinality(S \ {x}) \in Nat /\ Cardinality(S \ {x}) = c - 1
  BY <1>3, <1>4, FS_Subset, FS_RemoveElement, FS_CardinalityType
<1>6. Cardinality(S \ {x}) \notin Wrong
  <2>1. c \in Nat /\ ~ (c <= c - 1)
    OBVIOUS
  <2> HIDE DEF Wrong
  <2> QED
    BY <1>2, <1>5, <2>1
<1>7. CASE S \ {x} = {}
  <2>1. \A y \in S : y <= x
    BY <1>4, <1>7
  <2> QED
    BY <1>3, <1>4, <2>1
<1>8. CASE S \ {x} # {}
  <2>1. PICK m \in S \ {x} : \A y \in S \ {x} : y <= m
    BY <1>5, <1>6, <1>8
  <2>2. PICK n : n = IF x <= m THEN m ELSE x
    OBVIOUS
  <2>3. n \in S /\ \A y \in S : y <= n
    BY <1>4, <2>1, <2>2
  <2> QED
    BY <1>3, <2>3
<1> QED
  BY <1>7, <1>8

LEMMA MaxIs ==
    ASSUME NEW S \in SUBSET Nat, NEW m \in S, \A y \in S : y <= m
    PROVE  Max(S) = m
<1>1. \A x \in S : (\A y \in S : x >= y) => x = m
  OBVIOUS
<1>2. \A y \in S : m >= y
  OBVIOUS
<1> QED
  BY <1>1, <1>2 DEF Max

\* The size of a block is that of its largest print.
LEMMA FontSizes ==
    ASSUME NEW b \in Blocks
    PROVE  /\ FontSize(b) \in Nat
           /\ FontSize(b) \in b.sizes \cup {0}
           /\ \A s \in b.sizes : s <= FontSize(b)
<1> DEFINE S == b.sizes \cup {0}
<1>1. S \in SUBSET Nat /\ IsFiniteSet(S)
  BY FS_AddElement DEF Blocks
<1>2. PICK m \in S : \A y \in S : y <= m
  BY <1>1, HasLargest
<1>3. Max(S) = m
  BY <1>1, <1>2, MaxIs
<1> QED
  BY <1>1, <1>2, <1>3 DEF FontSize

-----------------------------------------------------------------------------
(* The heading of a page.                                                  *)

\* The recursion is well-founded: Scan is what its definition says.
LEMMA ScanDefined ==
    ASSUME NEW blocks \in Seq(Blocks)
    PROVE  Scan(blocks) =
             [k \in 0..Len(blocks) |->
                IF k = 0 THEN [kept |-> {}, max |-> 0]
                ELSE ScanBlock(Scan(blocks)[k - 1], blocks, k)]
<1> DEFINE After(f, n) ==
             f = [k \in 0..n |-> IF k = 0 THEN [kept |-> {}, max |-> 0]
                                 ELSE ScanBlock(f[k - 1], blocks, k)]
           Wrong == {n \in Nat : ~ \E f : After(f, n)}
<1>1. Wrong = {}
  <2> SUFFICES ASSUME Wrong # {} PROVE FALSE
    OBVIOUS
  <2>1. PICK m \in Wrong : \A n \in Wrong : m <= n
    <3>1. Wrong \in SUBSET Nat
      OBVIOUS
    <3> HIDE DEF Wrong
    <3> QED
      BY <3>1, Least
  <2>2. CASE m = 0
    <3> DEFINE f == [k \in 0..0 |-> [kept |-> {}, max |-> 0]]
    <3>1. After(f, 0)
      OBVIOUS
    <3> QED
      BY <2>2, <3>1
  <2>3. CASE m # 0
    <3>1. m - 1 \in Nat /\ m - 1 \notin Wrong
      <4>1. m \in Nat
        OBVIOUS
      <4> HIDE DEF Wrong
      <4> QED
        BY <2>1, <2>3, <4>1
    <3>2. PICK f : After(f, m - 1)
      BY <3>1
    <3> DEFINE g == [k \in 0..m |-> IF k < m THEN f[k] ELSE ScanBlock(f[m - 1], blocks, m)]
    <3>3. ASSUME NEW k \in 0..m
          PROVE  g[k] = IF k = 0 THEN [kept |-> {}, max |-> 0]
                        ELSE ScanBlock(g[k - 1], blocks, k)
      <4>1. CASE k = m
        <5>1. g[k] = ScanBlock(f[m - 1], blocks, m) /\ g[m - 1] = f[m - 1]
          BY <2>3, <3>1, <4>1
        <5> QED
          BY <2>3, <4>1, <5>1
      <4>2. CASE k # m
        <5>1. k \in 0..(m - 1)
          BY <3>1, <4>2
        <5>2. f[k] = IF k = 0 THEN [kept |-> {}, max |-> 0]
                     ELSE ScanBlock(f[k - 1], blocks, k)
          BY <3>2, <5>1
        <5>3. g[k] = f[k] /\ (k # 0 => g[k - 1] = f[k - 1])
          BY <3>1, <5>1
        <5> QED
          BY <5>2, <5>3
      <4> QED
        BY <4>1, <4>2
    <3>4. g = [k \in 0..m |-> g[k]]
      OBVIOUS
    <3> HIDE DEF g
    <3>5. After(g, m)
      BY <3>3, <3>4
    <3> QED
      BY <3>5
  <2> QED
    BY <2>2, <2>3
<1>2. \E f : After(f, Len(blocks))
  <2>1. Len(blocks) \in Nat
    OBVIOUS
  <2> HIDE DEF After
  <2> QED
    BY <1>1, <2>1
<1>3. Scan(blocks) = CHOOSE f : After(f, Len(blocks))
  BY DEF Scan
<1>4. After(Scan(blocks), Len(blocks))
  BY <1>2, <1>3
<1> QED
  BY <1>4

Printed(blocks, k) == {i \in 1..k : blocks[i].chars > 0}

\* What the scan has found after k blocks.
Found(blocks, k) ==
    LET end == Scan(blocks)[k]
    IN  /\ end.kept = {i \in Printed(blocks, k) : FontSize(blocks[i]) > 0}
        /\ end.max \in Nat
        /\ \A i \in Printed(blocks, k) : FontSize(blocks[i]) <= end.max
        /\ end.max = 0 \/ \E i \in Printed(blocks, k) : FontSize(blocks[i]) = end.max

LEMMA ScanFinds ==
    ASSUME NEW blocks \in Seq(Blocks), NEW k \in 0..Len(blocks)
    PROVE  Found(blocks, k)
<1> DEFINE Wrong == {n \in 0..Len(blocks) : ~ Found(blocks, n)}
<1> SUFFICES ASSUME Wrong # {} PROVE FALSE
  OBVIOUS
<1>1. PICK m \in Wrong : \A n \in Wrong : m <= n
  <2>1. Wrong \in SUBSET Nat
    OBVIOUS
  <2> HIDE DEF Wrong
  <2> QED
    BY <2>1, Least
<1>2. CASE m = 0
  <2>1. Scan(blocks)[0] = [kept |-> {}, max |-> 0]
    BY ScanDefined
  <2>2. Printed(blocks, 0) = {}
    BY DEF Printed
  <2>3. Found(blocks, 0)
    BY <2>1, <2>2 DEF Found
  <2> QED
    BY <1>2, <2>3
<1>3. CASE m # 0
  <2>1. m \in 1..Len(blocks) /\ m - 1 \in 0..Len(blocks) /\ Found(blocks, m - 1)
    BY <1>1, <1>3
  <2>2. PICK before, end, size :
           /\ before = Scan(blocks)[m - 1] /\ end = Scan(blocks)[m]
           /\ size = FontSize(blocks[m])
    OBVIOUS
  <2>3. end = ScanBlock(before, blocks, m)
    BY <2>1, <2>2, ScanDefined
  <2>4. /\ before.kept = {i \in Printed(blocks, m - 1) : FontSize(blocks[i]) > 0}
        /\ before.max \in Nat
        /\ \A i \in Printed(blocks, m - 1) : FontSize(blocks[i]) <= before.max
        /\ before.max = 0 \/ \E i \in Printed(blocks, m - 1) : FontSize(blocks[i]) = before.max
    BY <2>1, <2>2 DEF Found
  <2>5. blocks[m] \in Blocks /\ blocks[m].chars \in Nat /\ size \in Nat
    <3>1. blocks[m] \in Blocks
      BY <2>1
    <3>2. blocks[m].chars \in Nat
      BY <3>1 DEF Blocks
    <3> QED
      BY <2>2, <3>1, <3>2, FontSizes
  <2>6. CASE blocks[m].chars = 0
    <3>1. Printed(blocks, m) = Printed(blocks, m - 1)
      BY <2>1, <2>6 DEF Printed
    <3>2. end = before
      BY <2>3, <2>6 DEF ScanBlock
    <3> QED
      BY <1>1, <2>2, <2>4, <3>1, <3>2 DEF Found
  <2>7. CASE blocks[m].chars # 0
    <3>1. Printed(blocks, m) = Printed(blocks, m - 1) \cup {m}
      BY <2>1, <2>5, <2>7 DEF Printed
    <3>2. /\ end.kept = before.kept \cup (IF size > 0 THEN {m} ELSE {})
          /\ end.max = Max({before.max, size})
      BY <2>2, <2>3, <2>7 DEF ScanBlock
    <3>3. end.max = IF size <= before.max THEN before.max ELSE size
      <4>1. PICK n : n = IF size <= before.max THEN before.max ELSE size
        OBVIOUS
      <4>2. /\ {before.max, size} \in SUBSET Nat /\ n \in {before.max, size}
            /\ \A y \in {before.max, size} : y <= n
        BY <2>4, <2>5, <4>1
      <4>3. Max({before.max, size}) = n
        BY <4>2, MaxIs
      <4> QED
        BY <3>2, <4>1, <4>3
    <3>4. \A i \in Printed(blocks, m - 1) : FontSize(blocks[i]) \in Nat
      BY <2>1, FontSizes DEF Printed
    <3>5. end.kept = {i \in Printed(blocks, m) : FontSize(blocks[i]) > 0}
      BY <2>2, <2>4, <2>5, <3>1, <3>2
    <3>6. /\ end.max \in Nat
          /\ \A i \in Printed(blocks, m) : FontSize(blocks[i]) <= end.max
      BY <2>2, <2>4, <2>5, <3>1, <3>3, <3>4
    <3>7. end.max = 0 \/ \E i \in Printed(blocks, m) : FontSize(blocks[i]) = end.max
      BY <2>2, <2>4, <2>5, <3>1, <3>3
    <3> QED
      BY <1>1, <2>2, <3>5, <3>6, <3>7 DEF Found
  <2> QED
    BY <2>6, <2>7
<1> QED
  BY <1>2, <1>3

\* The scan of PdfExtractor keeps the heading of the page: all that is printed
\* within a tenth of a point of the largest print, wherever it is.
THEOREM ScanFindsHeading ==
    ASSUME NEW blocks \in Seq(Blocks)
    PROVE  HeadingBlocks(blocks) = HeadingPositions(blocks)
<1> DEFINE printed == Printed(blocks, Len(blocks))
           sizes == (UNION {blocks[i].sizes : i \in printed}) \cup {0}
<1>1. PICK end : end = Scan(blocks)[Len(blocks)]
  OBVIOUS
<1>2. /\ end.kept = {i \in printed : FontSize(blocks[i]) > 0}
      /\ end.max \in Nat
      /\ \A i \in printed : FontSize(blocks[i]) <= end.max
      /\ end.max = 0 \/ \E i \in printed : FontSize(blocks[i]) = end.max
  BY <1>1, ScanFinds DEF Found
<1>3. \A i \in printed : /\ blocks[i].sizes \in SUBSET Nat
                         /\ FontSize(blocks[i]) \in Nat
                         /\ FontSize(blocks[i]) \in blocks[i].sizes \cup {0}
                         /\ \A s \in blocks[i].sizes : s <= FontSize(blocks[i])
  BY FontSizes DEF Printed, Blocks
<1> HIDE DEF printed
<1>4. Max(sizes) = end.max
  <2>1. sizes \in SUBSET Nat
    BY <1>3
  <2>2. end.max \in sizes
    BY <1>2, <1>3
  <2>3. \A s \in sizes : s <= end.max
    BY <1>2, <1>3
  <2> HIDE DEF sizes
  <2> QED
    BY <2>1, <2>2, <2>3, MaxIs
<1> HIDE DEF sizes
<1>5. HeadingBlocks(blocks) =
         {i \in printed : FontSize(blocks[i]) > 0 /\ FontSize(blocks[i]) + 2 > end.max}
  BY <1>1, <1>2 DEF HeadingBlocks
<1>6. HeadingPositions(blocks) =
         {i \in printed : \E s \in blocks[i].sizes : s > 0 /\ end.max - s < 2}
  BY <1>4 DEF HeadingPositions, Printed, printed, sizes
<1>7. ASSUME NEW i \in printed
      PROVE  (FontSize(blocks[i]) > 0 /\ FontSize(blocks[i]) + 2 > end.max)
             <=> \E s \in blocks[i].sizes : s > 0 /\ end.max - s < 2
  <2>1. ASSUME NEW s \in blocks[i].sizes, s > 0, end.max - s < 2
        PROVE  FontSize(blocks[i]) > 0 /\ FontSize(blocks[i]) + 2 > end.max
    BY <1>2, <1>3, <2>1
  <2>2. ASSUME FontSize(blocks[i]) > 0, FontSize(blocks[i]) + 2 > end.max
        PROVE  FontSize(blocks[i]) \in blocks[i].sizes /\ end.max - FontSize(blocks[i]) < 2
    BY <1>2, <1>3, <2>2
  <2> QED
    BY <2>1, <2>2
<1> QED
  BY <1>5, <1>6, <1>7

-----------------------------------------------------------------------------
(* Titles.                                                                 *)

\* Titles that entries.title takes.
GoodTitles == {t \in Titles : t.chars \in 1..MaxLength}

Froms == {"metadata", "content", "file", "html", "url"}

LEMMA TitleIs ==
    ASSUME NEW from \in Froms, NEW name \in Names \cup {None},
           NEW blocks \in SUBSET Nat, NEW chars \in Nat
    PROVE  /\ chars = 0 => TitleOf(from, name, blocks, chars) = None
           /\ chars # 0 => /\ TitleOf(from, name, blocks, chars) \in GoodTitles
                           /\ TitleOf(from, name, blocks, chars).from = from
                           /\ TitleOf(from, name, blocks, chars).name = name
                           /\ TitleOf(from, name, blocks, chars).blocks = blocks
  BY BoundsAssumption DEF TitleOf, GoodTitles, Titles, Froms

LEMMA NameTitleIs ==
    ASSUME NEW from \in Froms, NEW name \in Names
    PROVE  /\ Chars[name] = 0 => NameTitle(from, name) = None
           /\ Chars[name] # 0 => /\ NameTitle(from, name) \in GoodTitles
                                 /\ NameTitle(from, name).from = from
                                 /\ NameTitle(from, name).name = name
  BY TitleIs, NamesAssumption DEF NameTitle

LEMMA NoneIsNoTitle == None \notin GoodTitles
  BY NamesAssumption DEF GoodTitles

LEMMA OrElseIs ==
    ASSUME NEW a \in GoodTitles \cup {None}, NEW b
    PROVE  \/ OrElse(a, b) = a /\ a \in GoodTitles
           \/ OrElse(a, b) = b /\ a = None
  BY NoneIsNoTitle DEF OrElse

\* The end of every chain of fallbacks.
LEMMA UrlTitleIs ==
    ASSUME NEW p, IsPage(p)
    PROVE  /\ UrlTitle(p.url) \in GoodTitles
           /\ UrlTitle(p.url).from = "url"
           /\ p.url.file = None => UrlTitle(p.url).name = p.url.host
<1>1. PICK name \in Names : /\ Chars[name] > 0
                            /\ name = IF p.url.file # None THEN p.url.file ELSE p.url.host
  BY DEF IsPage
<1>2. UrlTitle(p.url) = OrElse(NameTitle("url", name), DefaultTitle)
  BY <1>1 DEF UrlTitle
<1>3. /\ NameTitle("url", name) \in GoodTitles
      /\ NameTitle("url", name).from = "url"
      /\ NameTitle("url", name).name = name
  BY <1>1, NameTitleIs, NamesAssumption DEF Froms
<1> QED
  BY <1>1, <1>2, <1>3, NoneIsNoTitle DEF OrElse

LEMMA StemTitleIs ==
    ASSUME NEW p, IsPage(p)
    PROVE  \/ StemTitle(p.url) = None
           \/ /\ StemTitle(p.url) \in GoodTitles /\ p.url.file # None
              /\ StemTitle(p.url).from = "file"
<1>1. CASE p.url.file = None
  BY <1>1 DEF StemTitle
<1>2. CASE p.url.file # None
  <2>1. p.url.file \in Names
    BY <1>2 DEF IsPage
  <2>2. Stem[Lower[p.url.file]] \in Names
    BY <2>1, NamesAssumption
  <2>3. StemTitle(p.url) = NameTitle("file", Stem[Lower[p.url.file]])
    BY <1>2 DEF StemTitle
  <2> QED
    BY <1>2, <2>2, <2>3, NameTitleIs DEF Froms
<1> QED
  BY <1>1, <1>2

\* Sums of finitely many numbers are numbers.
LEMMA TotalIsNumber ==
    ASSUME NEW S, IsFiniteSet(S), NEW n \in [S -> Nat]
    PROVE  Total(n) \in Nat
<1> DEFINE Units == {{i} \X (1..n[i]) : i \in S}
<1>1. IsFiniteSet(Units)
  <2>1. [i \in S |-> {i} \X (1..n[i])] \in Surjection(S, Units)
    BY DEF Surjection
  <2> HIDE DEF Units
  <2> QED
    BY <2>1, FS_Surjection
<1>2. ASSUME NEW i \in S PROVE IsFiniteSet({i} \X (1..n[i]))
  <2>1. 1 \in Int /\ n[i] \in Int
    OBVIOUS
  <2>2. IsFiniteSet({i}) /\ IsFiniteSet(1..n[i])
    BY <2>1, FS_Singleton, FS_Interval
  <2> QED
    BY <2>2, FS_Product
<1>3. IsFiniteSet(UNION Units)
  <2>1. \A U \in Units : IsFiniteSet(U)
    BY <1>2
  <2> HIDE DEF Units
  <2> QED
    BY <1>1, <2>1, FS_UNION
<1>4. Total(n) = Cardinality(UNION Units)
  BY DEF Total
<1> HIDE DEF Units
<1> QED
  BY <1>3, <1>4, FS_CardinalityType

\* A heading that looks like a title becomes one.
LEMMA HeadingTitle ==
    ASSUME NEW blocks \in Seq(Blocks), ReadsLikeTitle(blocks),
           NEW title, NEW at, at = HeadingPositions(blocks),
           title = TitleOf("content", None, at, Joined(blocks, at).chars)
    PROVE  title \in GoodTitles /\ title.from = "content" /\ title.blocks = at
<1>1. at \in SUBSET (1..Len(blocks)) /\ at # {}
  BY DEF HeadingPositions, ReadsLikeTitle
<1>2. IsFiniteSet(at) /\ Cardinality(at) \in Nat
  <2>1. 1 \in Int /\ Len(blocks) \in Int
    OBVIOUS
  <2>2. IsFiniteSet(1..Len(blocks))
    BY <2>1, FS_Interval
  <2> QED
    BY <1>1, <2>2, FS_Subset, FS_CardinalityType
<1>3. [i \in at |-> blocks[i].chars] \in [at -> Nat]
  BY <1>1 DEF Blocks
<1>4. Joined(blocks, at).chars = Total([i \in at |-> blocks[i].chars]) + (Cardinality(at) - 1)
  BY DEF Joined
<1>5. Joined(blocks, at).chars \in Int /\ Joined(blocks, at).chars >= 10
  <2>1. Total([i \in at |-> blocks[i].chars]) \in Nat
    BY <1>2, <1>3, TotalIsNumber
  <2>2. Joined(blocks, at).chars >= 10
    BY DEF ReadsLikeTitle, LooksLikeTitle
  <2> QED
    BY <1>2, <1>4, <2>1, <2>2
<1>6. PICK chars \in Nat : chars = Joined(blocks, at).chars /\ chars # 0
  BY <1>5
<1>7. at \in SUBSET Nat /\ "content" \in Froms /\ None \in Names \cup {None}
  BY <1>1 DEF Froms
<1>8. PICK from \in Froms, name \in Names \cup {None} : from = "content" /\ name = None
  BY <1>7
<1>9. title = TitleOf(from, name, at, chars)
  BY <1>6, <1>8
<1>10. /\ TitleOf(from, name, at, chars) \in GoodTitles
       /\ TitleOf(from, name, at, chars).from = from
       /\ TitleOf(from, name, at, chars).blocks = at
  <2>1. at \in SUBSET Nat /\ chars # 0
    BY <1>6, <1>7
  <2> HIDE <1>7, <1>8
  <2> QED
    BY <2>1, TitleIs
<1> QED
  BY <1>8, <1>9, <1>10

LEMMA ContentTitleIs ==
    ASSUME NEW pdf, pdf.first \in Seq(Blocks) \cup {None}
    PROVE  IF pdf.first # None /\ ReadsLikeTitle(pdf.first)
           THEN /\ ContentTitle(pdf) \in GoodTitles /\ ContentTitle(pdf).from = "content"
                /\ ContentTitle(pdf).blocks = HeadingPositions(pdf.first)
           ELSE ContentTitle(pdf) = None
<1>1. CASE pdf.first = None
  BY <1>1 DEF ContentTitle
<1>2. CASE pdf.first # None
  <2>1. PICK first \in Seq(Blocks) : first = pdf.first
    BY <1>2
  <2>2. PICK at : at = HeadingPositions(first) /\ at = HeadingBlocks(first)
    BY ScanFindsHeading
  <2>3. ContentTitle(pdf) = IF at = {} \/ ~ LooksLikeTitle(Joined(first, at)) THEN None
                            ELSE TitleOf("content", None, at, Joined(first, at).chars)
    BY <1>2, <2>1, <2>2 DEF ContentTitle
  <2>4. ReadsLikeTitle(first) <=> at # {} /\ LooksLikeTitle(Joined(first, at))
    BY <2>2 DEF ReadsLikeTitle
  <2> QED
    BY <1>2, <2>1, <2>2, <2>3, <2>4, HeadingTitle
<1> QED
  BY <1>1, <1>2

\* PdfExtractor::extract on a PDF that parses: its title is one that
\* entries.title takes, and the one it is meant to have unless the metadata
\* repeat a name of the file with another dot in it, where the code's comparison
\* is not the one that is meant (pdf.rs:117, 125).
THEOREM PdfTitleIsMeant ==
    ASSUME NEW p, IsPage(p), MimeOf(p.header) = "pdf", p.pdf.parses,
           NEW title, title = PdfDocument(p.url, p.pdf).title
    PROVE  /\ title \in GoodTitles
           /\ ~ RepeatsDottedName(p.url, p.pdf) => IsTitleOf(title, p.url, p.pdf)
<1>1. PICK pdf, url, meta, stem, content :
         /\ pdf = p.pdf /\ url = p.url /\ meta = MetadataTitle(pdf)
         /\ stem = StemTitle(url) /\ content = ContentTitle(pdf)
  OBVIOUS
<1>2. /\ pdf.meta \in Names \cup {None} /\ pdf.first \in Seq(Blocks) \cup {None}
      /\ url.file \in Names \cup {None}
  BY <1>1 DEF IsPage
<1>3. title = OrElse(OrElse(PdfTitle(url, pdf), stem), UrlTitle(url))
  BY <1>1 DEF PdfDocument, NewDocument
<1>4. /\ stem = None \/ (stem \in GoodTitles /\ url.file # None /\ stem.from = "file")
      /\ UrlTitle(url) \in GoodTitles /\ UrlTitle(url).from = "url"
      /\ url.file = None => UrlTitle(url).name = url.host
  BY <1>1, StemTitleIs, UrlTitleIs
<1>5. IF pdf.first # None /\ ReadsLikeTitle(pdf.first)
      THEN content \in GoodTitles /\ content.from = "content"
           /\ content.blocks = HeadingPositions(pdf.first)
      ELSE content = None
  BY <1>1, <1>2, ContentTitleIs
<1>r. ASSUME ~ RepeatsDottedName(url, pdf), meta # None
      PROVE  Repeats(meta, url) <=> IsFileName(meta, url)
  BY <1>1, <1>r DEF RepeatsDottedName, Repeats, IsFileName
<1>6. CASE meta # None /\ ~ IsFileName(meta, url)
  <2>1. meta \in Names /\ Chars[meta] # 0
    BY <1>1, <1>2, <1>6, NamesAssumption DEF MetadataTitle
  <2>2. PdfTitle(url, pdf) = NameTitle("metadata", meta)
    BY <1>1, <1>6 DEF PdfTitle
  <2>3. /\ NameTitle("metadata", meta) \in GoodTitles
        /\ NameTitle("metadata", meta).from = "metadata"
        /\ NameTitle("metadata", meta).name = meta
    BY <2>1, NameTitleIs DEF Froms
  <2>4. title = NameTitle("metadata", meta)
    BY <1>3, <2>2, <2>3, NoneIsNoTitle DEF OrElse
  <2> QED
    BY <1>1, <1>r, <1>6, <2>3, <2>4 DEF IsTitleOf
<1>7. CASE ~ (meta # None /\ ~ IsFileName(meta, url))
  <2>1. PdfTitle(url, pdf) = OrElse(content, stem)
    BY <1>1, <1>7 DEF PdfTitle
  <2>2. CASE pdf.first # None /\ ReadsLikeTitle(pdf.first)
    <3>1. title = content
      BY <1>3, <1>5, <2>1, <2>2, NoneIsNoTitle DEF OrElse
    <3> QED
      BY <1>1, <1>r, <1>5, <1>7, <2>2, <3>1 DEF IsTitleOf
  <2>3. CASE ~ (pdf.first # None /\ ReadsLikeTitle(pdf.first))
    <3>1. \/ title = stem /\ stem \in GoodTitles
          \/ title = UrlTitle(url) /\ stem = None
      BY <1>3, <1>4, <1>5, <2>1, <2>3, NoneIsNoTitle DEF OrElse
    <3>2. title \in GoodTitles
      BY <1>4, <3>1
    <3>3. IF url.file = None THEN title.from = "url" /\ title.name = url.host
          ELSE title.from \in {"file", "url"}
      BY <1>4, <3>1, NoneIsNoTitle
    <3>4. ~ (pdf.first # None /\ ReadsLikeTitle(pdf.first))
      BY <2>3
    <3>5. ASSUME ~ RepeatsDottedName(url, pdf) PROVE IsTitleOf(title, url, pdf)
      <4>1. ~ (MetadataTitle(pdf) # None /\ ~ Repeats(MetadataTitle(pdf), url))
        BY <1>1, <1>r, <1>7, <3>5
      <4> QED
        BY <3>3, <3>4, <4>1 DEF IsTitleOf
    <3> QED
      BY <1>1, <3>2, <3>5
  <2> QED
    BY <2>2, <2>3
<1> QED
  BY <1>6, <1>7

LEMMA FallbackTitled ==
    ASSUME NEW p, IsPage(p)
    PROVE  Titled(FallbackDocument(p.url))
<1>1. FallbackDocument(p.url).title = UrlTitle(p.url)
  BY DEF FallbackDocument, NewDocument
<1> QED
  BY <1>1, UrlTitleIs, NoneIsNoTitle DEF Titled, GoodTitles

LEMMA HtmlTitled ==
    ASSUME NEW p, IsPage(p), MimeOf(p.header) = "html"
    PROVE  Titled(HtmlDocument(p.url, p.html))
<1>1. p.html.title \in Names
  BY DEF IsPage
<1>2. HtmlDocument(p.url, p.html).title = OrElse(NameTitle("html", p.html.title), UrlTitle(p.url))
  BY DEF HtmlDocument, NewDocument
<1>3. HtmlDocument(p.url, p.html).title \in GoodTitles
  <2>1. NameTitle("html", p.html.title) \in GoodTitles \cup {None}
    BY <1>1, NameTitleIs DEF Froms
  <2> QED
    BY <1>2, <2>1, OrElseIs, UrlTitleIs
<1> QED
  BY <1>3, NoneIsNoTitle DEF Titled, GoodTitles

LEMMA PdfTitled ==
    ASSUME NEW p, IsPage(p), MimeOf(p.header) = "pdf"
    PROVE  Titled(PdfDocument(p.url, p.pdf))
<1>1. CASE p.pdf.parses
  BY <1>1, PdfTitleIsMeant, NoneIsNoTitle DEF Titled, GoodTitles
<1>2. CASE ~ p.pdf.parses
  <2>1. PdfDocument(p.url, p.pdf).title =
           OrElse(OrElse(None, StemTitle(p.url)), UrlTitle(p.url))
    BY <1>2 DEF PdfDocument, NewDocument
  <2>2. PdfDocument(p.url, p.pdf).title \in GoodTitles
    BY <2>1, StemTitleIs, UrlTitleIs DEF OrElse
  <2> QED
    BY <2>2, NoneIsNoTitle DEF Titled, GoodTitles
<1> QED
  BY <1>1, <1>2

\* Whatever the network and the page do, whoever adds an article has a title.
THEOREM ExtractedTitled ==
    ASSUME NEW p, IsPage(p), NEW fault \in Faults
    PROVE  Titled(ExtractOrFallback(p, fault))
<1>1. CASE Extract(p, fault).error = None
  <2>1. \A e \in Errors : Failed(e).error # None
    BY NamesAssumption DEF Failed
  <2>2. /\ fault # "request" /\ MimeOf(p.header) # None /\ fault # "body"
        /\ MimeOf(p.header) \in {"html", "pdf"}
    BY <1>1, <2>1 DEF Extract, MimeOf, Errors
  <2>3. ExtractOrFallback(p, fault) = Extract(p, fault).document
    BY <1>1 DEF ExtractOrFallback
  <2>4. CASE MimeOf(p.header) = "html"
    <3>1. Extract(p, fault) = HtmlResult(p.url, p.html)
      BY <2>2, <2>4 DEF Extract
    <3>2. Extract(p, fault) = Scraped(HtmlDocument(p.url, p.html))
      BY <1>1, <2>1, <3>1 DEF HtmlResult, Errors
    <3> QED
      BY <2>3, <2>4, <3>2, HtmlTitled DEF Scraped
  <2>5. CASE MimeOf(p.header) = "pdf"
    <3>1. Extract(p, fault) = Scraped(PdfDocument(p.url, p.pdf))
      BY <2>2, <2>5 DEF Extract
    <3> QED
      BY <2>3, <2>5, <3>1, PdfTitled DEF Scraped
  <2> QED
    BY <2>2, <2>4, <2>5
<1>2. CASE Extract(p, fault).error # None
  BY <1>2, FallbackTitled DEF ExtractOrFallback
<1> QED
  BY <1>1, <1>2

LEMMA TextsTitled == \A text \in Texts : Titled(text)
  BY ExtractedTitled, WebsAssumption DEF Texts

\* Whatever is missing or broken in the page of an article, the article has a
\* title.
THEOREM ArticlesAreTitled == Spec => []AlwaysTitled
<1>1. TypeOK => AlwaysTitled
  <2> SUFFICES ASSUME TypeOK PROVE AlwaysTitled
    OBVIOUS
  <2>1. ASSUME NEW a \in Articles, Live(rows, a) PROVE Titled(rows[a].text)
    <3>1. rows[a] \in Row
      BY <2>1, LiveRows DEF TypeOK, Tables
    <3> QED
      BY <3>1, TextsTitled DEF Row
  <2>2. ASSUME NEW r \in Reloads, page[r] # None PROVE Titled(page[r][2])
    <3>1. page[r] \in Articles \X Texts
      BY <2>2 DEF TypeOK
    <3> QED
      BY <3>1, TextsTitled
  <2> QED
    BY <2>1, <2>2 DEF AlwaysTitled
<1> QED
  BY <1>1, TypeCorrect, PTL

\* What a run has fetched is what is behind the address.
PageInv ==
    \A r \in Reloads : page[r] # None =>
        page[r][1] \in Articles /\ page[r][2] = Fetched(page[r][1])

LEMMA PageStep == IInv /\ PageInv /\ [Next]_vars => PageInv'
<1> SUFFICES ASSUME IInv, PageInv, [Next]_vars PROVE PageInv'
  OBVIOUS
<1>1. web' = web
  BY DEF Next, vars, Handle, Find, Write, WriteFails, EndRequest, Start, Run, Abort, Begin,
         ReadArticles, Scrape, ScrapeFails, Update, UpdateRefused, Commit, EndReload
<1>2. \A a : Fetched(a)' = Fetched(a)
  BY <1>1 DEF Fetched
<1>3. page \in [Reloads -> (Articles \X Texts) \cup {None}]
  BY DEF IInv, TypeInv, TypeOK
<1>4. CASE page' = page
  BY <1>2, <1>4 DEF PageInv
<1>5. ASSUME NEW r \in Reloads, page' = [page EXCEPT ![r] = None] PROVE PageInv'
  BY <1>2, <1>3, <1>5 DEF PageInv
<1>6. ASSUME NEW r \in Reloads, Scrape(r) PROVE PageInv'
  <2>1. PICK a \in todo[r], fault \in Faults :
           /\ Extract(web[a], fault).error = None
           /\ page' = [page EXCEPT ![r] = <<a, Extract(web[a], fault).document>>]
    BY <1>6 DEF Scrape
  <2>2. a \in Articles /\ web \in Webs
    BY DEF IInv, TypeInv, TypeOK
  <2>3. page' = [page EXCEPT ![r] = <<a, Fetched(a)>>]
    BY <2>1, <2>2, Scrapes
  <2> QED
    BY <1>2, <1>3, <2>2, <2>3 DEF PageInv
<1>7. \/ page' = page
      \/ \E r \in Reloads : page' = [page EXCEPT ![r] = None] \/ Scrape(r)
  BY DEF Next, vars, Handle, Find, Write, WriteFails, EndRequest, Start, Run, Abort, Begin,
         ReadArticles, ScrapeFails, Update, UpdateRefused, Commit, EndReload
<1> QED
  BY <1>4, <1>5, <1>6, <1>7

THEOREM PageInvAlways == Spec => []PageInv
<1>1. Init => PageInv
  BY DEF Init, PageInv
<1> QED
  BY <1>1, PageStep, IInvAlways, PTL DEF Spec

\* A PDF that is fetched again gets the title it is meant to have, where its
\* metadata do not repeat a name of the file with another dot in it.
THEOREM ReloadedTitles == Spec => []LargestPrintIsTitle
<1>1. TypeOK /\ PageInv => LargestPrintIsTitle
  <2> SUFFICES ASSUME TypeOK, PageInv, NEW r \in Reloads, page[r] # None,
                      NEW source, source = web[page[r][1]],
                      MimeOf(source.header) = "pdf", source.pdf.parses,
                      ~ RepeatsDottedName(source.url, source.pdf)
               PROVE  IsTitleOf(page[r][2].title, source.url, source.pdf)
    BY DEF LargestPrintIsTitle
  <2>1. IsPage(source)
    BY WebsAssumption DEF TypeOK, PageInv
  <2>2. page[r][2] = Extract(source, "none").document
    BY DEF PageInv, Fetched
  <2>3. Extract(source, "none") = Scraped(PdfDocument(source.url, source.pdf))
    BY NamesAssumption DEF Extract, MimeOf
  <2>4. page[r][2] = PdfDocument(source.url, source.pdf)
    BY <2>2, <2>3 DEF Scraped
  <2> QED
    BY <2>1, <2>4, PdfTitleIsMeant
<1> QED
  BY <1>1, TypeCorrect, PageInvAlways, PTL

-----------------------------------------------------------------------------
(* Reload implements ReloadService.                                        *)

LEMMA ServiceInit == Init => Service!Init
<1> SUFFICES ASSUME Init PROVE Service!Init
  OBVIOUS
<1>1. rows \in Tables
  BY InitInv DEF IInv, TypeInv, TypeOK, Tables
<1>2. \A a \in Articles : rows[a] # Gone
  <2>1. [owner : Users, marked : {FALSE}, text : UNION {Added(a) : a \in Articles}] \subseteq Row
    BY AddedTexts DEF Init, Row
  <2> QED
    BY <2>1, RowsAssumption, DistinctAssumption DEF Init
<1> QED
  BY <1>1, <1>2 DEF Service!Init, Tables

LEMMA WriteServes ==
    ASSUME IInv, NEW q \in Requests, Write(q), rows' # rows
    PROVE  Service!Next
<1>1. PICK a \in Articles, new \in Row \cup {None, Gone} :
         /\ rows' = [rows EXCEPT ![a] = new]
         /\ \/ new = rows[a]
            \/ rows[a] = None /\ new \in Row
            \/ rows[a] \in Row /\ new \in Row /\ new.owner = rows[a].owner
            \/ rows[a] \in Row /\ new = Gone
  BY WriteRows
<1>2. rows \in Tables
  BY DEF IInv, TypeInv, TypeOK, Tables
<1>3. rows'[a] = new /\ new # rows[a]
  BY <1>1, <1>2 DEF Tables
<1>4. Service!Only(a)
  BY <1>1, <1>3 DEF Service!Only
<1>5. \A row \in Row : row \notin {None, Gone} /\ row.owner \in Users
  BY RowsAssumption DEF Row
<1>6. CASE rows[a] = None /\ new \in Row
  BY <1>3, <1>4, <1>5, <1>6 DEF Service!Create, Service!Next
<1>7. CASE rows[a] \in Row /\ new \in Row /\ new.owner = rows[a].owner
  BY <1>3, <1>4, <1>5, <1>7 DEF Service!Change, Service!Live, Service!Next
<1>8. CASE rows[a] \in Row /\ new = Gone
  BY <1>3, <1>4, <1>5, <1>8 DEF Service!Delete, Service!Live, Service!Next
<1> QED
  BY <1>1, <1>3, <1>6, <1>7, <1>8

LEMMA CommitServes ==
    ASSUME IInv, NEW r \in Reloads, Commit(r), rows' # rows
    PROVE  Service!Next
<1>1. lock = r /\ rows' = draft
  BY DEF Commit
<1>2. /\ draft \in Tables /\ \A a \in Articles : Renewed(r, rows[a], draft[a], a)
      /\ job[r] \in Users
  BY <1>1 DEF IInv, DraftInv, FreshInv, RunInv
<1>3. ASSUME NEW a \in Articles
      PROVE  \/ rows'[a] = rows[a]
             \/ /\ Service!Live(a) /\ rows[a].owner = job[r] /\ Fetched(a) # None
                /\ rows'[a] = [rows[a] EXCEPT !.text = Fetched(a)]
  BY <1>1, <1>2, RowsAssumption DEF Renewed, WithText, Service!Live
<1>4. \A a \in Articles : [b \in Articles |-> Extract(web[b], "none").document][a] = Fetched(a)
  BY DEF Fetched
<1>5. DOMAIN rows' = Articles
  BY <1>1, <1>2 DEF Tables
<1>6. Service!Reload(job[r])
  BY <1>3, <1>4, <1>5 DEF Service!Reload
<1> QED
  BY <1>2, <1>6 DEF Service!Next

\* Beside the server a run of the command line is one step on the articles.
THEOREM ReloadsAreAtomic == Spec => ImplementsService
<1>1. Init => Service!Init
  BY ServiceInit
<1>2. IInv /\ [Next]_vars => [Service!Next]_rows
  BY Changes, WriteServes, CommitServes
<1> QED
  BY <1>1, <1>2, IInvAlways, PTL DEF Spec, ImplementsService, Service!Spec
=============================================================================
