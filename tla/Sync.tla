-------------------------------- MODULE Sync --------------------------------
(***************************************************************************)
(* An API client that keeps a copy of the articles by asking for those     *)
(* updated since it last asked (GET /api/entries?since=...), while they    *)
(* are created, updated and deleted.  updated_at is read from the clock    *)
(* when a handler builds its update, before it has a connection and the    *)
(* write lock; a reload stamps each article when it updates it and commits *)
(* them all later.  So what commits last need not carry the largest stamp. *)
(*                                                                         *)
(* Only columns of entries are versioned: changes of tags do not touch     *)
(* updated_at and are not announced to anybody.                            *)
(***************************************************************************)
EXTENDS Integers

CONSTANTS
    Articles,
    Writers,        \* requests that create or update an article
    MaxLag,         \* longest time from `now` to the commit of a request:
                    \* the pool's acquire timeout and the busy timeout
    Overlap,        \* how far before its mark the client asks
    MaxTime,        \* bound: the clock stops here
    MaxVersion,     \* bound: commits per article
    SetBacks,       \* may the clock be set back?
    None, Gone

ASSUME TimesAssumption ==
    /\ {MaxLag, Overlap, MaxTime, MaxVersion} \subseteq Nat /\ MaxVersion # 0
    /\ SetBacks \in BOOLEAN

VARIABLES
    now,        \* the server's clock, in seconds
    rows,       \* the committed articles
    job,        \* what each request is about to write
    batch,      \* the stamps of what an open reload has updated, or None
    mark,       \* the client's mark
    copy,       \* the version of each article the client has
    wasSetBack, \* history: has the clock been set back?
    refused     \* history: has the CHECK on updated_at refused a write?

vars == <<now, rows, job, batch, mark, copy, wasSetBack, refused>>

Times == 0..MaxTime

Row == [created : Times, updated : Times, version : 1..MaxVersion, by : {"request", "reload"}]

Job == [op : {"create", "update"}, article : Articles, stamp : Times]

ASSUME DistinctAssumption ==
    /\ None # Gone /\ None \notin Times
    /\ None \notin Row /\ Gone \notin Row
    /\ None \notin Job /\ None \notin [Articles -> Times \cup {None}]

Live(a) == rows[a] \in Row

TypeOK ==
    /\ now \in Times
    /\ rows \in [Articles -> Row \cup {None, Gone}]
    /\ job \in [Writers -> Job \cup {None}]
    /\ batch \in [Articles -> Times \cup {None}] \cup {None}
    /\ mark \in Times
    /\ copy \in [Articles -> 0..MaxVersion]
    /\ wasSetBack \in BOOLEAN /\ refused \in BOOLEAN

-----------------------------------------------------------------------------
(* Requests *)

\* post_entries and do_add read the clock once the page has been fetched,
\* patch_entry before anything else, the forms of the web UI in
\* UpdateEntry::default.  patch_entry does not look the article up first: that it
\* is there assumes that clients PATCH only ids they were told of.
Stamp(w, op, a) ==
    /\ job[w] = None
    /\ IF op = "create"
       THEN rows[a] = None /\ \A v \in Writers : job[v] # None => job[v].article # a
       ELSE Live(a)
    /\ job' = [job EXCEPT ![w] = [op |-> op, article |-> a, stamp |-> now]]
    /\ UNCHANGED <<now, rows, batch, mark, copy, wasSetBack, refused>>

\* A request that gets the lock, which no reload holds, and commits in time.
Writing(w, op) ==
    /\ job[w] # None
    /\ job[w].op = op
    /\ batch = None
    /\ now - job[w].stamp <= MaxLag
    /\ job' = [job EXCEPT ![w] = None]
    /\ UNCHANGED <<now, batch, mark, copy, wasSetBack>>

\* Mutant: created_at is left to the database, which reads the clock later.
InsertDated(w) ==
    /\ Writing(w, "create")
    /\ IF job[w].stamp >= now
       THEN /\ rows' = [rows EXCEPT ![job[w].article] =
                    [created |-> now, updated |-> job[w].stamp, version |-> 1, by |-> "request"]]
            /\ UNCHANGED refused
       ELSE refused' = TRUE /\ UNCHANGED rows

\* CreateEntry has one `now` for both columns.
Insert(w) ==
    /\ Writing(w, "create")
    /\ rows' = [rows EXCEPT ![job[w].article] =
                    [created |-> job[w].stamp, updated |-> job[w].stamp,
                     version |-> 1, by |-> "request"]]
    /\ UNCHANGED refused

\* Mutant: updated_at is set only by the updates that name it.
UpdateUndated(w) ==
    /\ Writing(w, "update")
    /\ LET a == job[w].article
       IN  /\ Live(a)
           /\ rows[a].version < MaxVersion
           /\ rows' = [rows EXCEPT ![a].version = @ + 1, ![a].by = "request"]
           /\ UNCHANGED refused

\* UPDATE sets updated_at whatever else it sets, unless the constraint
\* updated_at >= created_at refuses it.
Update(w) ==
    /\ Writing(w, "update")
    /\ LET a == job[w].article
       IN  /\ Live(a)
           /\ rows[a].version < MaxVersion
           /\ IF job[w].stamp >= rows[a].created
              THEN /\ rows' = [rows EXCEPT ![a].updated = job[w].stamp,
                                           ![a].version = @ + 1, ![a].by = "request"]
                   /\ UNCHANGED refused
              ELSE refused' = TRUE /\ UNCHANGED rows

\* 404, a timeout, a lost connection.
GiveUp(w) ==
    /\ job[w] # None
    /\ job' = [job EXCEPT ![w] = None]
    /\ UNCHANGED <<now, rows, batch, mark, copy, wasSetBack, refused>>

Delete(a) ==
    /\ Live(a) /\ batch = None
    /\ rows' = [rows EXCEPT ![a] = Gone]
    /\ UNCHANGED <<now, job, batch, mark, copy, wasSetBack, refused>>

-----------------------------------------------------------------------------
(* articlerctl reload-articles, from its first UPDATE on *)

\* UpdateEntry::default reads the clock for each article.
ReloadOne(a) ==
    /\ Live(a) /\ rows[a].version < MaxVersion
    /\ LET stamps == IF batch = None THEN [b \in Articles |-> None] ELSE batch
       IN  /\ stamps[a] = None
           /\ IF now >= rows[a].created
              THEN batch' = [stamps EXCEPT ![a] = now] /\ UNCHANGED refused
              ELSE batch' = None /\ refused' = TRUE
    /\ UNCHANGED <<now, rows, job, mark, copy, wasSetBack>>

ReloadCommit ==
    /\ batch # None
    /\ rows' = [a \in Articles |->
                    IF batch[a] = None THEN rows[a]
                    ELSE [rows[a] EXCEPT !.updated = batch[a], !.version = @ + 1, !.by = "reload"]]
    /\ batch' = None
    /\ UNCHANGED <<now, job, mark, copy, wasSetBack, refused>>

ReloadFails ==
    /\ batch # None
    /\ batch' = None
    /\ UNCHANGED <<now, rows, job, mark, copy, wasSetBack, refused>>

-----------------------------------------------------------------------------
(* The client *)

\* Mutant: what was created since the mark.
ListedCreated == {a \in Articles : Live(a) /\ rows[a].created > mark - Overlap}

\* GET /api/entries?since=...: strictly after.
Listed == {a \in Articles : Live(a) /\ rows[a].updated > mark - Overlap}

\* The client takes what is listed and sets its mark: to the time of asking or
\* to the latest update it was told of.
Pull ==
    /\ copy' = [a \in Articles |-> IF a \in Listed THEN rows[a].version ELSE copy[a]]
    /\ \/ mark' = now
       \/ /\ mark' \in {rows[a].updated : a \in Listed}
          /\ \A a \in Listed : rows[a].updated <= mark'
    /\ UNCHANGED <<now, rows, job, batch, wasSetBack, refused>>

-----------------------------------------------------------------------------
Tick ==
    /\ now < MaxTime
    /\ now' = now + 1
    /\ UNCHANGED <<rows, job, batch, mark, copy, wasSetBack, refused>>

\* Somebody corrects the clock of the host.
SetBack ==
    /\ SetBacks
    /\ now' \in 0..(now - 1)
    /\ wasSetBack' = TRUE
    /\ UNCHANGED <<rows, job, batch, mark, copy, refused>>

Init ==
    /\ now = 0
    /\ rows = [a \in Articles |-> None]
    /\ job = [w \in Writers |-> None]
    /\ batch = None
    /\ mark = 0
    /\ copy = [a \in Articles |-> 0]
    /\ wasSetBack = FALSE
    /\ refused = FALSE

Next ==
    \/ \E w \in Writers :
        \/ Insert(w) \/ Update(w) \/ GiveUp(w)
        \/ \E op \in {"create", "update"}, a \in Articles : Stamp(w, op, a)
    \/ \E a \in Articles : Delete(a) \/ ReloadOne(a)
    \/ ReloadCommit \/ ReloadFails
    \/ Pull \/ Tick \/ SetBack

Spec == Init /\ [][Next]_vars

\* The client keeps asking.  Nothing is assumed of those who write.
FairSpec == Spec /\ WF_vars(Pull)

-----------------------------------------------------------------------------
(* Properties *)

Current(a) == copy[a] = rows[a].version

\* A client that asks for more than MaxLag before its mark misses no commit of
\* a request, in whatever order the requests read the clock and got the lock:
\* what it does not have is still to be listed.  Only a reload, which commits
\* minutes after it stamped, can slip behind the mark.
OnlyReloadsAreMissed ==
    (Overlap > MaxLag /\ ~wasSetBack) =>
        \A a \in Articles : Live(a) =>
            Current(a) \/ a \in Listed \/ rows[a].by = "reload"

\* Each version a request commits reaches the client, or is overtaken, as long
\* as nobody sets the clock back.
RequestsAreDelivered ==
    \A a \in Articles, v \in 1..MaxVersion :
        (Live(a) /\ rows[a].version = v /\ rows[a].by = "request")
            ~> (copy[a] >= v \/ ~Live(a) \/ rows[a].version > v \/ wasSetBack)

\* The constraint updated_at >= created_at refuses an update only after the
\* clock was set back: whoever updates an article has read the clock later
\* than whoever created it, although both read it before they waited.
RefusedOnlyAfterSetBack == refused => wasSetBack
=============================================================================
