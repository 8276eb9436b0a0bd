----------------------------- MODULE SyncProofs -----------------------------
(***************************************************************************)
(* The properties of Sync for any articles and writers, any lag and any    *)
(* margin greater than it.                                                 *)
(*                                                                         *)
(* While the clock is not set back, all that was read from it lies behind  *)
(* it: the stamps of rows, of requests that wait and of an open reload,    *)
(* and the client's mark.  A request that commits in time therefore stamps *)
(* less than MaxLag behind the mark, where the client still looks.  And an *)
(* update is prepared for an article that is already there, so its stamp   *)
(* is not older than the article.                                          *)
(***************************************************************************)
EXTENDS Sync, TLAPS

\* Who prepares an article prepares one that does not exist, alone; who updates
\* one has seen it.
JobInv == \A w \in Writers : job[w] # None =>
    IF job[w].op = "create"
    THEN /\ rows[job[w].article] = None
         /\ \A v \in Writers : job[v] # None /\ job[v].article = job[w].article => v = w
    ELSE rows[job[w].article] # None

\* What an open reload has updated is there, may be updated and is not newer
\* than its stamp: the reload holds the write lock.
BatchInv == batch # None =>
    \A a \in Articles : batch[a] # None =>
        Live(a) /\ rows[a].version < MaxVersion /\ rows[a].created <= batch[a]

\* CHECK (updated_at >= created_at) (20250619114630_init.up.sql:41).
UpdatedAfterCreated == \A a \in Articles : Live(a) => rows[a].created <= rows[a].updated

\* A client has no version of an article that was not committed.
CopyWasCommitted == \A a \in Articles :
    /\ rows[a] = None => copy[a] = 0
    /\ Live(a) => copy[a] <= rows[a].version

\* What was read from the clock lies behind it.
ClockInv ==
    /\ mark <= now
    /\ \A a \in Articles : Live(a) => rows[a].updated <= now
    /\ \A w \in Writers : job[w] # None => job[w].stamp <= now
    /\ batch # None => \A a \in Articles : batch[a] # None => batch[a] <= now

\* Who updates an article read the clock after who created it.
StampInv == \A w \in Writers :
    job[w] # None /\ Live(job[w].article) => rows[job[w].article].created <= job[w].stamp

TableInv == TypeOK /\ JobInv /\ BatchInv /\ UpdatedAfterCreated /\ CopyWasCommitted

IInv ==
    /\ TableInv
    /\ ~wasSetBack => ClockInv /\ StampInv
    /\ RefusedOnlyAfterSetBack
    /\ OnlyReloadsAreMissed

-----------------------------------------------------------------------------
(* The tables, whatever the clock does.                                    *)

LEMMA Bounds ==
    /\ MaxLag \in Nat /\ Overlap \in Nat /\ MaxTime \in Nat
    /\ MaxVersion \in Nat /\ MaxVersion >= 1
  BY TimesAssumption

\* What an update makes of a row.
Updated(r, stamp, version, who) ==
    [r EXCEPT !.updated = stamp, !.version = version, !.by = who]

LEMMA UpdatedRow ==
    ASSUME NEW r \in Row, NEW stamp \in Times, NEW version \in 1..MaxVersion,
           NEW who \in {"request", "reload"}
    PROVE  /\ Updated(r, stamp, version, who) \in Row
           /\ Updated(r, stamp, version, who).created = r.created
           /\ Updated(r, stamp, version, who).updated = stamp
           /\ Updated(r, stamp, version, who).version = version
           /\ Updated(r, stamp, version, who).by = who
  BY DEF Row, Updated

\* A row is a row, and nothing else is one.
LEMMA RowFields ==
    \A a \in Articles : TypeOK /\ Live(a) =>
        /\ rows[a].created \in Times /\ rows[a].updated \in Times
        /\ rows[a].version \in 1..MaxVersion
        /\ rows[a] # None /\ rows[a] # Gone
        /\ Times \subseteq Int
  BY DistinctAssumption, Bounds DEF Live, Row, TypeOK, Times

\* The empty database and the idle client.
LEMMA InitInv == Init => IInv
<1> SUFFICES ASSUME Init PROVE IInv
  OBVIOUS
<1>1. TypeOK
  <2>1. now \in Times /\ mark \in Times /\ copy \in [Articles -> 0..MaxVersion]
    BY Bounds DEF Init, Times
  <2> QED
    BY <2>1 DEF Init, TypeOK
<1>2. \A a \in Articles : ~Live(a)
  BY DistinctAssumption DEF Init, Live
<1>3. TableInv
  BY <1>1, <1>2 DEF Init, TableInv, JobInv, BatchInv, UpdatedAfterCreated, CopyWasCommitted
<1>4. ClockInv /\ StampInv
  BY <1>2 DEF Init, ClockInv, StampInv
<1> QED
  BY <1>2, <1>3, <1>4 DEF Init, IInv, RefusedOnlyAfterSetBack, OnlyReloadsAreMissed

\* What a request that gets the lock writes.
LEMMA InsertTable ==
    ASSUME TableInv, NEW w \in Writers, Insert(w)
    PROVE  TableInv'
<1> DEFINE a == job[w].article
           new == [created |-> job[w].stamp, updated |-> job[w].stamp,
                   version |-> 1, by |-> "request"]
<1>1. /\ job[w] \in Job /\ job[w].op = "create" /\ a \in Articles
      /\ rows[a] = None /\ copy[a] = 0
      /\ rows' = [rows EXCEPT ![a] = new] /\ job' = [job EXCEPT ![w] = None]
      /\ batch = None /\ UNCHANGED <<now, batch, mark, copy, wasSetBack, refused>>
  BY DEF TableInv, TypeOK, JobInv, CopyWasCommitted, Insert, Writing, Job
<1>2. new \in Row
  BY <1>1, Bounds DEF Job, Row
<1>3. TypeOK'
  BY <1>1, <1>2 DEF TableInv, TypeOK
<1>4. JobInv'
  BY <1>1, <1>2, DistinctAssumption DEF TableInv, TypeOK, JobInv, Job
<1>5. BatchInv'
  BY <1>1 DEF BatchInv
<1>6. UpdatedAfterCreated' /\ CopyWasCommitted'
  BY <1>1, <1>2, DistinctAssumption, Bounds
     DEF TableInv, TypeOK, UpdatedAfterCreated, CopyWasCommitted, Live, Job, Times
<1> QED
  BY <1>3, <1>4, <1>5, <1>6 DEF TableInv

LEMMA UpdateTable ==
    ASSUME TableInv, NEW w \in Writers, Update(w)
    PROVE  TableInv'
<1> DEFINE a == job[w].article
           new == Updated(rows[a], job[w].stamp, rows[a].version + 1, "request")
<1>1. /\ job[w] \in Job /\ a \in Articles /\ Live(a) /\ rows[a].version < MaxVersion
      /\ \/ rows' = rows
         \/ job[w].stamp >= rows[a].created /\ rows' = [rows EXCEPT ![a] = new]
      /\ job' = [job EXCEPT ![w] = None] /\ refused' \in BOOLEAN
      /\ batch = None /\ UNCHANGED <<now, batch, mark, copy, wasSetBack>>
  BY DEF TableInv, TypeOK, Update, Writing, Job, Updated
<1>2. new \in Row /\ new.created = rows[a].created /\ new.updated = job[w].stamp
      /\ new.version = rows[a].version + 1 /\ rows[a].version \in Nat
  <2>1. /\ rows[a].version \in Nat /\ rows[a].version + 1 \in 1..MaxVersion
        /\ rows[a] \in Row /\ job[w].stamp \in Times
    BY <1>1, Bounds DEF Live, Job, Row
  <2> QED
    BY <2>1, UpdatedRow
<1> HIDE DEF new
<1>3. TypeOK'
  BY <1>1, <1>2 DEF TableInv, TypeOK
<1>4. JobInv'
  BY <1>1, <1>2, DistinctAssumption DEF TableInv, TypeOK, JobInv, Job
<1>5. BatchInv'
  BY <1>1 DEF BatchInv
<1>6. UpdatedAfterCreated' /\ CopyWasCommitted'
  BY <1>1, <1>2, DistinctAssumption, Bounds
     DEF TableInv, TypeOK, UpdatedAfterCreated, CopyWasCommitted, Live, Job, Times
<1> QED
  BY <1>3, <1>4, <1>5, <1>6 DEF TableInv

\* A request is prepared or given up.
LEMMA StampTable ==
    ASSUME TableInv, NEW w \in Writers,
           \/ GiveUp(w)
           \/ \E op \in {"create", "update"}, a \in Articles : Stamp(w, op, a)
    PROVE  TableInv'
<1>1. /\ \/ job' = [job EXCEPT ![w] = None]
         \/ \E op \in {"create", "update"}, a \in Articles :
              /\ job[w] = None
              /\ IF op = "create"
                 THEN rows[a] = None /\ \A v \in Writers : job[v] # None => job[v].article # a
                 ELSE Live(a)
              /\ job' = [job EXCEPT ![w] = [op |-> op, article |-> a, stamp |-> now]]
      /\ UNCHANGED <<now, rows, batch, mark, copy, wasSetBack, refused>>
  BY DEF GiveUp, Stamp
<1>2. job' \in [Writers -> Job \cup {None}]
  BY <1>1 DEF TableInv, TypeOK, Job
<1>3. TypeOK'
  BY <1>1, <1>2 DEF TableInv, TypeOK
<1>4. JobInv'
  BY <1>1, DistinctAssumption DEF TableInv, TypeOK, JobInv, Live
<1> QED
  BY <1>1, <1>3, <1>4
     DEF TableInv, BatchInv, UpdatedAfterCreated, CopyWasCommitted, Live

LEMMA DeleteTable ==
    ASSUME TableInv, NEW a \in Articles, Delete(a)
    PROVE  TableInv'
<1>1. TypeOK' /\ BatchInv' /\ UpdatedAfterCreated' /\ CopyWasCommitted'
  BY DistinctAssumption
     DEF Delete, TableInv, TypeOK, BatchInv, UpdatedAfterCreated, CopyWasCommitted, Live
<1>2. JobInv'
  BY DistinctAssumption DEF Delete, TableInv, TypeOK, JobInv, Live, Job
<1> QED
  BY <1>1, <1>2 DEF TableInv

\* The reload stamps articles and commits them, or gives up.
LEMMA ReloadTable ==
    ASSUME TableInv, (\E a \in Articles : ReloadOne(a)) \/ ReloadFails
    PROVE  TableInv'
<1>1. ASSUME NEW a \in Articles, ReloadOne(a) PROVE TypeOK' /\ BatchInv'
  <2> DEFINE stamps == IF batch = None THEN [b \in Articles |-> None] ELSE batch
  <2>1. /\ Live(a) /\ rows[a].version < MaxVersion /\ UNCHANGED <<rows>>
        /\ \/ rows[a].created <= now /\ batch' = [stamps EXCEPT ![a] = now]
           \/ batch' = None
    BY <1>1 DEF ReloadOne
  <2>2. stamps \in [Articles -> Times \cup {None}]
    BY DEF TableInv, TypeOK
  <2>3. \A b \in Articles : stamps[b] # None =>
          Live(b) /\ rows[b].version < MaxVersion /\ rows[b].created <= stamps[b]
    BY DEF TableInv, BatchInv
  <2> HIDE DEF stamps
  <2>4. TypeOK'
    BY <1>1, <2>1, <2>2 DEF ReloadOne, TableInv, TypeOK
  <2>5. BatchInv'
    BY <2>1, <2>2, <2>3 DEF BatchInv, Live
  <2> QED
    BY <2>4, <2>5
<1>2. CASE ReloadFails
  BY <1>2 DEF ReloadFails, TableInv, TypeOK, JobInv, BatchInv, UpdatedAfterCreated,
              CopyWasCommitted, Live
<1>3. ASSUME NEW a \in Articles, ReloadOne(a)
      PROVE  JobInv' /\ UpdatedAfterCreated' /\ CopyWasCommitted'
  BY <1>3 DEF ReloadOne, TableInv, JobInv, UpdatedAfterCreated, CopyWasCommitted, Live
<1> QED
  BY <1>1, <1>2, <1>3 DEF TableInv

\* The row a commit of the reload leaves.
Reloaded(a) == Updated(rows[a], batch[a], rows[a].version + 1, "reload")

LEMMA ReloadedRow ==
    ASSUME TableInv, batch # None, NEW a \in Articles, batch[a] # None
    PROVE  /\ Live(a) /\ Reloaded(a) \in Row /\ rows[a].version \in Nat
           /\ Reloaded(a).created = rows[a].created /\ Reloaded(a).updated = batch[a]
           /\ Reloaded(a).version = rows[a].version + 1 /\ Reloaded(a).by = "reload"
           /\ rows[a].created <= batch[a]
<1>1. /\ rows[a] \in Row /\ rows[a].version < MaxVersion /\ rows[a].created <= batch[a]
      /\ batch[a] \in Times
  BY DEF TableInv, BatchInv, TypeOK, Live
<1>2. rows[a].version \in Nat /\ rows[a].version + 1 \in 1..MaxVersion
  BY <1>1, Bounds DEF Row
<1> QED
  BY <1>1, <1>2, UpdatedRow DEF Reloaded, Live

LEMMA CommitTable == ASSUME TableInv, ReloadCommit PROVE TableInv'
<1>1. /\ batch # None /\ batch' = None
      /\ rows' = [a \in Articles |-> IF batch[a] = None THEN rows[a] ELSE Reloaded(a)]
      /\ UNCHANGED <<now, job, mark, copy, wasSetBack, refused>>
  BY DEF ReloadCommit, Reloaded, Updated
<1>2. TypeOK'
  BY <1>1, ReloadedRow DEF TableInv, TypeOK
<1>3. JobInv'
  BY <1>1, ReloadedRow, DistinctAssumption DEF TableInv, TypeOK, JobInv, Live, Job
<1>4. BatchInv'
  BY <1>1 DEF BatchInv
<1>5. UpdatedAfterCreated'
  BY <1>1, ReloadedRow DEF TableInv, UpdatedAfterCreated, Live
<1>6. CopyWasCommitted'
  <2> SUFFICES ASSUME NEW a \in Articles
               PROVE (rows'[a] = None => copy[a] = 0) /\ (Live(a)' => copy[a] <= rows'[a].version)
    BY <1>1 DEF CopyWasCommitted
  <2>1. CASE batch[a] = None
    BY <1>1, <2>1 DEF TableInv, CopyWasCommitted, Live
  <2>2. CASE batch[a] # None
    <3>1. rows'[a] = Reloaded(a) /\ copy[a] \in Nat /\ copy[a] <= rows[a].version
      BY <1>1, <2>2, ReloadedRow DEF TableInv, TypeOK, CopyWasCommitted
    <3> QED
      BY <1>1, <2>2, <3>1, ReloadedRow, DistinctAssumption
  <2> QED
    BY <2>1, <2>2
<1> QED
  BY <1>2, <1>3, <1>4, <1>5, <1>6 DEF TableInv

\* The client and the clock touch no article.
LEMMA QuietTable ==
    ASSUME TableInv, Pull \/ Tick \/ SetBack \/ UNCHANGED vars
    PROVE  TableInv'
<1>1. CASE Pull
  <2>1. /\ mark' \in Times /\ UNCHANGED <<now, rows, job, batch, wasSetBack, refused>>
        /\ copy' = [a \in Articles |-> IF a \in Listed THEN rows[a].version ELSE copy[a]]
    BY <1>1, RowFields DEF Pull, Listed, TableInv, TypeOK
  <2>2. copy' \in [Articles -> 0..MaxVersion]
    <3>1. \A a \in Articles : a \in Listed => rows[a].version \in 0..MaxVersion
      BY RowFields, Bounds DEF Listed, TableInv
    <3> QED
      BY <2>1, <3>1 DEF TableInv, TypeOK
  <2>3. CopyWasCommitted'
    <3>1. \A a \in Articles : a \in Listed => Live(a) /\ rows[a].version \in Int
      BY RowFields DEF Listed, TableInv
    <3>2. \A a \in Articles : Live(a) => rows[a] # None
      BY RowFields DEF TableInv
    <3> QED
      BY <2>1, <3>1, <3>2 DEF TableInv, CopyWasCommitted, Live
  <2> QED
    BY <2>1, <2>2, <2>3
       DEF TableInv, TypeOK, JobInv, BatchInv, UpdatedAfterCreated, Live
<1>2. CASE Tick \/ SetBack \/ UNCHANGED vars
  <2>1. UNCHANGED <<rows, job, batch, mark, copy, refused>>
    BY <1>2 DEF Tick, SetBack, vars
  <2>2. now' \in Times
    BY <1>2, Bounds DEF Tick, SetBack, vars, TableInv, TypeOK, Times
  <2>3. wasSetBack' \in BOOLEAN
    BY <1>2 DEF Tick, SetBack, vars, TableInv, TypeOK
  <2> QED
    BY <2>1, <2>2, <2>3 DEF TableInv, TypeOK, JobInv, BatchInv, UpdatedAfterCreated, CopyWasCommitted, Live
<1> QED
  BY <1>1, <1>2

LEMMA TableStep == TableInv /\ [Next]_vars => TableInv'
  BY InsertTable, UpdateTable, StampTable, DeleteTable, ReloadTable, CommitTable, QuietTable
     DEF Next

-----------------------------------------------------------------------------
(* The clock, while nobody sets it back.                                   *)

\* Who looks back at a clock that was never set back has seen no SetBack.
LEMMA NotSetBack ==
    [Next]_vars /\ ~wasSetBack' => ~SetBack /\ wasSetBack' = wasSetBack
<1>1. SetBack => wasSetBack'
  BY DEF SetBack
<1>2. [Next]_vars /\ ~SetBack => wasSetBack' = wasSetBack
  BY DEF Next, vars, Insert, Update, Writing, GiveUp, Stamp, Delete, ReloadOne,
         ReloadCommit, ReloadFails, Pull, Tick
<1> QED
  BY <1>1, <1>2

\* Nothing is stamped ahead of a clock that goes forward.
LEMMA ClockStep ==
    ASSUME TableInv, TableInv', ClockInv, StampInv, [Next]_vars, ~wasSetBack'
    PROVE  ClockInv' /\ StampInv' /\ ~wasSetBack /\ now <= now'
<1>1. now \in Int /\ mark \in Int
  BY Bounds DEF TableInv, TypeOK, Times
<1>2. ~SetBack /\ wasSetBack' = wasSetBack
  BY NotSetBack
<1>3. now' = now \/ now' = now + 1
  BY <1>2 DEF Next, vars, Insert, Update, Writing, GiveUp, Stamp, Delete, ReloadOne,
               ReloadCommit, ReloadFails, Pull, Tick
<1> SUFFICES ClockInv' /\ StampInv'
  BY <1>1, <1>2, <1>3
<1>4. ASSUME NEW w \in Writers, Insert(w) PROVE ClockInv' /\ StampInv'
  <2> DEFINE a == job[w].article
             new == [created |-> job[w].stamp, updated |-> job[w].stamp,
                     version |-> 1, by |-> "request"]
  <2>1. /\ job[w] \in Job /\ a \in Articles /\ job[w].op = "create" /\ rows[a] = None
        /\ rows' = [rows EXCEPT ![a] = new] /\ job' = [job EXCEPT ![w] = None]
        /\ batch = None /\ UNCHANGED <<now, batch, mark>>
        /\ job[w].stamp <= now /\ job[w] # None
    BY <1>4 DEF TableInv, TypeOK, JobInv, Insert, Writing, Job, ClockInv
  <2>2. ClockInv'
    BY <1>1, <2>1, DistinctAssumption DEF ClockInv, Live, TableInv, TypeOK
  <2>3. ASSUME NEW v \in Writers, job'[v] # None PROVE job'[v].article # a
    BY <2>1, <2>3, DistinctAssumption DEF TableInv, TypeOK, JobInv, Job
  <2>4. StampInv'
    BY <2>1, <2>3, DistinctAssumption DEF StampInv, Live, TableInv, TypeOK
  <2> QED
    BY <2>2, <2>4
<1>5. ASSUME NEW w \in Writers, Update(w) PROVE ClockInv' /\ StampInv'
  <2> DEFINE a == job[w].article
             new == Updated(rows[a], job[w].stamp, rows[a].version + 1, "request")
  <2>1. /\ job[w] \in Job /\ a \in Articles /\ Live(a) /\ rows[a].version < MaxVersion
        /\ rows' = rows \/ rows' = [rows EXCEPT ![a] = new]
        /\ job' = [job EXCEPT ![w] = None]
        /\ batch = None /\ UNCHANGED <<now, batch, mark>>
        /\ job[w].stamp <= now /\ job[w].stamp \in Times
    BY <1>5 DEF TableInv, TypeOK, Update, Writing, Job, ClockInv, Updated
  <2>2. /\ rows[a].version + 1 \in 1..MaxVersion /\ rows[a] \in Row
    BY <2>1, Bounds DEF Live, Row
  <2>3. new \in Row /\ new.created = rows[a].created /\ new.updated = job[w].stamp
    BY <2>1, <2>2, UpdatedRow
  <2> HIDE DEF new
  <2> QED
    BY <1>1, <2>1, <2>3, DistinctAssumption
       DEF ClockInv, StampInv, Live, TableInv, TypeOK, Job
<1>6. ASSUME NEW w \in Writers, GiveUp(w) PROVE ClockInv' /\ StampInv'
  BY <1>6 DEF GiveUp, ClockInv, StampInv, Live, TableInv, TypeOK
<1>7. ASSUME NEW w \in Writers, NEW op \in {"create", "update"}, NEW a \in Articles,
             Stamp(w, op, a)
      PROVE  ClockInv' /\ StampInv'
  <2>1. /\ job' = [job EXCEPT ![w] = [op |-> op, article |-> a, stamp |-> now]]
        /\ UNCHANGED <<now, rows, batch, mark>>
    BY <1>7 DEF Stamp
  <2>2. ClockInv'
    BY <1>1, <2>1 DEF ClockInv, Live, TableInv, TypeOK
  <2>3. Live(a) => rows[a].created <= now
    <3> SUFFICES ASSUME Live(a) PROVE rows[a].created <= now
      OBVIOUS
    <3>1. rows[a].created <= rows[a].updated /\ rows[a].updated <= now
      BY DEF TableInv, UpdatedAfterCreated, ClockInv
    <3> QED
      BY <1>1, <3>1, RowFields DEF TableInv
  <2>4. StampInv'
    BY <2>1, <2>3 DEF StampInv, Live, TableInv, TypeOK
  <2> QED
    BY <2>2, <2>4
<1>8. ASSUME NEW a \in Articles, Delete(a) PROVE ClockInv' /\ StampInv'
  BY <1>8, DistinctAssumption DEF Delete, ClockInv, StampInv, Live, TableInv, TypeOK, Job
<1>9. ASSUME NEW a \in Articles, ReloadOne(a) PROVE ClockInv' /\ StampInv'
  <2>1. StampInv'
    BY <1>9 DEF ReloadOne, StampInv, Live
  <2>2. ClockInv'
    BY <1>1, <1>9 DEF ReloadOne, ClockInv, Live, TableInv, TypeOK
  <2> QED
    BY <2>1, <2>2
<1>10. CASE ReloadCommit
  <2>1. /\ batch # None /\ batch' = None /\ UNCHANGED <<now, job, mark>>
        /\ rows' = [a \in Articles |-> IF batch[a] = None THEN rows[a] ELSE Reloaded(a)]
    BY <1>10 DEF ReloadCommit, Reloaded, Updated
  <2>2. ASSUME NEW a \in Articles, Live(a)'
        PROVE  Live(a) /\ rows'[a].updated <= now /\ rows'[a].created = rows[a].created
    <3>1. CASE batch[a] = None
      BY <2>1, <2>2, <3>1 DEF Live, ClockInv
    <3>2. CASE batch[a] # None
      BY <2>1, <3>2, ReloadedRow DEF ClockInv
    <3> QED
      BY <3>1, <3>2
  <2>3. \A w \in Writers : job[w] # None => job[w].article \in Articles
    BY DEF TableInv, TypeOK, Job
  <2> QED
    BY <2>1, <2>2, <2>3 DEF ClockInv, StampInv
<1>11. CASE ReloadFails
  BY <1>11 DEF ReloadFails, ClockInv, StampInv, Live
<1>12. CASE Pull
  <2>1. mark' <= now
    BY <1>1, <1>12 DEF Pull, ClockInv, Listed
  <2> QED
    BY <1>12, <2>1 DEF Pull, ClockInv, StampInv, Live
<1>13. CASE Tick
  <2>1. \A t \in Times : t <= now => t <= now + 1
    BY <1>1, Bounds DEF Times
  <2>2. \A a \in Articles : Live(a) => rows[a].updated \in Times
    BY RowFields DEF TableInv
  <2>3. \A w \in Writers : job[w] # None => job[w].stamp \in Times
    BY DEF TableInv, TypeOK, Job
  <2>4. batch # None => \A a \in Articles : batch[a] # None => batch[a] \in Times
    BY DEF TableInv, TypeOK
  <2> QED
    BY <1>13, <2>1, <2>2, <2>3, <2>4 DEF Tick, ClockInv, StampInv, Live, TableInv, TypeOK
<1>14. CASE UNCHANGED vars
  BY <1>14 DEF vars, ClockInv, StampInv, Live
<1> QED
  BY <1>2, <1>4, <1>5, <1>6, <1>7, <1>8, <1>9, <1>10, <1>11, <1>12, <1>13, <1>14 DEF Next

\* An update is refused only if its stamp is older than the article.
LEMMA RefusedStep ==
    ASSUME IInv, [Next]_vars
    PROVE  RefusedOnlyAfterSetBack'
<1> SUFFICES ASSUME refused', ~refused, ~wasSetBack PROVE FALSE
  BY DEF IInv, RefusedOnlyAfterSetBack, Next, vars, Insert, Update, Writing, GiveUp, Stamp,
         Delete, ReloadOne, ReloadCommit, ReloadFails, Pull, Tick, SetBack
<1>1. ClockInv /\ StampInv /\ TableInv
  BY DEF IInv
<1>2. \/ \E w \in Writers : Update(w)
      \/ \E a \in Articles : ReloadOne(a)
  BY DEF Next, vars, Insert, Writing, GiveUp, Stamp, Delete, ReloadCommit, ReloadFails,
         Pull, Tick, SetBack
<1>3. ASSUME NEW w \in Writers, Update(w) PROVE FALSE
  <2> DEFINE a == job[w].article
  <2>1. job[w] \in Job /\ job[w] # None /\ a \in Articles /\ Live(a)
        /\ ~(job[w].stamp >= rows[a].created)
    BY <1>1, <1>3 DEF Update, Writing, TableInv, TypeOK, Job
  <2>2. rows[a].created <= job[w].stamp
    BY <1>1, <2>1 DEF StampInv
  <2>3. rows[a].created \in Int /\ job[w].stamp \in Int
    BY <1>1, <2>1, RowFields DEF Job, TableInv
  <2> QED
    BY <2>1, <2>2, <2>3
<1>4. ASSUME NEW a \in Articles, ReloadOne(a) PROVE FALSE
  <2>1. Live(a) /\ ~(now >= rows[a].created)
    BY <1>4 DEF ReloadOne
  <2>2. rows[a].created <= rows[a].updated /\ rows[a].updated <= now
    BY <1>1, <2>1 DEF TableInv, UpdatedAfterCreated, ClockInv
  <2>3. rows[a].created \in Int /\ rows[a].updated \in Int /\ now \in Int
    BY <1>1, <2>1, RowFields DEF TableInv, TypeOK
  <2> QED
    BY <2>1, <2>2, <2>3
<1> QED
  BY <1>2, <1>3, <1>4

-----------------------------------------------------------------------------
(* What the client misses.                                                 *)

\* What the property says of one article.
Missed(a) == Live(a) /\ ~Current(a) /\ a \notin Listed /\ rows[a].by # "reload"

LEMMA MissedStep ==
    ASSUME IInv, [Next]_vars
    PROVE  OnlyReloadsAreMissed'
<1> SUFFICES ASSUME Overlap > MaxLag, ~wasSetBack', NEW a \in Articles, Missed(a)'
             PROVE  FALSE
  BY DEF OnlyReloadsAreMissed, Missed
<1>1. TableInv /\ TableInv'
  BY TableStep DEF IInv
<1>2. ~wasSetBack /\ ClockInv
  BY NotSetBack DEF IInv
<1>3. ~Missed(a)
  BY <1>2 DEF IInv, OnlyReloadsAreMissed, Missed
<1>4. now \in Int /\ mark \in Int /\ mark' \in Int /\ mark <= now
  BY <1>1, <1>2, Bounds DEF TableInv, TypeOK, Times, ClockInv
<1>5. ASSUME rows'[a] = rows[a], mark' = mark, copy' = copy PROVE FALSE
  BY <1>3, <1>5 DEF Missed, Live, Current, Listed
\* What a request has just written is stamped where the client looks.
<1>6. ASSUME NEW w \in Writers, Insert(w) \/ Update(w) PROVE FALSE
  <2> DEFINE stamp == job[w].stamp
  <2>1. /\ job[w] \in Job /\ stamp \in Int /\ now - stamp <= MaxLag
        /\ UNCHANGED <<mark, copy>>
    BY <1>1, <1>6, Bounds DEF TableInv, TypeOK, Insert, Update, Writing, Job, Times
  <2>2. stamp > mark - Overlap
    BY <1>4, <2>1, Bounds
  <2>3. rows'[a] = rows[a] \/ rows'[a].updated = stamp
    <3>1. CASE Insert(w)
      BY <1>1, <3>1 DEF Insert, TableInv, TypeOK
    <3>2. CASE Update(w)
      <4> DEFINE b == job[w].article
      <4>1. /\ Live(b) /\ b \in Articles /\ rows[b].version < MaxVersion
            /\ \/ rows' = rows
               \/ rows' = [rows EXCEPT ![b] = Updated(rows[b], stamp, rows[b].version + 1,
                                                      "request")]
        BY <1>1, <2>1, <3>2 DEF Update, Updated, Writing, Job
      <4>2. rows[b] \in Row /\ stamp \in Times /\ rows[b].version + 1 \in 1..MaxVersion
        BY <2>1, <4>1, Bounds DEF Live, Row, Job
      <4>3. Updated(rows[b], stamp, rows[b].version + 1, "request").updated = stamp
        BY <4>2, UpdatedRow
      <4> QED
        BY <1>1, <4>1, <4>3 DEF TableInv, TypeOK
    <3> QED
      BY <1>6, <3>1, <3>2
  <2>4. rows'[a].updated > mark' - Overlap
    BY <1>5, <2>1, <2>2, <2>3
  <2> QED
    BY <2>4 DEF Missed, Listed
<1>7. ASSUME NEW w \in Writers,
             GiveUp(w) \/ \E op \in {"create", "update"}, b \in Articles : Stamp(w, op, b)
      PROVE  FALSE
  BY <1>5, <1>7 DEF GiveUp, Stamp
<1>8. ASSUME NEW b \in Articles, Delete(b) PROVE FALSE
  <2>1. a = b => rows'[a] = Gone
    BY <1>1, <1>8 DEF Delete, TableInv, TypeOK
  <2>2. a # b
    BY <2>1, DistinctAssumption DEF Missed, Live
  <2> QED
    BY <1>5, <1>8, <2>2 DEF Delete
<1>9. ASSUME NEW b \in Articles, ReloadOne(b) PROVE FALSE
  BY <1>5, <1>9 DEF ReloadOne
<1>10. CASE ReloadCommit
  <2>1. rows' = [b \in Articles |-> IF batch[b] = None THEN rows[b] ELSE Reloaded(b)]
        /\ batch # None /\ UNCHANGED <<mark, copy>>
    BY <1>10 DEF ReloadCommit, Reloaded, Updated
  <2>2. batch[a] # None => rows'[a].by = "reload"
    BY <1>1, <2>1, ReloadedRow
  <2> QED
    BY <1>5, <2>1, <2>2 DEF Missed
<1>11. CASE ReloadFails \/ Tick \/ SetBack \/ UNCHANGED vars
  BY <1>5, <1>11 DEF ReloadFails, Tick, SetBack, vars
\* What a pull does not list the client had before.
<1>12. CASE Pull
  <2>1. UNCHANGED rows /\ copy'[a] = IF a \in Listed THEN rows[a].version ELSE copy[a]
    BY <1>12 DEF Pull
  <2> QED
    BY <1>3, <2>1 DEF Missed, Live, Current
<1> QED
  BY <1>6, <1>7, <1>8, <1>9, <1>10, <1>11, <1>12 DEF Next

-----------------------------------------------------------------------------
(* Theorems.                                                               *)

LEMMA IInvAlways == Spec => []IInv
<1>1. IInv /\ [Next]_vars => IInv'
  <2> SUFFICES ASSUME IInv, [Next]_vars PROVE IInv'
    OBVIOUS
  <2>1. TableInv /\ TableInv'
    BY TableStep DEF IInv
  <2>2. ~wasSetBack' => ~wasSetBack
    BY NotSetBack
  <2>3. ~wasSetBack' => ClockInv' /\ StampInv'
    BY <2>1, <2>2, ClockStep DEF IInv
  <2> QED
    BY <2>1, <2>3, RefusedStep, MissedStep DEF IInv
<1> QED
  BY <1>1, InitInv, PTL DEF Spec

\* The variables have the shapes the schema and the requests give them.
THEOREM TypeCorrect == Spec => []TypeOK
<1>1. IInv => TypeOK
  BY DEF IInv, TableInv
<1> QED
  BY <1>1, IInvAlways, PTL

\* Every stored article satisfies CHECK (updated_at >= created_at), whatever
\* the clock does and in whatever order requests and a reload commit
\* (20250619114630_init.up.sql:41).
THEOREM CheckHolds == Spec => []UpdatedAfterCreated
<1>1. IInv => UpdatedAfterCreated
  BY DEF IInv, TableInv
<1> QED
  BY <1>1, IInvAlways, PTL

\* A client never holds a version of an article that was not committed: what a
\* reload has stamped and not committed is not listed.
THEOREM NothingUncommittedIsCopied == Spec => []CopyWasCommitted
<1>1. IInv => CopyWasCommitted
  BY DEF IInv, TableInv
<1> QED
  BY <1>1, IInvAlways, PTL

\* A margin greater than any lag is enough for a client to miss no commit of a
\* request (api/entries.rs, the filter `since`).
THEOREM MarginSuffices == Spec => []OnlyReloadsAreMissed
<1>1. IInv => OnlyReloadsAreMissed
  BY DEF IInv
<1> QED
  BY <1>1, IInvAlways, PTL

\* No update is refused by the constraint while the clock only goes forward.
THEOREM RefusalsNeedSetBack == Spec => []RefusedOnlyAfterSetBack
<1>1. IInv => RefusedOnlyAfterSetBack
  BY DEF IInv
<1> QED
  BY <1>1, IInvAlways, PTL
=============================================================================
