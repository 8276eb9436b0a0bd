------------------------- MODULE TokenStorageProofs -------------------------
(***************************************************************************)
(* Theorems about TokenStorage, for every number of clients, random        *)
(* strings and concurrent requests, all expiration times and any MaxTime;  *)
(* at the end, about the life of its collector (ServerLife).               *)
(***************************************************************************)
EXTENDS TokenStorage, ServerProcess, FiniteSetTheorems, SequenceTheorems, TLAPS

-----------------------------------------------------------------------------
(* Types.  TypeOK is not inductive: the locals of a handler must be set by *)
(* the time it uses them.                                                  *)

\* What a handler has in its locals, by where it is.
Locals ==
    \A r \in Requests :
        /\ pc[r] \in PasswordSteps \cup RefreshSteps => client[r] \in Clients
        /\ pc[r] \in RefreshSteps => presented[r] \in Tokens
        /\ pc[r] \in {"delete", "create_in_tx", "commit"} =>
               found[r] \in TokenRow
        /\ pc[r] \in {"create", "commit", "respond"} => fresh[r] \in Tokens

TypeInv == TypeOK /\ Locals

\* A request that ends, however it ends, keeps the types.
LEMMA ReleaseType ==
    ASSUME NEW r \in Requests, TypeInv, Release(r), delivered' \in SUBSET Tokens,
           session' \in SUBSET Tokens, UNCHANGED <<now, storage, environment>>
    PROVE  TypeInv'
  <1>1. TypeOK'
    BY DEF TypeInv, TypeOK, Steps, Release, storage, environment
  <1>2. Locals'
    BY DEF TypeInv, TypeOK, Locals, Release, PasswordSteps, RefreshSteps
  <1>3. QED
    BY <1>1, <1>2 DEF TypeInv

\* So does one that fails.
LEMMA FailType ==
    ASSUME NEW r \in Requests, TypeInv, Fail(r)
    PROVE  TypeInv'
  BY ReleaseType DEF Fail, answers, TypeInv, TypeOK

\* The initial state has the types.
LEMMA InitType == Init => TypeInv
  <1> SUFFICES ASSUME Init PROVE TypeInv
    OBVIOUS
  <1>1. TypeOK
    BY DEF Init, TypeOK, Steps
  <1>2. Locals
    BY DEF Init, Locals, PasswordSteps, RefreshSteps
  <1>3. QED
    BY <1>1, <1>2 DEF TypeInv

\* Every step keeps the types.
LEMMA NextType == TypeInv /\ [Next]_vars => TypeInv'
  <1> SUFFICES ASSUME TypeInv, [Next]_vars PROVE TypeInv'
    OBVIOUS
  <1> USE DEF TypeInv, TypeOK, Locals, Steps, PasswordSteps, RefreshSteps, TokenRow
  <1>1. ASSUME NEW r \in Requests, NEW c \in Clients, StartPassword(r, c)
        PROVE TypeInv'
    BY <1>1 DEF StartPassword, storage, environment, answers,
         asked, locals
  <1>2. ASSUME NEW r \in Requests, NEW c \in Clients, NEW t \in Tokens,
               StartRefresh(r, c, t)
        PROVE TypeInv'
    BY <1>2 DEF StartRefresh, storage, environment, answers,
         asked, locals
  <1>3. ASSUME NEW r \in Requests, FindUserAndClient(r) PROVE TypeInv'
    BY <1>3 DEF FindUserAndClient, storage, environment, answers,
         asked, locals
  <1>4. ASSUME NEW r \in Requests, InsertAccess(r) PROVE TypeInv'
    BY <1>4, TimesAssumption DEF InsertAccess, environment, answers, asked,
         PutAccess, AccessEntry, Unused
  <1>5. ASSUME NEW r \in Requests, CreateRow(r) PROVE TypeInv'
    BY <1>5, TimesAssumption DEF CreateRow, NewRow, OutdateSnapshots, Readers, environment,
         answers, asked, locals
  <1>6. ASSUME NEW r \in Requests, FindClient(r) PROVE TypeInv'
    BY <1>6 DEF FindClient, storage, environment, answers,
         asked, locals
  <1>7. ASSUME NEW r \in Requests, TakePurgeLock(r) PROVE TypeInv'
    BY <1>7 DEF TakePurgeLock, storage, environment, answers,
         asked, locals
  <1>8. ASSUME NEW r \in Requests, CommitPurge(r) PROVE TypeInv'
    BY <1>8 DEF CommitPurge, DeleteExpired, OutdateSnapshots, Readers, environment,
         answers, asked, locals
  <1>9. ASSUME NEW r \in Requests, Find(r) PROVE TypeInv'
    BY <1>9 DEF Find, storage, environment, answers,
         asked, locals
  <1>10. ASSUME NEW r \in Requests, Delete(r) PROVE TypeInv'
    BY <1>10 DEF Delete, storage, environment, answers,
         asked, locals
  <1>11. ASSUME NEW r \in Requests, InsertAccessAndCreate(r) PROVE TypeInv'
    BY <1>11, TimesAssumption DEF InsertAccessAndCreate, environment, answers, asked,
         PutAccess, AccessEntry, Unused
  <1>12. ASSUME NEW r \in Requests, Commit(r) PROVE TypeInv'
    BY <1>12, TimesAssumption DEF Commit, NewRow, OutdateSnapshots, Readers, environment,
         answers, asked, locals
  <1>13. ASSUME NEW r \in Requests, Respond(r) PROVE TypeInv'
    BY <1>13, ReleaseType DEF Respond
  <1>14. ASSUME NEW r \in Requests, Fail(r) PROVE TypeInv'
    BY <1>14, FailType
  <1>15. ASSUME NEW t \in Tokens, Validate(t) PROVE TypeInv'
    BY <1>15 DEF Validate, environment, answers, asked, locals
  <1>16. ASSUME NEW c \in Clients, CreateClient(c) PROVE TypeInv'
    BY <1>16 DEF CreateClient, OutdateSnapshots, Readers, storage, answers,
         asked, locals
  <1>17. ASSUME NEW c \in Clients, DeleteClient(c) PROVE TypeInv'
    BY <1>17 DEF DeleteClient, Cascade, OutdateSnapshots, Readers, answers,
         asked, locals
  <1>18. CASE Gc
    BY <1>18 DEF Gc, environment, answers, asked, locals
  <1>19. CASE ForeignBegin
    BY <1>19 DEF ForeignBegin, storage, environment, answers,
         asked, locals
  <1>20. CASE ForeignCommit
    BY <1>20 DEF ForeignCommit, OutdateSnapshots, Readers, storage, environment, answers,
         asked, locals
  <1>21. CASE Restart
    BY <1>21 DEF Restart, environment
  <1>22. CASE Tick
    BY <1>22 DEF Tick, storage, environment, answers,
         asked, locals
  <1>23. CASE UNCHANGED vars
    BY <1>23 DEF vars, asked, locals
  <1> HIDE DEF TypeInv
  <1>24. QED
    BY <1>1, <1>2, <1>3, <1>4, <1>5, <1>6, <1>7, <1>8, <1>9, <1>10, <1>11,
       <1>12, <1>13, <1>14, <1>15, <1>16, <1>17, <1>18, <1>19, <1>20, <1>21,
       <1>22, <1>23
       DEF Next, Handler, UnknownClient, CreateRefused, InvalidGrant,
           UpgradeRefused, BusyTimeout, Abort

\* Every reachable state is type correct: the columns of tokens, the entries
\* of the map and the locals of the handlers have the types of the code.
THEOREM TypeCorrect == Spec => []TypeOK
  <1>1. TypeInv => TypeOK
    BY DEF TypeInv
  <1>2. QED
    BY <1>1, InitType, NextType, PTL DEF Spec

-----------------------------------------------------------------------------
(* The inductive invariant.  The write lock is what makes an exchange      *)
(* atomic: while a request holds it, nobody else commits, so the row it    *)
(* found is still there when its own commit deletes it.                    *)

\* Exactly the transactions that have written hold the lock.
LockInv ==
    \A r \in Requests :
        pc[r] \in {"commit_purge", "create_in_tx", "commit"} <=> lock = r

\* A snapshot that is not out of date still shows the committed row.
SnapshotInv ==
    \A r \in Requests :
        (pc[r] = "delete" /\ r \notin stale) \/ pc[r] \in {"create_in_tx", "commit"}
            => rows[presented[r]] = found[r]

\* Requests between drawing their strings and storing them hold different
\* ones, drawn for the claim they will store.
FreshInv ==
    /\ \A r \in Requests :
          /\ pc[r] = "create" => minted[fresh[r]] # None
                                 /\ minted[fresh[r]].client = client[r]
          /\ pc[r] = "commit" => minted[fresh[r]] # None
                                 /\ minted[fresh[r]].client = found[r].client
          /\ pc[r] \in {"create", "commit"} => stored[fresh[r]] = None
          /\ pc[r] = "respond" => stored[fresh[r]] # None
    /\ \A q, r \in Requests :
          q # r /\ {pc[q], pc[r]} \subseteq {"create", "commit"}
              => fresh[q] # fresh[r]

\* How the tables of the history relate to the table of the database.
HistoryInv ==
    \A t \in Tokens :
        /\ stored[t] # None => minted[t] # None
        /\ stored[t] # None => minted[t].client = stored[t].client
        /\ successors[t] # {} => stored[t] # None
        /\ \A u \in successors[t] : stored[u] # None
        /\ rows[t] # None => stored[t] # None

\* A request has read the clock in the past.
ClockInv == \A r \in Requests : readAt[r] <= now

TableInv ==
    /\ TypeInv
    /\ ClockInv
    /\ LockInv
    /\ SnapshotInv
    /\ FreshInv
    /\ HistoryInv
    /\ SingleUse
    /\ RedeemableUntilSpent
    /\ RowsHaveClients
    /\ ClaimInherited

\* What a request puts in the map or in the table is an entry, not its absence.
LEMMA NewValues ==
    ASSUME NEW c \in Clients, NEW at \in Nat
    PROVE  /\ AccessEntry(c, at) \in TokenRow \ {None}
           /\ NewRow(c, at) \in TokenRow \ {None}
           /\ AccessEntry(c, at).client = c
           /\ NewRow(c, at).client = c
  <1>1. AccessEntry(c, at) \in TokenRow /\ NewRow(c, at) \in TokenRow
    BY TimesAssumption DEF AccessEntry, NewRow, TokenRow
  <1>2. None \notin TokenRow
    BY DistinctAssumption DEF TokenRow
  <1>3. QED
    BY <1>1, <1>2 DEF AccessEntry, NewRow

\* Every step keeps the invariant of the table.
LEMMA NextTable == TableInv /\ [Next]_vars => TableInv'
  <1> SUFFICES ASSUME TableInv, [Next]_vars PROVE TableInv'
    OBVIOUS
  <1>0. TypeInv /\ TypeInv'
    BY NextType DEF TableInv
  <1> USE DistinctAssumption
      DEF TableInv, TypeInv, TypeOK, Locals, Steps, PasswordSteps, RefreshSteps, TokenRow
  <1> USE DEF ClockInv, LockInv, SnapshotInv, FreshInv, HistoryInv, SingleUse,
              RedeemableUntilSpent, RowsHaveClients, ClaimInherited,
              storage, environment, answers, asked, locals
  <1>1. ASSUME NEW r \in Requests, NEW c \in Clients, StartPassword(r, c) PROVE TableInv'
    BY <1>0, <1>1 DEF StartPassword, asked
  <1>2. ASSUME NEW r \in Requests, NEW c \in Clients, NEW t \in Tokens,
               StartRefresh(r, c, t)
        PROVE  TableInv'
    BY <1>0, <1>2 DEF StartRefresh
  <1>3. ASSUME NEW r \in Requests, FindUserAndClient(r) PROVE TableInv'
    BY <1>0, <1>3 DEF FindUserAndClient
  <1>4. ASSUME NEW r \in Requests, InsertAccess(r) PROVE TableInv'
    <2>1. PICK t \in Tokens :
             /\ minted[t] = None
             /\ minted' = [minted EXCEPT ![t] = AccessEntry(client[r], now)]
             /\ fresh' = [fresh EXCEPT ![r] = t]
      BY <1>4 DEF InsertAccess, PutAccess, Unused
    <2>2. /\ ClockInv' /\ LockInv' /\ SnapshotInv' /\ HistoryInv' /\ SingleUse'
          /\ RedeemableUntilSpent' /\ RowsHaveClients' /\ ClaimInherited'
      BY <1>0, <1>4 DEF InsertAccess, PutAccess, AccessEntry, Unused
    <2>3. stored[t] = None /\ minted'[t] # None /\ minted'[t].client = client[r]
      BY <1>0, <2>1, <1>4, NewValues DEF InsertAccess
    <2>4. \A q \in Requests \ {r} :
             /\ fresh'[q] = fresh[q]
             /\ pc[q] \in {"create", "commit"} =>
                    fresh[q] # t /\ minted'[fresh[q]] = minted[fresh[q]]
      BY <1>0, <2>1
    <2>5. FreshInv'
      BY <1>0, <1>4, <2>1, <2>3, <2>4 DEF InsertAccess
    <2>6. QED
      BY <1>0, <2>2, <2>5
  <1>5. ASSUME NEW r \in Requests, CreateRow(r) PROVE TableInv'
    <2>1. /\ ClockInv' /\ LockInv' /\ SnapshotInv' /\ HistoryInv' /\ SingleUse'
          /\ RedeemableUntilSpent' /\ RowsHaveClients' /\ ClaimInherited'
      BY <1>0, <1>5 DEF CreateRow, NewRow, OutdateSnapshots, Readers
    <2>2. \A q \in Requests \ {r} :
             pc[q] \in {"create", "commit"} =>
                 fresh[q] # fresh[r] /\ stored'[fresh[q]] = stored[fresh[q]]
      BY <1>0, <1>5 DEF CreateRow
    <2>3. stored'[fresh[r]] # None
      BY <1>0, <1>5, NewValues DEF CreateRow
    <2>4. FreshInv'
      BY <1>0, <1>5, <2>2, <2>3 DEF CreateRow
    <2>5. QED
      BY <1>0, <2>1, <2>4
  <1>6. ASSUME NEW r \in Requests, FindClient(r) PROVE TableInv'
    BY <1>0, <1>6 DEF FindClient
  <1>7. ASSUME NEW r \in Requests, TakePurgeLock(r) PROVE TableInv'
    BY <1>0, <1>7 DEF TakePurgeLock
  <1>8. ASSUME NEW r \in Requests, CommitPurge(r) PROVE TableInv'
    <2>1. /\ ClockInv' /\ LockInv' /\ SnapshotInv' /\ FreshInv'
          /\ HistoryInv' /\ SingleUse' /\ RowsHaveClients' /\ ClaimInherited'
      BY <1>0, <1>8 DEF CommitPurge, DeleteExpired, OutdateSnapshots, Readers
    <2>2. \A t \in Tokens :
             \/ rows'[t] = rows[t]
             \/ rows[t] # None /\ rows'[t] = None /\ rows[t].expiresAt <= readAt[r]
      BY <1>0, <1>8 DEF CommitPurge, DeleteExpired
    <2>3. readAt[r] <= now /\ readAt[r] \in Nat /\ now \in Nat
      BY <1>0
    <2>4. \A t \in Tokens : rows[t] # None => rows[t].expiresAt \in Nat /\ rows[t] = stored[t]
      BY <1>0
    <2>5. RedeemableUntilSpent'
      BY <1>0, <1>8, <2>2, <2>3, <2>4 DEF CommitPurge
    <2>6. QED
      BY <1>0, <2>1, <2>5
  <1>9. ASSUME NEW r \in Requests, Find(r) PROVE TableInv'
    BY <1>0, <1>9 DEF Find
  <1>10. ASSUME NEW r \in Requests, Delete(r) PROVE TableInv'
    BY <1>0, <1>10 DEF Delete
  <1>11. ASSUME NEW r \in Requests, InsertAccessAndCreate(r) PROVE TableInv'
    <2>1. PICK t \in Tokens :
             /\ minted[t] = None
             /\ minted' = [minted EXCEPT ![t] = AccessEntry(found[r].client, readAt[r])]
             /\ fresh' = [fresh EXCEPT ![r] = t]
      BY <1>11 DEF InsertAccessAndCreate, PutAccess, Unused
    <2>2. /\ ClockInv' /\ LockInv' /\ SnapshotInv' /\ HistoryInv' /\ SingleUse'
          /\ RedeemableUntilSpent' /\ RowsHaveClients' /\ ClaimInherited'
      BY <1>0, <1>11 DEF InsertAccessAndCreate, PutAccess, AccessEntry, Unused
    <2>3. stored[t] = None /\ minted'[t] # None /\ minted'[t].client = found[r].client
      BY <1>0, <2>1, <1>11, NewValues DEF InsertAccessAndCreate
    <2>4. \A q \in Requests \ {r} :
             /\ fresh'[q] = fresh[q]
             /\ pc[q] \in {"create", "commit"} =>
                    fresh[q] # t /\ minted'[fresh[q]] = minted[fresh[q]]
      BY <1>0, <2>1
    <2>5. FreshInv'
      BY <1>0, <1>11, <2>1, <2>3, <2>4 DEF InsertAccessAndCreate
    <2>6. QED
      BY <1>0, <2>2, <2>5
  <1>12. ASSUME NEW r \in Requests, Commit(r) PROVE TableInv'
    <2>1. ClockInv' /\ LockInv' /\ SnapshotInv'
      BY <1>0, <1>12 DEF Commit, NewRow, OutdateSnapshots, Readers
    <2>2. SingleUse'
      BY <1>0, <1>12 DEF Commit, NewRow, OutdateSnapshots, Readers
    <2>3. RowsHaveClients'
      <3>1. /\ rows[presented[r]] = found[r] /\ found[r] \in TokenRow
            /\ NewRow(found[r].client, readAt[r]).client = found[r].client
        BY <1>0, <1>12, NewValues DEF Commit
      <3>2. found[r] # None
        BY <3>1
      <3>3. clients[found[r].client] = "live" /\ clients' = clients
        BY <1>0, <1>12, <3>1, <3>2 DEF Commit
      <3>4. \A t \in Tokens : \/ rows'[t] = None \/ rows'[t] = rows[t]
                              \/ rows'[t] = NewRow(found[r].client, readAt[r])
        BY <1>0, <1>12 DEF Commit
      <3> QED
        BY <1>0, <3>1, <3>3, <3>4
    <2>4. ClaimInherited'
      BY <1>0, <1>12 DEF Commit, NewRow, OutdateSnapshots, Readers
    <2>5. stored'[fresh[r]] # None /\ fresh[r] \in Tokens /\ presented[r] \in Tokens
      BY <1>0, <1>12, NewValues DEF Commit
    <2>6. \A q \in Requests \ {r} :
             pc[q] \in {"create", "commit"} =>
                 fresh[q] # fresh[r] /\ stored'[fresh[q]] = stored[fresh[q]]
      BY <1>0, <1>12 DEF Commit
    <2>7. FreshInv'
      BY <1>0, <1>12, <2>5, <2>6 DEF Commit
    <2>8. rows[presented[r]] # None /\ stored[presented[r]] # None
      BY <1>0, <1>12 DEF Commit
    <2>9. \A t \in Tokens : stored[t] # None => stored'[t] = stored[t]
      BY <1>0, <1>12 DEF Commit
    <2>10. HistoryInv'
      BY <1>0, <1>12, <2>5, <2>8, <2>9 DEF Commit, NewRow
    <2>11. RedeemableUntilSpent'
      BY <1>0, <1>12, <2>5, <2>8, <2>9 DEF Commit
    <2>12. QED
      BY <1>0, <2>1, <2>2, <2>3, <2>4, <2>7, <2>10, <2>11
  <1>13. ASSUME NEW r \in Requests, Respond(r) PROVE TableInv'
    BY <1>0, <1>13 DEF Respond, Release
  <1>14. ASSUME NEW r \in Requests, Fail(r) PROVE TableInv'
    BY <1>0, <1>14 DEF Fail, Release
  <1>15. ASSUME NEW t \in Tokens, Validate(t) PROVE TableInv'
    BY <1>0, <1>15 DEF Validate
  <1>16. ASSUME NEW c \in Clients, CreateClient(c) PROVE TableInv'
    BY <1>0, <1>16 DEF CreateClient, OutdateSnapshots, Readers
  <1>17. ASSUME NEW c \in Clients, DeleteClient(c) PROVE TableInv'
    BY <1>0, <1>17 DEF DeleteClient, Cascade, OutdateSnapshots, Readers
  <1>18. ASSUME Gc PROVE TableInv'
    BY <1>0, <1>18 DEF Gc
  <1>19. ASSUME ForeignBegin PROVE TableInv'
    BY <1>0, <1>19 DEF ForeignBegin
  <1>20. ASSUME ForeignCommit PROVE TableInv'
    BY <1>0, <1>20 DEF ForeignCommit, OutdateSnapshots, Readers
  <1>21. ASSUME Restart PROVE TableInv'
    BY <1>0, <1>21 DEF Restart
  <1>22. ASSUME Tick PROVE TableInv'
    BY <1>0, <1>22 DEF Tick
  <1>23. CASE UNCHANGED vars
    BY <1>0, <1>23 DEF vars
  <1> HIDE DEF TableInv
  <1>24. QED
    BY <1>1, <1>2, <1>3, <1>4, <1>5, <1>6, <1>7, <1>8, <1>9, <1>10, <1>11, <1>12, <1>13, <1>14, <1>15, <1>16, <1>17, <1>18, <1>19, <1>20, <1>21, <1>22, <1>23
       DEF Next, Handler, UnknownClient, CreateRefused, InvalidGrant,
           UpgradeRefused, BusyTimeout, Abort

\* It holds of an empty database.
LEMMA InitTable == Init => TableInv
  <1> SUFFICES ASSUME Init PROVE TableInv
    OBVIOUS
  <1>1. TypeInv
    BY InitType
  <1>2. QED
    BY <1>1, DistinctAssumption
       DEF Init, TableInv, ClockInv, LockInv, SnapshotInv, FreshInv, HistoryInv, SingleUse, RedeemableUntilSpent, RowsHaveClients, ClaimInherited

\* Hence of every reachable state.
LEMMA TableInvariant == Spec => []TableInv
  BY InitTable, NextTable, PTL DEF Spec

-----------------------------------------------------------------------------
(* What the clock decides.  An entry that is inserted stays until it        *)
(* expires, so the access token is in the map when the response leaves;    *)
(* a row that is inserted expires after every purge made so far.           *)

\* The access token has expired or is in the map as it was inserted.
Backed(t) == now < minted[t].expiresAt => access[t] = minted[t]

\* The map against what was put in it and what was handed out.
AccessInv ==
    /\ \A t \in Tokens : access[t] # None => access[t] = minted[t]
    /\ \A t \in Tokens : minted[t] # None => minted[t].expiresAt <= now + ExpirationTime
    /\ \A r \in Requests : pc[r] \in {"create", "commit", "respond"} =>
           minted[fresh[r]] # None /\ Backed(fresh[r])
    /\ \A t \in session : minted[t] # None /\ Backed(t)
    /\ \A t \in delivered : stored[t] # None

\* A token is stored while its client lives, hence inserted before the
\* client is deleted.
DeletionInv ==
    \A t \in Tokens :
        stored[t] # None /\ clients[stored[t].client] = "deleted" =>
            minted[t].expiresAt <= deletedAt[stored[t].client] + ExpirationTime

\* A request that has purged the table finds only rows that outlive its
\* purge: later commits insert rows dated later.
PurgeInv ==
    \A r \in Requests : pc[r] = "find" =>
        /\ \A t \in Tokens : rows[t] # None => rows[t].expiresAt > readAt[r]
        /\ \A q \in Requests : pc[q] \in {"create_in_tx", "commit"} => readAt[r] <= readAt[q]

TimeInv == AccessInv /\ DeletionInv /\ PurgeInv /\ FoundUnexpiredAtPurge


\* Every step keeps what the clock decides.
LEMMA NextTime == TableInv /\ TableInv' /\ TimeInv /\ [Next]_vars => TimeInv'
  <1> SUFFICES ASSUME TableInv, TableInv', TimeInv, [Next]_vars
               PROVE  TimeInv'
    OBVIOUS
  <1>0. /\ TypeInv /\ LockInv /\ ClockInv /\ HistoryInv /\ FreshInv
        /\ RowsHaveClients /\ SnapshotInv
        /\ TypeInv'
    BY DEF TableInv
  <1> USE DistinctAssumption, TimesAssumption
      DEF TimeInv, AccessInv, DeletionInv, PurgeInv, FoundUnexpiredAtPurge, Backed
  <1> USE DEF TypeInv, TypeOK, Locals, Steps, PasswordSteps, RefreshSteps, TokenRow,
              LockInv, ClockInv, HistoryInv, storage, environment, answers, asked, locals
  <1>1. ASSUME NEW r \in Requests, NEW c \in Clients, StartPassword(r, c)
        PROVE  TimeInv'
    BY <1>0, <1>1 DEF StartPassword
  <1>2. ASSUME NEW r \in Requests, NEW c \in Clients, NEW t \in Tokens, StartRefresh(r, c, t)
        PROVE  TimeInv'
    BY <1>0, <1>2 DEF StartRefresh
  <1>3. ASSUME NEW r \in Requests, FindUserAndClient(r)
        PROVE  TimeInv'
    BY <1>0, <1>3 DEF FindUserAndClient
  <1>4. ASSUME NEW r \in Requests, InsertAccess(r)
        PROVE  TimeInv'
    BY <1>0, <1>4 DEF InsertAccess, PutAccess, AccessEntry, Unused
  <1>5. ASSUME NEW r \in Requests, CreateRow(r)
        PROVE  TimeInv'
    BY <1>0, <1>5 DEF CreateRow, NewRow, OutdateSnapshots, Readers
  <1>6. ASSUME NEW r \in Requests, FindClient(r)
        PROVE  TimeInv'
    BY <1>0, <1>6 DEF FindClient
  <1>7. ASSUME NEW r \in Requests, TakePurgeLock(r)
        PROVE  TimeInv'
    BY <1>0, <1>7 DEF TakePurgeLock
  <1>8. ASSUME NEW r \in Requests, CommitPurge(r)
        PROVE  TimeInv'
    BY <1>0, <1>8 DEF CommitPurge, DeleteExpired, OutdateSnapshots, Readers
  <1>9. ASSUME NEW r \in Requests, Find(r)
        PROVE  TimeInv'
    BY <1>0, <1>9 DEF Find
  <1>10. ASSUME NEW r \in Requests, Delete(r)
        PROVE  TimeInv'
    BY <1>0, <1>10 DEF Delete
  <1>11. ASSUME NEW r \in Requests, InsertAccessAndCreate(r)
        PROVE  TimeInv'
    BY <1>0, <1>11 DEF InsertAccessAndCreate, PutAccess, AccessEntry, Unused
  <1>12. ASSUME NEW r \in Requests, Commit(r)
        PROVE  TimeInv'
    <2>1. PurgeInv' /\ FoundUnexpiredAtPurge'
      BY <1>0, <1>12 DEF Commit, NewRow, OutdateSnapshots, Readers
    <2>2. /\ fresh[r] \in Tokens /\ stored'[fresh[r]] = NewRow(found[r].client, readAt[r])
          /\ \A t \in Tokens \ {fresh[r]} : stored'[t] = stored[t]
      BY <1>0, <1>12 DEF Commit
    <2>3. found[r].client \in Clients /\ readAt[r] \in Nat
      BY <1>0, <1>12 DEF Commit
    <2>4. stored'[fresh[r]] # None /\ stored'[fresh[r]].client = found[r].client
      BY <2>2, <2>3, NewValues
    <2>5. AccessInv'
      BY <1>0, <1>12, <2>2, <2>4 DEF Commit
    <2>6. clients[found[r].client] = "live"
      BY <1>0, <1>12 DEF Commit, SnapshotInv, RowsHaveClients
    <2>7. DeletionInv'
      BY <1>0, <1>12, <2>2, <2>4, <2>6 DEF Commit
    <2>8. QED
      BY <2>1, <2>5, <2>7
  <1>13. ASSUME NEW r \in Requests, Respond(r)
        PROVE  TimeInv'
    <2>1. DeletionInv' /\ PurgeInv' /\ FoundUnexpiredAtPurge'
      BY <1>0, <1>13 DEF Respond, Release
    <2>2. stored[fresh[r]] # None /\ minted[fresh[r]] # None /\ Backed(fresh[r])
      BY <1>0, <1>13 DEF Respond, FreshInv
    <2>3. AccessInv'
      BY <1>0, <1>13, <2>2 DEF Respond, Release
    <2>4. QED
      BY <2>1, <2>3
  <1>14. ASSUME NEW r \in Requests, Fail(r)
        PROVE  TimeInv'
    BY <1>0, <1>14 DEF Fail, Release
  <1>15. ASSUME NEW t \in Tokens, Validate(t)
        PROVE  TimeInv'
    BY <1>0, <1>15 DEF Validate
  <1>16. ASSUME NEW c \in Clients, CreateClient(c)
        PROVE  TimeInv'
    BY <1>0, <1>16 DEF CreateClient, OutdateSnapshots, Readers
  <1>17. ASSUME NEW c \in Clients, DeleteClient(c)
        PROVE  TimeInv'
    BY <1>0, <1>17 DEF DeleteClient, Cascade, OutdateSnapshots, Readers
  <1>18. CASE Gc
    BY <1>0, <1>18 DEF Gc
  <1>19. CASE ForeignBegin
    BY <1>0, <1>19 DEF ForeignBegin
  <1>20. CASE ForeignCommit
    BY <1>0, <1>20 DEF ForeignCommit, OutdateSnapshots, Readers
  <1>21. CASE Restart
    BY <1>0, <1>21 DEF Restart
  <1>22. CASE Tick
    BY <1>0, <1>22 DEF Tick
  <1>23. CASE UNCHANGED vars
    BY <1>23 DEF vars
  <1> HIDE DEF TimeInv
  <1>24. QED
    BY <1>1, <1>2, <1>3, <1>4, <1>5, <1>6, <1>7, <1>8, <1>9, <1>10, <1>11,
       <1>12, <1>13, <1>14, <1>15, <1>16, <1>17, <1>18, <1>19, <1>20, <1>21,
       <1>22, <1>23
       DEF Next, Handler, UnknownClient, CreateRefused, InvalidGrant,
           UpgradeRefused, BusyTimeout, Abort

\* It holds initially.
LEMMA InitTime == Init => TimeInv
  BY DEF Init, TimeInv, AccessInv, DeletionInv, PurgeInv, FoundUnexpiredAtPurge

\* Hence in every reachable state.
LEMMA TimeInvariant == Spec => [](TableInv /\ TimeInv)
  BY InitTime, NextTime, TableInvariant, PTL DEF Spec

-----------------------------------------------------------------------------
(* The safety properties of TokenStorage. *)

\* A refresh token is exchanged at most once, however many requests race.
THEOREM RefreshIsSingleUse == Spec => []SingleUse
  BY TableInvariant, PTL DEF TableInv

\* Only a committed exchange, expiry and the deletion of the client take a
\* stored refresh token away.
THEOREM RefreshIsRedeemable == Spec => []RedeemableUntilSpent
  BY TableInvariant, PTL DEF TableInv

\* Rows never reference a missing client.
THEOREM ForeignKeyHolds == Spec => []RowsHaveClients
  BY TableInvariant, PTL DEF TableInv

\* Claims are inherited along the chain of exchanges.
THEOREM ClaimsAreInherited == Spec => []ClaimInherited
  BY TableInvariant, PTL DEF TableInv

\* An access token that was handed out is accepted until it expires.
THEOREM AccessLasts == Spec => []AccessUntilExpiry
  <1>1. TableInv /\ TimeInv => AccessUntilExpiry
    <2> SUFFICES ASSUME TableInv, TimeInv, NEW t \in session,
                        now < minted[t].expiresAt
                 PROVE  Accepts(t)
      BY DEF AccessUntilExpiry
    <2>1. t \in Tokens /\ minted[t] \in TokenRow /\ now \in Nat
      BY DEF TableInv, TypeInv, TypeOK, TimeInv, AccessInv
    <2>2. access[t] = minted[t] /\ minted[t] # None
      BY DEF TimeInv, AccessInv, Backed
    <2>3. QED
      BY <2>1, <2>2 DEF Accepts, TokenRow
  <1>2. QED
    BY <1>1, TimeInvariant, PTL

\* After its client is deleted it is accepted for EXPIRATION_TIME at most.
THEOREM AccessEndsAfterDeletion == Spec => []AccessOutlivesClientBriefly
  <1>1. TableInv /\ TimeInv => AccessOutlivesClientBriefly
    <2> SUFFICES ASSUME TableInv, TimeInv, NEW t \in delivered, Accepts(t),
                        clients[access[t].client] = "deleted"
                 PROVE  now <= deletedAt[access[t].client] + ExpirationTime
      BY DEF AccessOutlivesClientBriefly
    <2>1. /\ t \in Tokens /\ now \in Nat /\ access[t] \in TokenRow
          /\ deletedAt[access[t].client] \in Nat
      BY DEF TableInv, TypeInv, TypeOK, Accepts, TokenRow
    <2>2. stored[t] # None /\ access[t] = minted[t] /\ minted[t].client = stored[t].client
      BY <2>1 DEF TimeInv, AccessInv, Accepts, TableInv, HistoryInv
    <2>3. access[t].expiresAt <= deletedAt[access[t].client] + ExpirationTime
      BY <2>1, <2>2 DEF TimeInv, DeletionInv
    <2>4. now <= access[t].expiresAt /\ access[t].expiresAt \in Nat
      BY <2>1 DEF Accepts, TokenRow
    <2>5. QED
      BY <2>1, <2>3, <2>4, TimesAssumption
  <1>2. QED
    BY <1>1, TimeInvariant, PTL

\* What is exchanged had not expired when the request purged the table.
THEOREM ExchangedWasUnexpired == Spec => []FoundUnexpiredAtPurge
  BY TimeInvariant, PTL DEF TimeInv

-----------------------------------------------------------------------------
(* Refinement: each commit is one atomic operation of TokenService, every  *)
(* other step changes nothing the service speaks of.                       *)

\* The commit of a password grant issues a token.
LEMMA CreateRowIssues ==
    ASSUME TableInv, NEW r \in Requests, CreateRow(r)
    PROVE  Service!Issue(fresh[r], client[r]) /\ fresh[r] \in Tokens /\ client[r] \in Clients
  <1>1. fresh[r] \in Tokens /\ client[r] \in Clients /\ stored[fresh[r]] = None
    BY DEF CreateRow, TableInv, TypeInv, Locals, FreshInv, PasswordSteps
  <1>2. rows'[fresh[r]] = NewRow(client[r], now)
    BY <1>1 DEF CreateRow, TableInv, TypeInv, TypeOK
  <1>3. QED
    BY <1>1, <1>2 DEF CreateRow, NewRow, Service!Issue, environment

\* The commit of a refresh exchanges the presented token for the new one.
LEMMA CommitExchanges ==
    ASSUME TableInv, NEW r \in Requests, Commit(r)
    PROVE  /\ Service!Exchange(presented[r], fresh[r])
           /\ presented[r] \in Tokens
           /\ fresh[r] \in Tokens
  <1>1. /\ presented[r] \in Tokens /\ fresh[r] \in Tokens
        /\ found[r] \in TokenRow
        /\ stored[fresh[r]] = None
        /\ rows[presented[r]] = found[r]
    BY DEF Commit, TableInv, TypeInv, Locals, FreshInv, SnapshotInv, RefreshSteps
  <1>2. rows[presented[r]] # None
    BY <1>1, DistinctAssumption DEF TokenRow
  <1>3. stored[presented[r]] # None
    BY <1>1, <1>2 DEF TableInv, HistoryInv
  <1>4. successors[presented[r]] = {} /\ clients[found[r].client] = "live"
    BY <1>1, <1>2, <1>3 DEF TableInv, RedeemableUntilSpent, RowsHaveClients
  <1>5. readAt[r] \in 0..now
    BY DEF TableInv, ClockInv, TypeInv, TypeOK
  <1>6. rows'[fresh[r]] = NewRow(found[r].client, readAt[r])
    BY <1>1 DEF Commit, TableInv, TypeInv, TypeOK
  <1>7. rows' = [rows EXCEPT ![presented[r]] = None,
                             ![fresh[r]] = [client |-> rows[presented[r]].client,
                                            expiresAt |-> readAt[r] + RefreshTokenExpirationTime]]
    BY <1>1 DEF Commit, NewRow
  <1>8. successors' = [successors EXCEPT ![presented[r]] = {fresh[r]}]
    BY <1>4 DEF Commit
  <1>9. stored' = [stored EXCEPT ![fresh[r]] = rows'[fresh[r]]]
    BY <1>6 DEF Commit
  <1>10. QED
    BY <1>1, <1>2, <1>4, <1>5, <1>7, <1>8, <1>9 DEF Commit, Service!Exchange, environment

\* A purge takes only expired tokens.
LEMMA CommitPurgeExpires ==
    ASSUME TableInv, NEW r \in Requests, CommitPurge(r)
    PROVE  Service!Expire
  <1> DEFINE gone == {t \in Tokens : rows[t] # None /\ rows[t].expiresAt <= readAt[r]}
  <1>1. rows' = [t \in Tokens |-> IF t \in gone THEN None ELSE rows[t]]
    BY DEF CommitPurge, DeleteExpired
  <1>2. readAt[r] <= now /\ readAt[r] \in Nat /\ now \in Nat
    BY DEF TableInv, ClockInv, TypeInv, TypeOK
  <1>3. \A t \in Tokens : rows[t] # None => rows[t].expiresAt \in Nat
    BY DEF TableInv, TypeInv, TypeOK, TokenRow
  <1>4. gone \in SUBSET {t \in Tokens : rows[t] # None /\ rows[t].expiresAt <= now}
    BY <1>2, <1>3
  <1> HIDE DEF gone
  <1>5. QED
    BY <1>1, <1>4 DEF CommitPurge, Service!Expire, environment

\* Every step of the handlers is a step of the service or none.
LEMMA NextImplements ==
    TableInv /\ [Next]_vars => [Service!Next]_(Service!vars)
  <1> SUFFICES ASSUME TableInv, [Next]_vars
               PROVE  Service!Next \/ UNCHANGED Service!vars
    OBVIOUS
  <1> USE DEF Service!vars, storage, environment
  <1>1. ASSUME NEW r \in Requests, NEW c \in Clients, StartPassword(r, c)
        PROVE  UNCHANGED Service!vars
    BY <1>1 DEF StartPassword
  <1>2. ASSUME NEW r \in Requests, NEW c \in Clients, NEW t \in Tokens,
               StartRefresh(r, c, t)
        PROVE  UNCHANGED Service!vars
    BY <1>2 DEF StartRefresh
  <1>3. ASSUME NEW r \in Requests,
               \/ FindUserAndClient(r) \/ InsertAccess(r) \/ FindClient(r)
               \/ TakePurgeLock(r) \/ Find(r) \/ Delete(r)
               \/ InsertAccessAndCreate(r) \/ Respond(r) \/ Fail(r)
        PROVE  UNCHANGED Service!vars
    BY <1>3 DEF FindUserAndClient, InsertAccess, FindClient, TakePurgeLock, Find,
                Delete, InsertAccessAndCreate, Respond, Fail
  <1>4. ASSUME NEW r \in Requests, CreateRow(r) PROVE Service!Next
    BY <1>4, CreateRowIssues DEF Service!Next
  <1>5. ASSUME NEW r \in Requests, CommitPurge(r) PROVE Service!Next
    BY <1>5, CommitPurgeExpires DEF Service!Next
  <1>6. ASSUME NEW r \in Requests, Commit(r) PROVE Service!Next
    BY <1>6, CommitExchanges DEF Service!Next
  <1>7. ASSUME NEW c \in Clients, CreateClient(c) PROVE Service!Register(c)
    BY <1>7 DEF CreateClient, Service!Register
  <1>8. ASSUME NEW c \in Clients, DeleteClient(c) PROVE Service!Revoke(c)
    BY <1>8 DEF DeleteClient, Cascade, Service!Revoke
  <1>9. ASSUME Tick PROVE Service!Tick
    BY <1>9 DEF Tick, Service!Tick
  <1>10. ASSUME \/ \E t \in Tokens : Validate(t)
                \/ Gc \/ ForeignBegin \/ ForeignCommit \/ Restart \/ UNCHANGED vars
         PROVE  UNCHANGED Service!vars
    BY <1>10 DEF Validate, Gc, ForeignBegin, ForeignCommit, Restart, vars
  <1>11. QED
    BY <1>1, <1>2, <1>3, <1>4, <1>5, <1>6, <1>7, <1>8, <1>9, <1>10
       DEF Next, Handler, UnknownClient, CreateRefused, InvalidGrant,
           UpgradeRefused, BusyTimeout, Abort, Service!Next

\* The handlers implement the atomic service.
THEOREM Refinement == Spec => ImplementsService
  <1>1. Init => Service!Init
    BY DEF Init, Service!Init
  <1>2. QED
    BY <1>1, NextImplements, TableInvariant, PTL DEF Spec, ImplementsService, Service!Spec

-----------------------------------------------------------------------------
(* The life of the collector that TokenStorage::new starts, for any number *)
(* of workers, requests and connections: it runs as long as a worker       *)
(* serves, and main returns when every connection is back.                 *)

CONSTANTS Workers, Connections, MaxTakes

Life == INSTANCE ServerLife

\* Why the two hold.  The clone in the task keeps the storage alive until main
\* has returned, so nothing cancels the task; main comes that far only when no
\* worker is up; and a closed pool grants nothing once everything is back.
LifeInv ==
    /\ has \in [Requests -> Nat] /\ DOMAIN worker = Workers
    /\ phase # "down" => collector = "running"
    /\ Life!Closed => \A w \in Workers : worker[w] # "up"
    /\ NobodyCutOff

\* The task itself is among the holders.
LEMMA TaskHolds ==
    ASSUME collector = "running", NEW ws, NEW up
    PROVE  Life!Dropped(ws, up) = "running"
  BY DEF Life!Dropped, Life!Holders

\* The invariant holds when the server starts (main.rs:43-52).
THEOREM LifeInvInitially == Life!Init => LifeInv
  BY DEF Life!Init, LifeInv, AllBack, NobodyCutOff, Life!Closed

\* Every step of a handler, of the pool, of a worker and of main keeps it.
LEMMA LifeInvStep == LifeInv /\ [Life!Next]_Life!vars => LifeInv'
  <1> SUFFICES ASSUME LifeInv, [Life!Next]_Life!vars PROVE LifeInv'
    OBVIOUS
  <1> USE DEF LifeInv
  <1>1. ASSUME NEW r \in Requests, NEW w \in Workers, NEW n \in 0..MaxTakes,
               Life!Arrive(r, w, n)
        PROVE  LifeInv'
    BY <1>1 DEF Life!Arrive, Life!Closed, NobodyCutOff
  <1>2. ASSUME NEW r \in Requests, Life!Ask(r) PROVE LifeInv'
    BY <1>2 DEF Life!Ask, Life!Asks, Life!Moves, Life!Closed, NobodyCutOff, AllBack
  <1>3. ASSUME NEW r \in Requests, Life!GiveBack(r) PROVE LifeInv'
    BY <1>3 DEF Life!GiveBack, Life!Closed, NobodyCutOff, AllBack
  <1>4. ASSUME NEW r \in Requests, Life!AnswerIt(r) PROVE LifeInv'
    BY <1>4 DEF Life!AnswerIt, Life!Moves, Life!Closed, NobodyCutOff, AllBack
  <1>5. ASSUME NEW r \in Requests, Life!Abandon(r, "failed") \/ Life!Abandon(r, "dropped")
        PROVE  LifeInv'
    BY <1>5 DEF Life!Abandon, Life!Moves, Life!Closed, NobodyCutOff, AllBack
  <1>6. CASE Life!Grant
    <2>1. has' = [has EXCEPT ![Head(queue)] = @ + 1]
      BY <1>6 DEF Life!Grant
    <2>2. has' \in [Requests -> Nat]
      <3>1. CASE Head(queue) \in Requests
        BY <2>1, <3>1
      <3>2. CASE Head(queue) \notin Requests
        BY <2>1, <3>2
      <3> QED
        BY <3>1, <3>2
    <2> QED
      BY <1>6, <2>2 DEF Life!Grant, Life!Closed, NobodyCutOff
  <1>7. CASE Life!Signal
    BY <1>7 DEF Life!Signal, Life!Closed, NobodyCutOff
  <1>8. CASE Life!ServerEnds
    <2>1. collector = "running"
      BY <1>8 DEF Life!ServerEnds
    <2> QED
      BY <1>8, <2>1, TaskHolds DEF Life!ServerEnds, Life!Closed, NobodyCutOff
  <1>9. CASE Life!Return
    BY <1>9 DEF Life!Return, Life!Closed, NobodyCutOff, Life!AllBack, AllBack
  <1>10. ASSUME NEW w \in Workers, Life!WorkerEnds(w) PROVE LifeInv'
    BY <1>10, TaskHolds DEF Life!WorkerEnds, Life!Ends, Life!Closed, NobodyCutOff, AllBack
  <1>11. ASSUME NEW w \in Workers, Life!StopByForce(w) PROVE LifeInv'
    BY <1>11 DEF Life!StopByForce, Life!Closed, NobodyCutOff
  <1>12. CASE UNCHANGED Life!vars
    BY <1>12 DEF Life!vars, Life!Closed, NobodyCutOff, AllBack
  <1> QED
    BY <1>1, <1>2, <1>3, <1>4, <1>5, <1>6, <1>7, <1>8, <1>9, <1>10, <1>11, <1>12
       DEF Life!Next, Life!Work, Life!TimeOut, Life!LetGo

\* The two lemmas together.
THEOREM LifeInvAlways == Life!Spec => []LifeInv
  BY LifeInvInitially, LifeInvStep, PTL DEF Life!Spec

\* No worker is left without its collector (token_storage, lib.rs:41-92).
THEOREM CollectorOutlivesWorkersAlways == Life!Spec => []CollectorOutlivesWorkers
  <1>1. LifeInv => CollectorOutlivesWorkers
    BY DEF LifeInv, CollectorOutlivesWorkers, Life!Closed
  <1> QED
    BY <1>1, LifeInvAlways, PTL

\* The process does not end in the middle of a transaction (main.rs:43-57).
THEOREM NobodyCutOffAlways == Life!Spec => []NobodyCutOff
  <1>1. LifeInv => NobodyCutOff
    BY DEF LifeInv
  <1> QED
    BY <1>1, LifeInvAlways, PTL

-----------------------------------------------------------------------------
(* Types of the pool and of who waits for it.                              *)

\* Who waits has nothing and still needs something; so no handler waits for
\* another one that waits.
WaitersHoldNothing ==
    \A r \in Requests : request[r].at = "waiting" => has[r] = 0 /\ request[r].takes > 0

\* What ServerLife assumes of its numbers (ServerLifeAssumption).
PoolAssumption == Connections \in Nat \ {0} /\ MaxTakes \in Nat \ {0}

Waiting == {r \in Requests : request[r].at = "waiting"}

\* The records of requests.
LifeRequests ==
    [at : {"none"}] \cup
    [at : {"working", "waiting", "answered", "failed", "dropped"},
     worker : Workers, takes : 0..MaxTakes]

\* TypeOK, part by part, with what makes it inductive.
LifeTypes ==
    /\ phase \in {"serving", "stopping", "closing", "down"}
    /\ worker \in [Workers -> {"up", "forced", "gone"}]
    /\ collector \in {"running", "cancelled", "dropped"}
    /\ request \in [Requests -> LifeRequests]
    /\ has \in [Requests -> 0..MaxTakes]
    /\ queue \in Seq(Requests) /\ Life!IsInjective(queue) /\ Life!ToSet(queue) = Waiting
    /\ IsFiniteSet(Life!Lent) /\ Cardinality(Life!Lent) <= Connections
    /\ \A r \in Requests : request[r].at \notin {"working", "waiting"} => has[r] = 0
    /\ WaitersHoldNothing

\* ServerLife counts with the same operator as the theorems about finite sets.
LEMMA SameCardinality ==
    \A S : Life!Cardinality(S) = Cardinality(S)
  BY Zenon DEF Life!Cardinality, Cardinality

\* The queue of the pool as requests join it, are served and leave it.
LEMMA QueueGrows ==
    ASSUME NEW S, NEW q \in Seq(S), NEW r \in S,
           Life!IsInjective(q), r \notin Life!ToSet(q)
    PROVE  /\ Append(q, r) \in Seq(S)
           /\ Life!IsInjective(Append(q, r))
           /\ Life!ToSet(Append(q, r)) = Life!ToSet(q) \cup {r}
  <1> DEFINE t == Append(q, r)
  <1>1. /\ t \in Seq(S) /\ Len(t) = Len(q) + 1 /\ Len(q) \in Nat
        /\ \A i \in 1..Len(q) : t[i] = q[i]
        /\ t[Len(q) + 1] = r
    OBVIOUS
  <1>2. DOMAIN q = 1..Len(q) /\ DOMAIN t = 1..(Len(q) + 1)
    BY <1>1
  <1> HIDE DEF t
  <1>3. Life!IsInjective(t)
    BY <1>1, <1>2 DEF Life!IsInjective, Life!ToSet
  <1>4. Life!ToSet(t) = Life!ToSet(q) \cup {r}
    <2>1. \A i \in 1..(Len(q) + 1) : t[i] \in Life!ToSet(q) \cup {r}
      BY <1>1, <1>2 DEF Life!ToSet
    <2>2. \A i \in 1..Len(q) : q[i] \in Life!ToSet(t)
      BY <1>1, <1>2 DEF Life!ToSet
    <2>3. r \in Life!ToSet(t)
      BY <1>1, <1>2 DEF Life!ToSet
    <2> QED
      BY <1>2, <2>1, <2>2, <2>3 DEF Life!ToSet
  <1> QED
    BY <1>1, <1>3, <1>4 DEF t

\* q without its k-th.
WithoutOne(t, q, k) ==
    /\ Len(t) = Len(q) - 1
    /\ \A i \in 1..Len(t) : t[i] = IF i < k THEN q[i] ELSE q[i + 1]

LEMMA QueueShrinks ==
    ASSUME NEW S, NEW q \in Seq(S), NEW k \in 1..Len(q), Life!IsInjective(q),
           NEW t \in Seq(S), WithoutOne(t, q, k)
    PROVE  Life!IsInjective(t) /\ Life!ToSet(t) = Life!ToSet(q) \ {q[k]}
  <1>1. /\ DOMAIN q = 1..Len(q) /\ DOMAIN t = 1..Len(t) /\ Len(q) \in Nat /\ Len(t) \in Nat
    OBVIOUS
  <1> USE DEF WithoutOne
  <1>2. \A i, j \in 1..Len(q) : q[i] = q[j] => i = j
    BY <1>1 DEF Life!IsInjective
  <1>3. \A i, j \in 1..Len(t) : t[i] = t[j] => i = j
    <2> SUFFICES ASSUME NEW i \in 1..Len(t), NEW j \in 1..Len(t), t[i] = t[j] PROVE i = j
      OBVIOUS
    <2>1. PICK a, b : /\ a = IF i < k THEN i ELSE i + 1
                      /\ b = IF j < k THEN j ELSE j + 1
      OBVIOUS
    <2>2. a \in 1..Len(q) /\ b \in 1..Len(q) /\ q[a] = q[b]
      BY <1>1, <2>1
    <2>3. a = b
      BY <1>2, <2>2
    <2> QED
      BY <1>1, <2>1, <2>3
  <1>4. ASSUME NEW i \in 1..Len(t) PROVE t[i] \in Life!ToSet(q) /\ t[i] # q[k]
    <2>1. PICK a : a = IF i < k THEN i ELSE i + 1
      OBVIOUS
    <2>2. a \in 1..Len(q) /\ a # k /\ t[i] = q[a]
      BY <1>1, <2>1
    <2> QED
      BY <1>1, <1>2, <2>2 DEF Life!ToSet
  <1>5. ASSUME NEW a \in 1..Len(q), a # k PROVE q[a] \in Life!ToSet(t)
    <2>1. PICK i : i = IF a < k THEN a ELSE a - 1
      OBVIOUS
    <2>2. i \in 1..Len(t) /\ t[i] = q[a]
      BY <1>1, <1>5, <2>1
    <2> QED
      BY <1>1, <2>2 DEF Life!ToSet
  <1>6. Life!ToSet(t) = Life!ToSet(q) \ {q[k]}
    <2>1. Life!ToSet(q) = {q[a] : a \in 1..Len(q)} /\ Life!ToSet(t) = {t[i] : i \in 1..Len(t)}
      BY <1>1 DEF Life!ToSet
    <2> QED
      BY <1>4, <1>5, <2>1
  <1> QED
    BY <1>1, <1>3, <1>6 DEF Life!IsInjective

LEMMA FirstServed ==
    ASSUME NEW S, NEW q \in Seq(S), Life!IsInjective(q), q # <<>>
    PROVE  /\ Head(q) \in S /\ Head(q) \in Life!ToSet(q)
           /\ Tail(q) \in Seq(S) /\ Life!IsInjective(Tail(q))
           /\ Life!ToSet(Tail(q)) = Life!ToSet(q) \ {Head(q)}
  <1>1. /\ Len(q) \in Nat \ {0} /\ Head(q) = q[1] /\ Tail(q) \in Seq(S)
        /\ Len(Tail(q)) = Len(q) - 1
        /\ \A i \in 1..Len(Tail(q)) : Tail(q)[i] = q[i + 1]
    OBVIOUS
  <1>2. 1 \in 1..Len(q) /\ DOMAIN q = 1..Len(q)
    BY <1>1
  <1>3. PICK k \in 1..Len(q), t \in Seq(S) : k = 1 /\ t = Tail(q)
    BY <1>1, <1>2
  <1>4. WithoutOne(t, q, k)
    BY <1>1, <1>3 DEF WithoutOne
  <1>5. Life!IsInjective(t) /\ Life!ToSet(t) = Life!ToSet(q) \ {q[k]}
    BY <1>4, QueueShrinks
  <1>6. Head(q) \in S /\ Head(q) \in Life!ToSet(q)
    BY <1>1, <1>2 DEF Life!ToSet
  <1> QED
    BY <1>1, <1>3, <1>5, <1>6

LEMMA RestOf ==
    ASSUME NEW S, NEW q \in Seq(S), NEW k \in 1..Len(q),
           NEW b, b = SubSeq(q, k + 1, Len(q))
    PROVE  /\ b \in Seq(S) /\ Len(b) = Len(q) - k
           /\ \A i \in 1..(Len(q) - k) : b[i] = q[i + k]
  <1>1. Len(q) \in Nat /\ k + 1 \in 1..(Len(q) + 1)
    OBVIOUS
  <1>2. PICK m \in 1..(Len(q) + 1) : m = k + 1
    BY <1>1
  <1>3. /\ SubSeq(q, m, Len(q)) \in Seq(S)
        /\ Len(SubSeq(q, m, Len(q))) = IF m <= Len(q) THEN Len(q) - m + 1 ELSE 0
        /\ \A i \in 1..(Len(q) - m + 1) : SubSeq(q, m, Len(q))[i] = q[m + i - 1]
    OBVIOUS
  <1>4. b = SubSeq(q, m, Len(q)) /\ Len(q) - m + 1 = Len(q) - k
    BY <1>1, <1>2
  <1>5. Len(b) = Len(q) - k
    <2>1. Len(b) = IF m <= Len(q) THEN Len(q) - m + 1 ELSE 0
      BY <1>3, <1>4
    <2>2. Len(q) \in Nat /\ k \in Nat /\ k <= Len(q) /\ m = k + 1
      BY <1>1, <1>2
    <2> HIDE <1>2, <1>3, <1>4
    <2> QED
      BY <2>1, <2>2
  <1>6. ASSUME NEW i \in 1..(Len(q) - k) PROVE b[i] = q[i + k]
    <2>1. b[i] = q[m + i - 1]
      BY <1>3, <1>4
    <2>2. m + i - 1 = i + k
      BY <1>1, <1>2
    <2> QED
      BY <2>1, <2>2
  <1> QED
    BY <1>3, <1>4, <1>5, <1>6

\* Two pieces of q put together again are q without the one between them.
LEMMA OneOut ==
    ASSUME NEW S, NEW q \in Seq(S), NEW k \in 1..Len(q),
           NEW t, t = SubSeq(q, 1, k - 1) \o SubSeq(q, k + 1, Len(q))
    PROVE  t \in Seq(S) /\ WithoutOne(t, q, k)
  <1>0. Len(q) \in Nat
    OBVIOUS
  <1>1. PICK a : a = SubSeq(q, 1, k - 1)
    OBVIOUS
  <1>2. PICK b : b = SubSeq(q, k + 1, Len(q))
    OBVIOUS
  <1>3. /\ a \in Seq(S) /\ Len(a) = k - 1
        /\ \A i \in 1..(k - 1) : a[i] = q[i]
    BY <1>0, <1>1
  <1>4. /\ b \in Seq(S) /\ Len(b) = Len(q) - k
        /\ \A i \in 1..(Len(q) - k) : b[i] = q[i + k]
    BY <1>2, RestOf
  <1>5. /\ t = a \o b /\ t \in Seq(S) /\ Len(t) = Len(q) - 1
        /\ \A i \in 1..(Len(q) - 1) : t[i] = IF i <= k - 1 THEN a[i] ELSE b[i - (k - 1)]
    <2>1. t = a \o b
      BY <1>1, <1>2
    <2>2. a \in Seq(S) /\ b \in Seq(S)
      BY <1>3, <1>4
    <2>3. /\ a \o b \in Seq(S) /\ Len(a \o b) = Len(a) + Len(b)
          /\ \A i \in 1 .. Len(a) + Len(b) :
                (a \o b)[i] = IF i <= Len(a) THEN a[i] ELSE b[i - Len(a)]
      BY <2>2, ConcatProperties, Zenon
    <2>4. Len(a) = k - 1 /\ Len(a) + Len(b) = Len(q) - 1
      BY <1>0, <1>3, <1>4
    <2> HIDE <1>3, <1>4
    <2> QED
      BY <2>1, <2>3, <2>4
  <1>6. ASSUME NEW i \in 1..(Len(q) - 1) PROVE t[i] = IF i < k THEN q[i] ELSE q[i + 1]
    <2>1. CASE i < k
      <3>1. i \in 1..(k - 1) /\ i <= k - 1
        BY <1>0, <2>1
      <3> QED
        BY <1>3, <1>5, <2>1, <3>1
    <2>2. CASE ~ (i < k)
      <3>1. i - (k - 1) \in 1..(Len(q) - k) /\ i - (k - 1) + k = i + 1 /\ ~ (i <= k - 1)
        BY <1>0, <2>2
      <3> QED
        BY <1>4, <1>5, <2>2, <3>1
    <2> QED
      BY <2>1, <2>2
  <1> QED
    BY <1>5, <1>6 DEF WithoutOne

\* Who leaves the queue, as Abandon takes it out.
LEMMA OneLeaves ==
    ASSUME NEW S, NEW q \in Seq(S), Life!IsInjective(q), NEW r,
           NEW t, t = IF r \in Life!ToSet(q)
                      THEN Life!RemoveAt(q, CHOOSE i \in DOMAIN q : q[i] = r) ELSE q
    PROVE  /\ t \in Seq(S) /\ Life!IsInjective(t)
           /\ Life!ToSet(t) = Life!ToSet(q) \ {r}
  <1>1. CASE r \notin Life!ToSet(q)
    BY <1>1
  <1>2. CASE r \in Life!ToSet(q)
    <2>1. PICK k : k = CHOOSE i \in DOMAIN q : q[i] = r
      OBVIOUS
    <2>2. k \in 1..Len(q) /\ q[k] = r
      <3>1. \E i \in DOMAIN q : q[i] = r
        BY <1>2 DEF Life!ToSet
      <3>2. k \in DOMAIN q /\ q[k] = r
        BY <2>1, <3>1
      <3>3. DOMAIN q = 1..Len(q)
        OBVIOUS
      <3> QED
        BY <3>2, <3>3
    <2>3. PICK s : s = SubSeq(q, 1, k - 1) \o SubSeq(q, k + 1, Len(q))
      OBVIOUS
    <2>4. t = s
      BY <1>2, <2>1, <2>3 DEF Life!RemoveAt
    <2>5. s \in Seq(S) /\ WithoutOne(s, q, k)
      BY <2>2, <2>3, OneOut
    <2>6. Life!IsInjective(s) /\ Life!ToSet(s) = Life!ToSet(q) \ {q[k]}
      BY <2>2, <2>5, QueueShrinks
    <2> QED
      BY <2>2, <2>4, <2>5, <2>6, Zenon
  <1> QED
    BY <1>1, <1>2

\* The connections that are lent, as one is given back and as one is granted.
LEMMA LessLent ==
    ASSUME PoolAssumption, LifeTypes, \A r \in Requests : has'[r] = has[r] \/ has'[r] = 0
    PROVE  Cardinality(Life!Lent)' <= Connections /\ IsFiniteSet(Life!Lent)'
  <1>1. Life!Lent' \in SUBSET Life!Lent
    BY DEF Life!Lent
  <1>2. /\ IsFiniteSet(Life!Lent') /\ Cardinality(Life!Lent') <= Cardinality(Life!Lent)
    BY <1>1, FS_Subset DEF LifeTypes
  <1>3. /\ Cardinality(Life!Lent') \in Nat /\ Cardinality(Life!Lent) \in Nat
        /\ Cardinality(Life!Lent) <= Connections /\ Connections \in Nat
    BY <1>2, FS_CardinalityType DEF LifeTypes, PoolAssumption
  <1> QED
    BY <1>2, <1>3

LEMMA OneMoreLent ==
    ASSUME PoolAssumption, LifeTypes, NEW h \in Requests, has[h] = 0,
           has' = [has EXCEPT ![h] = 1],
           Cardinality(Life!Lent) < Connections
    PROVE  Cardinality(Life!Lent)' <= Connections /\ IsFiniteSet(Life!Lent)'
  <1>1. Life!Lent' = Life!Lent \cup {<<h, 1>>}
    <2>1. has \in [Requests -> 0..MaxTakes]
      BY DEF LifeTypes
    <2>2. /\ has'[h] = 1 /\ 1..1 = {1}
          /\ \A r \in Requests : r # h => has'[r] = has[r]
      BY <2>1
    <2>3. ASSUME NEW x \in Life!Lent' PROVE x \in Life!Lent \cup {<<h, 1>>}
      <3>1. PICK r \in Requests : x \in {r} \X (1..has'[r])
        BY <2>3 DEF Life!Lent
      <3> QED
        BY <2>2, <3>1 DEF Life!Lent
    <2>4. ASSUME NEW x \in Life!Lent PROVE x \in Life!Lent'
      <3>1. PICK r \in Requests : x \in {r} \X (1..has[r])
        BY <2>4 DEF Life!Lent
      <3>2. r # h
        BY <3>1
      <3> QED
        BY <2>2, <3>1, <3>2 DEF Life!Lent
    <2>5. <<h, 1>> \in Life!Lent'
      BY <2>2 DEF Life!Lent
    <2> QED
      BY <2>3, <2>4, <2>5
  <1>2. <<h, 1>> \notin Life!Lent
    BY DEF Life!Lent
  <1>3. /\ IsFiniteSet(Life!Lent') /\ Cardinality(Life!Lent') = Cardinality(Life!Lent) + 1
    BY <1>1, <1>2, FS_AddElement DEF LifeTypes
  <1>4. Cardinality(Life!Lent) \in Nat /\ Connections \in Nat
    BY FS_CardinalityType DEF LifeTypes, PoolAssumption
  <1> QED
    BY <1>3, <1>4

\* A step that leaves the pool alone.
LEMMA PoolAlone ==
    ASSUME LifeTypes, has' = has, queue' = queue
    PROVE  /\ Cardinality(Life!Lent)' <= Connections /\ IsFiniteSet(Life!Lent)'
           /\ has' \in [Requests -> 0..MaxTakes]
           /\ queue' \in Seq(Requests) /\ Life!IsInjective(queue')
           /\ Life!ToSet(queue') = Life!ToSet(queue)
  <1>1. Life!Lent' = Life!Lent
    BY DEF Life!Lent
  <1>2. /\ Cardinality(Life!Lent) <= Connections /\ IsFiniteSet(Life!Lent)
        /\ has \in [Requests -> 0..MaxTakes]
        /\ queue \in Seq(Requests) /\ Life!IsInjective(queue)
    BY Zenon DEF LifeTypes
  <1> QED
    BY <1>1, <1>2

\* The step of a request that goes from one place to another, with what becomes
\* of the queue and the connections.
LEMMA RequestMoves ==
    ASSUME LifeTypes, NEW r \in Requests, NEW y \in LifeRequests,
           request' = [request EXCEPT ![r] = y],
           UNCHANGED <<phase, worker>>, collector' = collector,
           has' \in [Requests -> 0..MaxTakes], \A s \in Requests : s # r => has'[s] = has[s],
           Cardinality(Life!Lent)' <= Connections, IsFiniteSet(Life!Lent)',
           queue' \in Seq(Requests), Life!IsInjective(queue'),
           Life!ToSet(queue') = IF y.at = "waiting" THEN Life!ToSet(queue) \cup {r}
                                ELSE Life!ToSet(queue) \ {r},
           y.at \notin {"working", "waiting"} => has'[r] = 0,
           y.at = "waiting" => has'[r] = 0 /\ y.takes > 0
    PROVE  LifeTypes'
  <1>1. /\ request \in [Requests -> LifeRequests] /\ Life!ToSet(queue) = Waiting
        /\ has \in [Requests -> 0..MaxTakes] /\ WaitersHoldNothing
        /\ \A s \in Requests : request[s].at \notin {"working", "waiting"} => has[s] = 0
    BY DEF LifeTypes
  <1>2. /\ request' \in [Requests -> LifeRequests] /\ request'[r] = y
        /\ \A s \in Requests : s # r => request'[s] = request[s]
    BY <1>1
  <1>3. Life!ToSet(queue)' = Waiting'
    <2>1. Waiting' = IF y.at = "waiting" THEN Waiting \cup {r} ELSE Waiting \ {r}
      BY <1>2 DEF Waiting
    <2> QED
      BY <1>1, <2>1 DEF Life!ToSet
  <1>4. WaitersHoldNothing'
    BY <1>1, <1>2 DEF WaitersHoldNothing
  <1>5. \A s \in Requests : request'[s].at \notin {"working", "waiting"} => has'[s] = 0
    BY <1>1, <1>2
  <1>6. /\ phase' \in {"serving", "stopping", "closing", "down"}
        /\ worker' \in [Workers -> {"up", "forced", "gone"}]
        /\ collector' \in {"running", "cancelled", "dropped"}
    BY DEF LifeTypes
  <1>7. Life!IsInjective(queue)'
    BY DEF Life!IsInjective
  <1> QED
    BY <1>2, <1>3, <1>4, <1>5, <1>6, <1>7 DEF LifeTypes
LEMMA LifeTypesInit == PoolAssumption /\ Life!Init => LifeTypes
  <1> SUFFICES ASSUME PoolAssumption, Life!Init PROVE LifeTypes
    OBVIOUS
  <1>1. Life!Lent = {}
    BY DEF Life!Init, Life!Lent
  <1>2. IsFiniteSet(Life!Lent) /\ Cardinality(Life!Lent) <= Connections
    BY <1>1, FS_EmptySet DEF PoolAssumption
  <1>3. queue \in Seq(Requests) /\ Life!IsInjective(queue) /\ Life!ToSet(queue) = Waiting
    BY DEF Life!Init, Life!IsInjective, Life!ToSet, Waiting
  <1> QED
    BY <1>2, <1>3 DEF Life!Init, LifeTypes, LifeRequests, WaitersHoldNothing, PoolAssumption

\* What the types say of a request that is somewhere.
LEMMA SomeRequest ==
    ASSUME LifeTypes, NEW r \in Requests, request[r].at # "none"
    PROVE  /\ request[r] \in LifeRequests /\ request[r].takes \in 0..MaxTakes
           /\ \A at \in {"working", "waiting", "answered", "failed", "dropped"} :
                 /\ [request[r] EXCEPT !.at = at] \in LifeRequests
                 /\ [request[r] EXCEPT !.at = at].at = at
                 /\ [request[r] EXCEPT !.at = at].takes = request[r].takes
           /\ r \in Life!ToSet(queue) <=> request[r].at = "waiting"
  <1>1. request[r] \in LifeRequests
    BY DEF LifeTypes
  <1>2. Life!ToSet(queue) = Waiting
    BY DEF LifeTypes
  <1> QED
    BY <1>1, <1>2 DEF LifeRequests, Waiting

LEMMA ArriveTypes ==
    ASSUME PoolAssumption, LifeTypes, NEW r \in Requests, NEW w \in Workers,
           NEW n \in 0..MaxTakes, Life!Arrive(r, w, n)
    PROVE  LifeTypes'
  <1> DEFINE y == [at |-> "working", worker |-> w, takes |-> n]
  <1>1. /\ request[r].at = "none" /\ request' = [request EXCEPT ![r] = y]
        /\ UNCHANGED <<phase, worker, has, queue, collector>>
    BY DEF Life!Arrive
  <1>2. y \in LifeRequests /\ y.at = "working"
    BY DEF LifeRequests
  <1>3. r \notin Life!ToSet(queue)
    BY <1>1 DEF LifeTypes, Waiting
  <1> HIDE DEF y
  <1> QED
    BY <1>1, <1>2, <1>3, PoolAlone, RequestMoves

LEMMA AskTypes ==
    ASSUME PoolAssumption, LifeTypes, NEW r \in Requests, Life!Ask(r)
    PROVE  LifeTypes'
  <1>1. /\ has[r] = 0 /\ request[r].at = "working" /\ request[r].takes > 0
        /\ UNCHANGED <<phase, worker, collector>>
    BY DEF Life!Ask, Life!Asks
  <1>2. /\ \A at \in {"failed", "waiting"} :
             /\ [request[r] EXCEPT !.at = at] \in LifeRequests
             /\ [request[r] EXCEPT !.at = at].at = at
             /\ [request[r] EXCEPT !.at = at].takes = request[r].takes
        /\ r \notin Life!ToSet(queue)
    <2>1. request[r].at # "none" /\ request[r].at # "waiting"
      BY <1>1
    <2>2. /\ \A at \in {"working", "waiting", "answered", "failed", "dropped"} :
               /\ [request[r] EXCEPT !.at = at] \in LifeRequests
               /\ [request[r] EXCEPT !.at = at].at = at
               /\ [request[r] EXCEPT !.at = at].takes = request[r].takes
          /\ r \in Life!ToSet(queue) <=> request[r].at = "waiting"
      BY <2>1, SomeRequest, Zenon
    <2>3. r \notin Life!ToSet(queue)
      BY <2>1, <2>2, Zenon
    <2> QED
      BY <2>2, <2>3, Zenon
  <1>3. has \in [Requests -> 0..MaxTakes] /\ queue \in Seq(Requests) /\ Life!IsInjective(queue)
    BY DEF LifeTypes
  <1>4. CASE Life!Closed
    <2>1. PICK y : y = [request[r] EXCEPT !.at = "failed"]
      OBVIOUS
    <2>2. /\ request' = [request EXCEPT ![r] = y] /\ has' = has /\ queue' = queue
          /\ y \in LifeRequests /\ y.at = "failed"
      BY <1>1, <1>2, <1>3, <1>4, <2>1 DEF Life!Ask, Life!Asks, Life!Moves
    <2> HIDE <1>4
    <2> QED
      BY <1>1, <1>2, <2>2, PoolAlone, RequestMoves
  <1>5. CASE ~ Life!Closed
    <2>1. PICK y : y = [request[r] EXCEPT !.at = "waiting"]
      OBVIOUS
    <2>2. /\ request' = [request EXCEPT ![r] = y] /\ has' = has /\ queue' = Append(queue, r)
          /\ y \in LifeRequests /\ y.at = "waiting" /\ y.takes > 0
      BY <1>1, <1>2, <1>5, <2>1 DEF Life!Ask, Life!Asks, Life!Moves
    <2>3. /\ queue' \in Seq(Requests) /\ Life!IsInjective(queue')
          /\ Life!ToSet(queue') = Life!ToSet(queue) \cup {r}
      BY <1>2, <1>3, <2>2, QueueGrows
    <2>4. Cardinality(Life!Lent)' <= Connections /\ IsFiniteSet(Life!Lent)'
      BY <2>2, LessLent
    <2> HIDE <1>5
    <2> QED
      BY <1>1, <1>3, <2>2, <2>3, <2>4, RequestMoves
  <1> QED
    BY <1>4, <1>5

LEMMA GrantTypes ==
    ASSUME PoolAssumption, LifeTypes, Life!Grant
    PROVE  LifeTypes'
  <1>1. PICK r : r = Head(queue)
    OBVIOUS
  <1>2. PICK y : y = [request[r] EXCEPT !.at = "working", !.takes = request[r].takes - 1]
    OBVIOUS
  <1>3. /\ queue # <<>> /\ Cardinality(Life!Lent) < Connections
        /\ request' = [request EXCEPT ![r] = y]
        /\ has' = [has EXCEPT ![r] = has[r] + 1] /\ queue' = Tail(queue)
        /\ UNCHANGED <<phase, worker, collector>>
    <2>1. Life!Cardinality(Life!Lent) = Cardinality(Life!Lent)
      BY SameCardinality
    <2>2. /\ queue # <<>> /\ Life!Cardinality(Life!Lent) < Connections
          /\ request' = [request EXCEPT ![r] = y]
          /\ has' = [has EXCEPT ![r] = has[r] + 1] /\ queue' = Tail(queue)
          /\ UNCHANGED <<phase, worker, collector>>
      BY <1>1, <1>2 DEF Life!Grant
    <2> QED
      BY <2>1, <2>2
  <1>4. /\ queue \in Seq(Requests) /\ Life!IsInjective(queue) /\ Life!ToSet(queue) = Waiting
        /\ has \in [Requests -> 0..MaxTakes] /\ WaitersHoldNothing
        /\ request \in [Requests -> LifeRequests]
    BY DEF LifeTypes
  <1>5. /\ r \in Requests /\ r \in Life!ToSet(queue)
        /\ queue' \in Seq(Requests) /\ Life!IsInjective(queue')
        /\ Life!ToSet(queue') = Life!ToSet(queue) \ {r}
    BY <1>1, <1>3, <1>4, FirstServed
  <1>6. request[r].at = "waiting" /\ has[r] = 0 /\ request[r].takes > 0
    <2>1. r \in Waiting
      BY <1>4, <1>5
    <2>2. request[r].at = "waiting"
      BY <2>1 DEF Waiting
    <2> QED
      BY <1>4, <1>5, <2>2 DEF WaitersHoldNothing
  <1>7. y \in LifeRequests /\ y.at = "working"
    <2>1. request[r] \in LifeRequests
      BY <1>4, <1>5
    <2>2. PICK x \in [at : {"waiting"}, worker : Workers, takes : 0..MaxTakes] :
             x = request[r] /\ x.takes > 0
      BY <1>6, <2>1 DEF LifeRequests
    <2>3. y = [at |-> "working", worker |-> x.worker, takes |-> x.takes - 1]
      BY <1>2, <2>2
    <2>4. x.takes - 1 \in 0..MaxTakes /\ x.worker \in Workers
      BY <2>2 DEF PoolAssumption
    <2> QED
      BY <2>3, <2>4 DEF LifeRequests
  <1>8. has' = [has EXCEPT ![r] = 1] /\ has' \in [Requests -> 0..MaxTakes]
    <2>1. has[r] + 1 = 1 /\ 1 \in 0..MaxTakes
      BY <1>6 DEF PoolAssumption
    <2>2. has' = [has EXCEPT ![r] = 1]
      BY <1>3, <2>1
    <2> QED
      BY <1>4, <2>1, <2>2
  <1>9. \A s \in Requests : s # r => has'[s] = has[s]
    BY <1>4, <1>8
  <1>10. Cardinality(Life!Lent)' <= Connections /\ IsFiniteSet(Life!Lent)'
    BY <1>3, <1>5, <1>6, <1>8, OneMoreLent
  <1> QED
    BY <1>3, <1>5, <1>7, <1>8, <1>9, <1>10, RequestMoves

LEMMA GiveBackTypes ==
    ASSUME PoolAssumption, LifeTypes, NEW r \in Requests, Life!GiveBack(r)
    PROVE  LifeTypes'
  <1>1. /\ request[r].at = "working" /\ has' = [has EXCEPT ![r] = 0]
        /\ UNCHANGED <<phase, worker, request, queue, collector>>
    BY DEF Life!GiveBack
  <1>2. has \in [Requests -> 0..MaxTakes] /\ MaxTakes \in Nat
    BY DEF LifeTypes, PoolAssumption
  <1>3. /\ has' \in [Requests -> 0..MaxTakes]
        /\ \A s \in Requests : has'[s] = has[s] \/ has'[s] = 0
    BY <1>1, <1>2
  <1>4. Cardinality(Life!Lent)' <= Connections /\ IsFiniteSet(Life!Lent)'
    BY <1>3, LessLent
  <1>5. WaitersHoldNothing'
    BY <1>1, <1>3 DEF LifeTypes, WaitersHoldNothing
  <1>6. \A s \in Requests : request'[s].at \notin {"working", "waiting"} => has'[s] = 0
    BY <1>1, <1>3 DEF LifeTypes
  <1>7. Waiting' = Waiting
    BY <1>1 DEF Waiting
  <1> QED
    BY <1>1, <1>3, <1>4, <1>5, <1>6, <1>7 DEF LifeTypes, Life!IsInjective, Life!ToSet

LEMMA AnswerTypes ==
    ASSUME PoolAssumption, LifeTypes, NEW r \in Requests, Life!AnswerIt(r)
    PROVE  LifeTypes'
  <1>1. PICK y : y = [request[r] EXCEPT !.at = "answered"]
    OBVIOUS
  <1>2. /\ request[r].at = "working" /\ has[r] = 0
        /\ request' = [request EXCEPT ![r] = y]
        /\ UNCHANGED <<phase, worker, has, queue, collector>>
    BY <1>1 DEF Life!AnswerIt, Life!Moves
  <1>3. y \in LifeRequests /\ y.at = "answered" /\ r \notin Life!ToSet(queue)
    BY <1>1, <1>2, SomeRequest
  <1> QED
    BY <1>2, <1>3, PoolAlone, RequestMoves

LEMMA AbandonTypes ==
    ASSUME PoolAssumption, LifeTypes, NEW r \in Requests, NEW at \in {"failed", "dropped"},
           request[r].at \in {"working", "waiting"}, Life!Abandon(r, at)
    PROVE  LifeTypes'
  <1>1. PICK y : y = [request[r] EXCEPT !.at = at]
    OBVIOUS
  <1>2. /\ request' = [request EXCEPT ![r] = y] /\ has' = [has EXCEPT ![r] = 0]
        /\ queue' = IF r \in Life!ToSet(queue)
                    THEN Life!RemoveAt(queue, CHOOSE i \in DOMAIN queue : queue[i] = r)
                    ELSE queue
        /\ UNCHANGED <<phase, worker, collector>>
    BY <1>1 DEF Life!Abandon, Life!Moves
  <1>3. y \in LifeRequests /\ y.at = at
    BY <1>1, SomeRequest
  <1>4. /\ queue \in Seq(Requests) /\ Life!IsInjective(queue)
        /\ has \in [Requests -> 0..MaxTakes] /\ MaxTakes \in Nat
    BY DEF LifeTypes, PoolAssumption
  <1>5. /\ queue' \in Seq(Requests) /\ Life!IsInjective(queue')
        /\ Life!ToSet(queue') = Life!ToSet(queue) \ {r}
    BY <1>2, <1>4, OneLeaves
  <1>6. /\ has' \in [Requests -> 0..MaxTakes] /\ has'[r] = 0
        /\ \A s \in Requests : s # r => has'[s] = has[s]
    BY <1>2, <1>4
  <1>7. Cardinality(Life!Lent)' <= Connections /\ IsFiniteSet(Life!Lent)'
    BY <1>6, LessLent
  <1> QED
    BY <1>2, <1>3, <1>5, <1>6, <1>7, RequestMoves

LEMMA ServerEndsTypes ==
    ASSUME PoolAssumption, LifeTypes, Life!ServerEnds
    PROVE  LifeTypes'
  <1>1. /\ phase' = "closing" /\ worker' = worker /\ has' = has /\ queue' = <<>>
        /\ collector' = Life!Dropped(worker, FALSE)
        /\ request' = [r \in Requests |->
                         IF request[r].at = "waiting" THEN [request[r] EXCEPT !.at = "failed"]
                         ELSE request[r]]
    BY DEF Life!ServerEnds
  <1>2. ASSUME NEW r \in Requests
        PROVE  /\ request'[r] \in LifeRequests /\ request'[r].at # "waiting"
               /\ request'[r].at \notin {"working", "waiting"} => has[r] = 0
    <2>1. CASE request[r].at = "waiting"
      <3>1. [request[r] EXCEPT !.at = "failed"] \in LifeRequests
            /\ [request[r] EXCEPT !.at = "failed"].at = "failed"
        BY <2>1, SomeRequest
      <3>2. request'[r] = [request[r] EXCEPT !.at = "failed"] /\ has[r] = 0
        BY <1>1, <2>1 DEF LifeTypes, WaitersHoldNothing
      <3> QED
        BY <3>1, <3>2
    <2>2. CASE request[r].at # "waiting"
      BY <1>1, <2>2 DEF LifeTypes
    <2> QED
      BY <2>1, <2>2
  <1>3. request' \in [Requests -> LifeRequests] /\ Waiting' = {}
    BY <1>1, <1>2 DEF Waiting
  <1>4. Life!Lent' = Life!Lent
    BY <1>1 DEF Life!Lent
  <1>5. queue' \in Seq(Requests) /\ Life!IsInjective(queue') /\ Life!ToSet(queue') = {}
    BY <1>1 DEF Life!IsInjective, Life!ToSet
  <1>6. collector' \in {"running", "cancelled", "dropped"}
    BY <1>1 DEF Life!Dropped, LifeTypes
  <1>7. WaitersHoldNothing'
    BY <1>2 DEF WaitersHoldNothing
  <1> QED
    BY <1>1, <1>2, <1>3, <1>4, <1>5, <1>6, <1>7
       DEF LifeTypes, Life!IsInjective, Life!ToSet

\* The steps that are about neither requests nor the pool.
LEMMA OtherTypes ==
    ASSUME LifeTypes, UNCHANGED <<request, has, queue>>,
           phase' \in {"serving", "stopping", "closing", "down"},
           worker' \in [Workers -> {"up", "forced", "gone"}],
           collector' \in {"running", "cancelled", "dropped"}
    PROVE  LifeTypes'
  <1>1. Life!Lent' = Life!Lent /\ Waiting' = Waiting
    BY DEF Life!Lent, Waiting
  <1> QED
    BY <1>1 DEF LifeTypes, WaitersHoldNothing, Life!IsInjective, Life!ToSet

LEMMA LifeTypesStep == PoolAssumption /\ LifeTypes /\ [Life!Next]_Life!vars => LifeTypes'
  <1> SUFFICES ASSUME PoolAssumption, LifeTypes, [Life!Next]_Life!vars PROVE LifeTypes'
    OBVIOUS
  <1>1. /\ phase \in {"serving", "stopping", "closing", "down"}
        /\ worker \in [Workers -> {"up", "forced", "gone"}]
        /\ collector \in {"running", "cancelled", "dropped"}
    BY DEF LifeTypes
  <1>2. ASSUME NEW r \in Requests, Life!TimeOut(r) \/ Life!LetGo(r) PROVE LifeTypes'
    <2>1. CASE Life!TimeOut(r)
      BY <2>1, AbandonTypes DEF Life!TimeOut
    <2>2. CASE Life!LetGo(r)
      BY <2>2, AbandonTypes DEF Life!LetGo, Life!Busy
    <2> QED
      BY <1>2, <2>1, <2>2
  <1>3. CASE Life!Signal \/ Life!Return \/ UNCHANGED Life!vars
    BY <1>1, <1>3, OtherTypes DEF Life!Signal, Life!Return, Life!vars
  <1>4. ASSUME NEW w \in Workers, Life!WorkerEnds(w) \/ Life!StopByForce(w) PROVE LifeTypes'
    <2>1. UNCHANGED <<request, has, queue>> /\ phase' = phase
      BY <1>4 DEF Life!WorkerEnds, Life!StopByForce
    <2>2. worker' \in [Workers -> {"up", "forced", "gone"}]
      BY <1>1, <1>4 DEF Life!WorkerEnds, Life!Ends, Life!StopByForce
    <2>3. collector' \in {"running", "cancelled", "dropped"}
      BY <1>1, <1>4 DEF Life!WorkerEnds, Life!Ends, Life!StopByForce, Life!Dropped
    <2> QED
      BY <1>1, <2>1, <2>2, <2>3, OtherTypes
  <1> QED
    BY <1>2, <1>3, <1>4, ArriveTypes, AskTypes, GrantTypes, GiveBackTypes, AnswerTypes,
       ServerEndsTypes
       DEF Life!Next, Life!Work

\* Type correctness of the workers, the requests and the pool, which never lends
\* more connections than it has, in its state or to one request twice.
THEOREM PoolTypesCorrect ==
    ASSUME PoolAssumption
    PROVE  Life!Spec => []Life!TypeOK
  <1>1. Life!Init => LifeTypes
    BY LifeTypesInit
  <1>2. LifeTypes /\ [Life!Next]_Life!vars => LifeTypes'
    BY LifeTypesStep
  <1>3. LifeTypes => Life!TypeOK
    <2> SUFFICES ASSUME LifeTypes PROVE Life!TypeOK
      OBVIOUS
    <2>1. \A r \in Requests \ Life!Busy : has[r] = 0
      BY DEF LifeTypes, Life!Busy
    <2>2. request \in [Requests -> [at : {"none"}] \cup
             [at : {"working", "waiting", "answered", "failed", "dropped"},
              worker : Workers, takes : 0..MaxTakes]]
      BY DEF LifeTypes, LifeRequests
    <2>3. Life!ToSet(queue) = {r \in Requests : request[r].at = "waiting"}
      BY DEF LifeTypes, Waiting
    <2>4. /\ phase \in {"serving", "stopping", "closing", "down"}
          /\ worker \in [Workers -> {"up", "forced", "gone"}]
          /\ collector \in {"running", "cancelled", "dropped"}
          /\ queue \in Seq(Requests) /\ Life!IsInjective(queue)
          /\ has \in [Requests -> 0..MaxTakes] /\ Cardinality(Life!Lent) <= Connections
      BY DEF LifeTypes
    <2>5. Life!Cardinality(Life!Lent) = Cardinality(Life!Lent)
      BY SameCardinality
    <2> QED
      BY <2>1, <2>2, <2>3, <2>4, <2>5 DEF Life!TypeOK
  <1> QED
    BY <1>1, <1>2, <1>3, PTL DEF Life!Spec

\* No handler that waits for a connection has one: those that are lent are with
\* handlers that need no other (AppState's pool is taken by one transaction or
\* one statement at a time).
THEOREM NobodyWaitsHolding ==
    ASSUME PoolAssumption
    PROVE  Life!Spec => []WaitersHoldNothing
  <1>1. Life!Init => LifeTypes
    BY LifeTypesInit
  <1>2. LifeTypes /\ [Life!Next]_Life!vars => LifeTypes'
    BY LifeTypesStep
  <1>3. LifeTypes => WaitersHoldNothing
    BY DEF LifeTypes
  <1> QED
    BY <1>1, <1>2, <1>3, PTL DEF Life!Spec
=============================================================================
