---------------------------- MODULE TokenStorage ----------------------------
(***************************************************************************)
(* OAuth tokens of the server: the password and the refresh_token grants   *)
(* of POST /oauth/v2/token, the access tokens kept in a DashMap, the       *)
(* refresh tokens kept in the SQLite table `tokens`, and everything that   *)
(* runs beside them: the garbage collector, validation of access tokens,   *)
(* creation and deletion of API clients, other writers of the database,    *)
(* dropped requests and restarts of the server.                            *)
(*                                                                         *)
(* One element of Tokens stands for the two random strings one call of     *)
(* new_token or refresh generates: the access token and the refresh token  *)
(* of the same response.  Random strings never repeat.                     *)
(*                                                                         *)
(* SQLite runs in WAL mode behind deferred transactions.  A transaction    *)
(* whose first statement writes waits for the write lock (`lock`) up to    *)
(* the busy timeout; one that has read and then writes fails at once when  *)
(* the lock is taken, or when another connection committed a change after  *)
(* the snapshot of its read (`stale`).                                     *)
(***************************************************************************)
EXTENDS Integers, FiniteSets

CONSTANTS
    Clients,                    \* rows of the clients table that ever exist
    Tokens,                     \* (access token, refresh token) pairs
    Requests,                   \* requests the server handles at the same time
    ExpirationTime,             \* EXPIRATION_TIME
    RefreshTokenExpirationTime, \* REFRESH_TOKEN_EXPIRATION_TIME
    MaxTime,                    \* bound: the clock stops here
    None,                       \* absence of a row, an entry, a holder
    Foreign                     \* a writer that is not one of Requests

ASSUME TimesAssumption ==
    /\ ExpirationTime \in Nat
    /\ RefreshTokenExpirationTime \in Nat \ {0}
    /\ MaxTime \in Nat

ASSUME DistinctAssumption ==
    /\ None \notin Clients \cup Tokens \cup Requests
    /\ None \notin [client : Clients, expiresAt : Nat]
    /\ Foreign \notin Requests \cup {None}

VARIABLES
    now,        \* Utc::now(), and strftime('%s', 'now') of SQLite
    clients,    \* [Clients -> {"unborn", "live", "deleted"}]
    rows,       \* the committed rows of the table tokens
    access,     \* TokenStorageInner.access_tokens
    lock,       \* who holds the write lock of the database
    stale,      \* requests whose open snapshot is out of date
    pc,         \* where the handler of each request is
    client,     \* the client a request names
    presented,  \* the refresh token a request presents
    found,      \* internal_token: the row refresh found
    fresh,      \* the strings drawn for a request
    readAt      \* the clock as a request last read it

(***************************************************************************)
(* History variables: no guard of an action reads them but `minted`, which *)
(* keeps a random string from being drawn twice, and `delivered`, which    *)
(* says what an API client can present.                                    *)
(***************************************************************************)
VARIABLES
    minted,     \* the entry each access token was inserted with
    stored,     \* the row each refresh token was committed with
    successors, \* the refresh tokens committed in exchange for a token
    delivered,  \* tokens whose response reached the API client
    session,    \* those delivered since the server last started
    deletedAt   \* when a client was deleted

storage == <<rows, access, minted, stored, successors>>
environment == <<clients, deletedAt>>
answers == <<delivered, session>>
asked == <<client, presented>>
locals == <<found, fresh, readAt>>
vars == <<now, clients, rows, access, lock, stale, pc, asked, locals,
          minted, stored, successors, delivered, session, deletedAt>>

-----------------------------------------------------------------------------
(* Data *)

\* InternalToken and TokenRow: the claim and the expiry.  A client belongs
\* to one user for ever, so the client stands for the whole claim.
TokenRow == [client : Clients, expiresAt : Nat]

AccessEntry(c, at) == [client |-> c, expiresAt |-> at + ExpirationTime]

\* tokens::create: expires_at is strftime('%s', 'now') + expires_in.
NewRow(c, at) == [client |-> c, expiresAt |-> at + RefreshTokenExpirationTime]

\* Mutant: rows that expire this very second survive the purge.
DeleteExpiredBefore(table, at) ==
    [t \in Tokens |-> IF table[t] # None /\ table[t].expiresAt < at
                      THEN None ELSE table[t]]

\* The row as of `at`: what DELETE ... WHERE expires_at <= now leaves.
DeleteExpired(table, at) ==
    [t \in Tokens |-> IF table[t] # None /\ table[t].expiresAt <= at
                      THEN None ELSE table[t]]

\* Mutant: no action on delete.
CascadeNothing(table, c) == table

\* tokens.client_id REFERENCES clients(id) ON DELETE CASCADE.
Cascade(table, c) ==
    [t \in Tokens |-> IF table[t] # None /\ table[t].client = c
                      THEN None ELSE table[t]]

\* Where a request can be, in the order of the handlers.
PasswordSteps == {"find_user", "insert_access", "create"}
RefreshSteps == {"find_client", "delete_expired", "commit_purge",
                 "find", "delete", "create_in_tx", "commit"}
Steps == {"idle", "respond"} \cup PasswordSteps \cup RefreshSteps

\* Random strings nobody has drawn yet.
Unused == {t \in Tokens : minted[t] = None}

\* Bound: a request starts only while a string is left for everyone in flight.
StringsLeft ==
    Cardinality({r \in Requests : pc[r] # "idle"}) < Cardinality(Unused)

\* generate_token for r, and the access token enters the map.
PutAccess(r, entry) ==
    \E t \in Unused :
        /\ access' = [access EXCEPT ![t] = entry]
        /\ minted' = [minted EXCEPT ![t] = entry]
        /\ fresh' = [fresh EXCEPT ![r] = t]

-----------------------------------------------------------------------------
(* The SQLite write lock and the snapshots of the open transactions *)

\* Requests inside refresh's second transaction, after its SELECT: they hold
\* a snapshot and no lock yet.
Readers == {r \in Requests : pc[r] = "delete"}

\* A commit that changed the database leaves every open snapshot behind.
OutdateSnapshots == stale' = stale \cup Readers

\* r is answered, fails or is dropped: its transaction is rolled back.
Release(r) ==
    /\ pc' = [pc EXCEPT ![r] = "idle"]
    /\ client' = [client EXCEPT ![r] = None]
    /\ presented' = [presented EXCEPT ![r] = None]
    /\ found' = [found EXCEPT ![r] = None]
    /\ fresh' = [fresh EXCEPT ![r] = None]
    /\ readAt' = [readAt EXCEPT ![r] = 0]
    /\ lock' = IF lock = r THEN None ELSE lock
    /\ stale' = stale \ {r}

\* The end of a request that changed nothing but its own transaction.
Fail(r) ==
    /\ Release(r)
    /\ UNCHANGED <<now, storage, environment, answers>>

-----------------------------------------------------------------------------
(* grant_type=password: oauth::new_token, TokenStorage::new_token *)

StartPassword(r, c) ==
    /\ pc[r] = "idle"
    /\ clients[c] # "unborn"
    /\ StringsLeft
    /\ pc' = [pc EXCEPT ![r] = "find_user"]
    /\ client' = [client EXCEPT ![r] = c]
    /\ UNCHANGED <<now, presented, locals, storage, environment, lock, stale, answers>>

\* One read transaction looks up the user and the client and commits; a
\* wrong password or a missing client ends the request.
FindUserAndClient(r) ==
    /\ pc[r] = "find_user"
    /\ clients[client[r]] = "live"
    /\ pc' = [pc EXCEPT ![r] = "insert_access"]
    /\ UNCHANGED <<now, asked, locals, storage, environment, lock, stale, answers>>

UnknownClient(r) ==
    /\ pc[r] \in {"find_user", "find_client"}
    /\ clients[client[r]] # "live"
    /\ Fail(r)

\* generate_token twice, then the DashMap: before anything is stored.
InsertAccess(r) ==
    /\ pc[r] = "insert_access"
    /\ PutAccess(r, AccessEntry(client[r], now))
    /\ pc' = [pc EXCEPT ![r] = "create"]
    /\ UNCHANGED <<now, asked, found, readAt, rows, stored, successors, environment,
                   lock, stale, answers>>

\* tokens::create on a connection of the pool: one INSERT that commits.
CreateRow(r) ==
    /\ pc[r] = "create"
    /\ lock = None
    /\ clients[client[r]] = "live"
    /\ LET row == NewRow(client[r], now)
       IN  /\ rows' = [rows EXCEPT ![fresh[r]] = row]
           /\ stored' = [stored EXCEPT ![fresh[r]] = row]
    /\ OutdateSnapshots
    /\ pc' = [pc EXCEPT ![r] = "respond"]
    /\ UNCHANGED <<now, asked, locals, access, minted, successors, environment, lock, answers>>

\* The client went away after it was looked up: the foreign key refuses the
\* row, the request fails and the access token stays in the map.
CreateRefused(r) ==
    /\ pc[r] = "create"
    /\ lock = None
    /\ clients[client[r]] # "live"
    /\ Fail(r)

-----------------------------------------------------------------------------
(* grant_type=refresh_token: oauth::refresh_token, TokenStorage::refresh *)

StartRefresh(r, c, t) ==
    /\ pc[r] = "idle"
    /\ clients[c] # "unborn"
    /\ t \in delivered
    /\ StringsLeft
    /\ pc' = [pc EXCEPT ![r] = "find_client"]
    /\ client' = [client EXCEPT ![r] = c]
    /\ presented' = [presented EXCEPT ![r] = t]
    /\ UNCHANGED <<now, locals, storage, environment, lock, stale, answers>>

\* find_by_client_id_and_secret: a read of its own.  Nothing compares the
\* client with the one of the row the token is about to be found in.
FindClient(r) ==
    /\ pc[r] = "find_client"
    /\ clients[client[r]] = "live"
    /\ pc' = [pc EXCEPT ![r] = "delete_expired"]
    /\ UNCHANGED <<now, asked, locals, storage, environment, lock, stale, answers>>

\* First transaction: DELETE takes the write lock and reads the clock ...
TakePurgeLock(r) ==
    /\ pc[r] = "delete_expired"
    /\ lock = None
    /\ lock' = r
    /\ pc' = [pc EXCEPT ![r] = "commit_purge"]
    /\ readAt' = [readAt EXCEPT ![r] = now]
    /\ UNCHANGED <<now, asked, found, fresh, storage, environment, stale, answers>>

\* ... and COMMIT; a purge that found nothing changes no page.
CommitPurge(r) ==
    /\ pc[r] = "commit_purge"
    /\ rows' = DeleteExpired(rows, readAt[r])
    /\ IF rows' = rows THEN UNCHANGED stale ELSE OutdateSnapshots
    /\ lock' = None
    /\ pc' = [pc EXCEPT ![r] = "find"]
    /\ UNCHANGED <<now, asked, locals, access, minted, stored, successors,
                   environment, answers>>

\* Second transaction: SELECT opens the snapshot; expiry is not looked at.
Find(r) ==
    /\ pc[r] = "find"
    /\ rows[presented[r]] # None
    /\ pc' = [pc EXCEPT ![r] = "delete"]
    /\ found' = [found EXCEPT ![r] = rows[presented[r]]]
    /\ UNCHANGED <<now, asked, fresh, readAt, storage, environment, lock, stale, answers>>

\* No such row: the transaction commits, the answer is invalid_grant.
InvalidGrant(r) ==
    /\ pc[r] = "find"
    /\ rows[presented[r]] = None
    /\ Fail(r)

\* Mutant: the row is deleted on another connection than it was found on.
DeleteOutsideSnapshot(r) ==
    /\ pc[r] = "delete"
    /\ lock = None
    /\ lock' = r
    /\ pc' = [pc EXCEPT ![r] = "create_in_tx"]
    /\ readAt' = [readAt EXCEPT ![r] = now]
    /\ UNCHANGED <<now, asked, found, fresh, storage, environment, stale, answers>>

\* The clock is read for the new access token, then DELETE upgrades the
\* read transaction.
Delete(r) ==
    /\ pc[r] = "delete"
    /\ lock = None
    /\ r \notin stale
    /\ lock' = r
    /\ pc' = [pc EXCEPT ![r] = "create_in_tx"]
    /\ readAt' = [readAt EXCEPT ![r] = now]
    /\ UNCHANGED <<now, asked, found, fresh, storage, environment, stale, answers>>

\* Mutant: a reader left behind keeps retrying on its old snapshot.
RetryOnOldSnapshot(r) ==
    /\ pc[r] = "delete"
    /\ lock # None
    /\ Fail(r)

\* SQLITE_BUSY or SQLITE_BUSY_SNAPSHOT, without waiting.
UpgradeRefused(r) ==
    /\ pc[r] = "delete"
    /\ lock # None \/ r \in stale
    /\ Fail(r)

\* Mutant: the claim of the client that asks, not of the row.
ClaimOfCaller(r) ==
    /\ pc[r] = "create_in_tx"
    /\ clients[found[r].client] = "live"
    /\ PutAccess(r, AccessEntry(client[r], readAt[r]))
    /\ pc' = [pc EXCEPT ![r] = "commit"]
    /\ readAt' = [readAt EXCEPT ![r] = now]
    /\ UNCHANGED <<now, asked, found, rows, stored, successors, environment,
                   lock, stale, answers>>

\* The new access token enters the map before the transaction commits; then
\* INSERT, whose foreign key sees the client of the row just found.
InsertAccessAndCreate(r) ==
    /\ pc[r] = "create_in_tx"
    /\ clients[found[r].client] = "live"
    /\ PutAccess(r, AccessEntry(found[r].client, readAt[r]))
    /\ pc' = [pc EXCEPT ![r] = "commit"]
    /\ readAt' = [readAt EXCEPT ![r] = now]
    /\ UNCHANGED <<now, asked, found, rows, stored, successors, environment,
                   lock, stale, answers>>

\* Mutant: the presented row is not deleted.
CommitKeepingPresented(r) ==
    /\ pc[r] = "commit"
    /\ LET row == NewRow(found[r].client, readAt[r])
       IN  /\ rows' = [rows EXCEPT ![fresh[r]] = row]
           /\ stored' = [stored EXCEPT ![fresh[r]] = row]
    /\ successors' = [successors EXCEPT ![presented[r]] =
                                            @ \cup {fresh[r]}]
    /\ OutdateSnapshots
    /\ lock' = None
    /\ pc' = [pc EXCEPT ![r] = "respond"]
    /\ UNCHANGED <<now, asked, locals, access, minted, environment, answers>>

\* The presented row goes and the new one appears in the same commit.
Commit(r) ==
    /\ pc[r] = "commit"
    /\ LET row == NewRow(found[r].client, readAt[r])
       IN  /\ rows' = [rows EXCEPT ![presented[r]] = None,
                                   ![fresh[r]] = row]
           /\ stored' = [stored EXCEPT ![fresh[r]] = row]
    /\ successors' = [successors EXCEPT ![presented[r]] =
                                            @ \cup {fresh[r]}]
    /\ OutdateSnapshots
    /\ lock' = None
    /\ pc' = [pc EXCEPT ![r] = "respond"]
    /\ UNCHANGED <<now, asked, locals, access, minted, environment, answers>>

-----------------------------------------------------------------------------
(* The end of a request *)

\* The response reaches the API client.
Respond(r) ==
    /\ pc[r] = "respond"
    /\ delivered' = delivered \cup {fresh[r]}
    /\ session' = session \cup {fresh[r]}
    /\ Release(r)
    /\ UNCHANGED <<now, storage, environment>>

\* A statement that waits for the lock gives up after the busy timeout.
BusyTimeout(r) ==
    /\ pc[r] \in {"create", "delete_expired"}
    /\ lock # None
    /\ Fail(r)

\* The connection is lost or a statement fails: the handler's future is
\* dropped wherever it is, its transaction is rolled back, the entry it put
\* in the map stays.  After the commit only the response is lost.
Abort(r) ==
    /\ pc[r] # "idle"
    /\ Fail(r)

-----------------------------------------------------------------------------
(* What runs beside the requests *)

\* TokenStorage::validate finds an expired access token and removes it.
Validate(t) ==
    /\ access[t] # None
    /\ access[t].expiresAt < now
    /\ access' = [access EXCEPT ![t] = None]
    /\ UNCHANGED <<now, rows, minted, stored, successors, environment,
                   lock, stale, pc, asked, locals, answers>>

\* Mutant: expiry is left to the collector.
AcceptsWhileInMap(t) == access[t] # None

\* What auth_extractor lets through.
Accepts(t) == access[t] # None /\ ~(access[t].expiresAt < now)

\* Mutant: retain with the comparison the wrong way round.
GcSwapped ==
    /\ access' = [t \in Tokens |-> IF access[t] # None /\ access[t].expiresAt < now
                                   THEN access[t] ELSE None]
    /\ access' # access
    /\ UNCHANGED <<now, rows, minted, stored, successors, environment,
                   lock, stale, pc, asked, locals, answers>>

\* TokenStorage::gc, every GC_PERIOD: retain(expires_at > now).
Gc ==
    /\ access' = [t \in Tokens |-> IF access[t] # None /\ access[t].expiresAt > now
                                   THEN access[t] ELSE None]
    /\ access' # access
    /\ UNCHANGED <<now, rows, minted, stored, successors, environment,
                   lock, stale, pc, asked, locals, answers>>

\* clients::create, from the web UI or articlerctl: one INSERT.
CreateClient(c) ==
    /\ clients[c] = "unborn"
    /\ lock = None
    /\ clients' = [clients EXCEPT ![c] = "live"]
    /\ OutdateSnapshots
    /\ UNCHANGED <<now, storage, deletedAt, lock, pc, asked, locals, answers>>

\* clients::delete_by_id, from the web UI: one DELETE that cascades.
DeleteClient(c) ==
    /\ clients[c] = "live"
    /\ lock = None
    /\ clients' = [clients EXCEPT ![c] = "deleted"]
    /\ deletedAt' = [deletedAt EXCEPT ![c] = now]
    /\ rows' = Cascade(rows, c)
    /\ OutdateSnapshots
    /\ UNCHANGED <<now, access, minted, stored, successors, lock, pc, asked, locals, answers>>

\* Some other write of the server or of articlerctl takes the lock ...
ForeignBegin ==
    /\ lock = None
    /\ lock' = Foreign
    /\ UNCHANGED <<now, storage, environment, stale, pc, asked, locals, answers>>

\* ... and commits to tables of no interest here.
ForeignCommit ==
    /\ lock = Foreign
    /\ lock' = None
    /\ OutdateSnapshots
    /\ UNCHANGED <<now, storage, environment, pc, asked, locals, answers>>

\* The server stops, cleanly or not, and starts again: the map is empty, the
\* database is what was committed.
Restart ==
    /\ access' = [t \in Tokens |-> None]
    /\ pc' = [r \in Requests |-> "idle"]
    /\ client' = [r \in Requests |-> None]
    /\ presented' = [r \in Requests |-> None]
    /\ found' = [r \in Requests |-> None]
    /\ fresh' = [r \in Requests |-> None]
    /\ readAt' = [r \in Requests |-> 0]
    /\ stale' = {}
    /\ lock' = IF lock = Foreign THEN Foreign ELSE None
    /\ session' = {}
    /\ UNCHANGED <<now, rows, minted, stored, successors, environment, delivered>>

Tick ==
    /\ now < MaxTime
    /\ now' = now + 1
    /\ UNCHANGED <<storage, environment, lock, stale, pc, asked, locals, answers>>

-----------------------------------------------------------------------------
Init ==
    /\ now = 0
    /\ clients = [c \in Clients |-> "unborn"]
    /\ rows = [t \in Tokens |-> None]
    /\ access = [t \in Tokens |-> None]
    /\ lock = None
    /\ stale = {}
    /\ pc = [r \in Requests |-> "idle"]
    /\ client = [r \in Requests |-> None]
    /\ presented = [r \in Requests |-> None]
    /\ found = [r \in Requests |-> None]
    /\ fresh = [r \in Requests |-> None]
    /\ readAt = [r \in Requests |-> 0]
    /\ minted = [t \in Tokens |-> None]
    /\ stored = [t \in Tokens |-> None]
    /\ successors = [t \in Tokens |-> {}]
    /\ delivered = {}
    /\ session = {}
    /\ deletedAt = [c \in Clients |-> 0]

\* The next step of a handler that is already running.
Handler(r) ==
    \/ FindUserAndClient(r) \/ UnknownClient(r)
    \/ InsertAccess(r) \/ CreateRow(r) \/ CreateRefused(r)
    \/ FindClient(r) \/ TakePurgeLock(r) \/ CommitPurge(r)
    \/ Find(r) \/ InvalidGrant(r)
    \/ Delete(r) \/ UpgradeRefused(r)
    \/ InsertAccessAndCreate(r) \/ Commit(r)
    \/ Respond(r) \/ BusyTimeout(r)

Next ==
    \/ \E r \in Requests : Handler(r) \/ Abort(r)
    \/ \E r \in Requests, c \in Clients : StartPassword(r, c)
    \/ \E r \in Requests, c \in Clients, t \in Tokens : StartRefresh(r, c, t)
    \/ \E t \in Tokens : Validate(t)
    \/ \E c \in Clients : CreateClient(c) \/ DeleteClient(c)
    \/ Gc \/ ForeignBegin \/ ForeignCommit \/ Restart \/ Tick

Spec == Init /\ [][Next]_vars

\* The runtime keeps polling a handler that can move and the interval of the
\* collector keeps ticking; requests, clients and restarts are not promised.
Fairness ==
    /\ \A r \in Requests : WF_vars(Handler(r))
    /\ WF_vars(Gc)

FairSpec == Spec /\ Fairness

-----------------------------------------------------------------------------
(* Properties *)

\* Every variable keeps its shape: columns and fields of the types of
\* TokenRow, InternalToken and the handlers' locals.
TypeOK ==
    /\ now \in Nat
    /\ clients \in [Clients -> {"unborn", "live", "deleted"}]
    /\ rows \in [Tokens -> TokenRow \cup {None}]
    /\ access \in [Tokens -> TokenRow \cup {None}]
    /\ lock \in Requests \cup {None, Foreign}
    /\ stale \in SUBSET Requests
    /\ pc \in [Requests -> Steps]
    /\ client \in [Requests -> Clients \cup {None}]
    /\ presented \in [Requests -> Tokens \cup {None}]
    /\ found \in [Requests -> TokenRow \cup {None}]
    /\ fresh \in [Requests -> Tokens \cup {None}]
    /\ readAt \in [Requests -> Nat]
    /\ minted \in [Tokens -> TokenRow \cup {None}]
    /\ stored \in [Tokens -> TokenRow \cup {None}]
    /\ successors \in [Tokens -> SUBSET Tokens]
    /\ delivered \in SUBSET Tokens
    /\ session \in SUBSET Tokens
    /\ deletedAt \in [Clients -> Nat]

\* However many requests present the same refresh token, in whatever order
\* their statements run, at most one of them gets a token for it
\* (TokenStorage::refresh finds, deletes and creates in one transaction).
SingleUse ==
    \A t \in Tokens : \A u, v \in successors[t] : u = v

\* A refresh token once stored is redeemable as it was stored unless it was
\* exchanged, its client was deleted or it expired: no failed, dropped or
\* crashed request spends it, and an exchange that committed spends it.
RedeemableUntilSpent ==
    \A t \in Tokens : stored[t] # None =>
        \/ rows[t] = stored[t] /\ successors[t] = {}
        \/ rows[t] = None /\ \/ successors[t] # {}
                             \/ clients[stored[t].client] = "deleted"
                             \/ stored[t].expiresAt <= now

\* No row of tokens outlives its client, although the password grant looks
\* the client up in one transaction and inserts in another.
RowsHaveClients ==
    \A t \in Tokens : rows[t] # None => clients[rows[t].client] = "live"

\* Both tokens obtained for a refresh token carry the claim it was issued
\* with, whichever client presented it.
ClaimInherited ==
    \A t \in Tokens : \A u \in successors[t] :
        /\ stored[u].client = stored[t].client
        /\ minted[u].client = stored[t].client

\* An access token an API client was given since the server started is let
\* through until it expires, whatever requests, purges, collections and
\* deletions of clients happen meanwhile.
AccessUntilExpiry ==
    \A t \in session : now < minted[t].expiresAt => Accepts(t)

\* An access token an API client was given is let through for at most
\* EXPIRATION_TIME after its client was deleted.  (One whose response never
\* left can live longer: it may enter the map after the deletion.)
AccessOutlivesClientBriefly ==
    \A t \in delivered :
        Accepts(t) /\ clients[access[t].client] = "deleted" =>
            now <= deletedAt[access[t].client] + ExpirationTime

\* The row a refresh is about to exchange had not expired when the same
\* request purged the table, although find does not look at expires_at.
FoundUnexpiredAtPurge ==
    \A r \in Requests : pc[r] = "delete" =>
        found[r].expiresAt > readAt[r]

\* Every request ends: nobody waits for the write lock for ever.
RequestsEnd ==
    \A r \in Requests : pc[r] # "idle" ~> pc[r] = "idle"

\* The collector frees the entry of every expired access token, also of the
\* ones nobody presents again.
ExpiredCollected ==
    \A t \in Tokens :
        (access[t] # None /\ access[t].expiresAt <= now) ~> access[t] = None

\* The handlers implement the atomic operations of TokenService: whatever
\* interleaves, what the tables go through is a sequence of whole grants,
\* purges, registrations and revocations.
Service == INSTANCE TokenService WITH Lifetime <- RefreshTokenExpirationTime
ImplementsService == Service!Spec
=============================================================================
