---------------------------- MODULE TokenService ----------------------------
(***************************************************************************)
(* What the token endpoint promises about refresh tokens, as one atomic    *)
(* operation each: a token is issued for a live client, is exchanged for   *)
(* exactly one other of the same client, goes when it has expired or when  *)
(* its client is deleted, and never comes back.  TokenStorage reaches      *)
(* these steps through handlers that interleave, fail and are restarted.   *)
(***************************************************************************)
EXTENDS Integers

CONSTANTS
    Clients,    \* clients that can ever be registered
    Tokens,     \* refresh tokens that can ever be issued
    Lifetime,   \* of a refresh token
    MaxTime,    \* bound: the clock stops here
    None        \* absence of a token

VARIABLES
    now,        \* the clock
    clients,    \* [Clients -> {"unborn", "live", "deleted"}]
    rows,       \* the tokens that can be exchanged now
    stored,     \* every token ever issued, as it was issued
    successors  \* what each token was exchanged for

vars == <<now, clients, rows, stored, successors>>

Init ==
    /\ now = 0
    /\ clients = [c \in Clients |-> "unborn"]
    /\ rows = [t \in Tokens |-> None]
    /\ stored = [t \in Tokens |-> None]
    /\ successors = [t \in Tokens |-> {}]

\* A password grant.
Issue(t, c) ==
    /\ clients[c] = "live"
    /\ stored[t] = None
    /\ rows' = [rows EXCEPT ![t] = [client |-> c, expiresAt |-> now + Lifetime]]
    /\ stored' = [stored EXCEPT ![t] = rows'[t]]
    /\ UNCHANGED <<now, clients, successors>>

\* A refresh_token grant: t is spent and u takes its place, dated at some
\* moment of the grant.
Exchange(t, u) ==
    /\ rows[t] # None
    /\ successors[t] = {}
    /\ clients[rows[t].client] = "live"
    /\ stored[u] = None
    /\ \E at \in 0..now :
          rows' = [rows EXCEPT ![t] = None,
                               ![u] = [client |-> rows[t].client,
                                       expiresAt |-> at + Lifetime]]
    /\ stored' = [stored EXCEPT ![u] = rows'[u]]
    /\ successors' = [successors EXCEPT ![t] = {u}]
    /\ UNCHANGED <<now, clients>>

\* Some of the expired tokens are purged.
Expire ==
    /\ rows' \in {[t \in Tokens |-> IF t \in gone THEN None ELSE rows[t]] :
                    gone \in SUBSET {t \in Tokens : rows[t] # None
                                                    /\ rows[t].expiresAt <= now}}
    /\ UNCHANGED <<now, clients, stored, successors>>

Register(c) ==
    /\ clients[c] = "unborn"
    /\ clients' = [clients EXCEPT ![c] = "live"]
    /\ UNCHANGED <<now, rows, stored, successors>>

\* Deleting a client revokes its tokens.
Revoke(c) ==
    /\ clients[c] = "live"
    /\ clients' = [clients EXCEPT ![c] = "deleted"]
    /\ rows' = [t \in Tokens |-> IF rows[t] # None /\ rows[t].client = c
                                 THEN None ELSE rows[t]]
    /\ UNCHANGED <<now, stored, successors>>

Tick ==
    /\ now < MaxTime
    /\ now' = now + 1
    /\ UNCHANGED <<clients, rows, stored, successors>>

Next ==
    \/ \E t \in Tokens, c \in Clients : Issue(t, c)
    \/ \E t, u \in Tokens : Exchange(t, u)
    \/ Expire
    \/ \E c \in Clients : Register(c) \/ Revoke(c)
    \/ Tick

Spec == Init /\ [][Next]_vars
=============================================================================
