--------------------------- MODULE MCTokenStorage ---------------------------
(***************************************************************************)
(* A small instance of TokenStorage for TLC.  Nothing distinguishes one    *)
(* client, one random string or one request from another before it is      *)
(* used, so safety is checked up to their permutations.                    *)
(***************************************************************************)
EXTENDS TokenStorage, TLC

Symmetry ==
    Permutations(Clients) \cup Permutations(Tokens) \cup Permutations(Requests)
=============================================================================
