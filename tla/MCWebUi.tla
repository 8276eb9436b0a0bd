------------------------------ MODULE MCWebUi ------------------------------
(* Instances of WebUi for TLC. *)
EXTENDS WebUi, TLC

\* Tabs and users are alike.
Symmetry == Permutations(Tabs) \cup Permutations(Users)
=============================================================================
