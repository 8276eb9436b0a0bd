------------------------------ MODULE MCSetup ------------------------------
(* A small instance of Setup for TLC: two names, one of them typed in two  *)
(* ways, two passwords that differ in a blank, and what is no name and no  *)
(* password.                                                               *)
EXTENDS Setup, TLC

CONSTANTS a, b

MCNames == {<<a>>, <<Space, a>>, <<b>>, <<Space>>, <<a, b, a>>}
MCPasswords == {<<a>>, <<a, Space>>, <<Space>>, <<a, a, a>>}

Symmetry == Permutations(Web) \cup Permutations(Cli)
=============================================================================
