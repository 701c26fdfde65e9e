----------------------------- MODULE MCBuiltins -----------------------------
(***************************************************************************)
(* Three directories and three paths, exit codes of two bits and longs of   *)
(* three: numbers below, at and above both limits.                         *)
(***************************************************************************)
EXTENDS Builtins, TLC

CONSTANTS d1, d2, d3, n1, n2, n3

MCDirs == {d1, d2, d3}
MCNames == {n1, n2, n3}
MCNumbers == {-6, -3, -2, 1, 2, 3, 5}

\* Neither directories nor paths are told apart.
MCSymmetry == Permutations(MCDirs) \cup Permutations(MCNames)

=============================================================================
