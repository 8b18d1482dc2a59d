---------------------------- MODULE MCSafRestart ----------------------------
(* SafRestart beneath one save root. *)
EXTENDS SafRestart, TLC

PathSet == Names
RootedPath(r, n) == n

\* Beneath one root, names are interchangeable.
NameSymmetry == Permutations(Names)
=============================================================================
