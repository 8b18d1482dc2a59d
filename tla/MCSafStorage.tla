---------------------------- MODULE MCSafStorage ----------------------------
(* SafStorage on small instances. *)
EXTENDS SafStorage, TLC

CONSTANTS
    x, xy,        \* the save roots "x" and "x/y"
    a, ya, n3, n4 \* the names "a", "y/a" and two more

\* The root "x/y" with the name "a" meets "x" with "y/a".
RootedPath(r, n) == IF r = xy /\ n = a THEN <<x, ya>> ELSE <<r, n>>

PathSet == {RootedPath(r, n) : r \in Roots, n \in Names}

\* Beneath one root, names are interchangeable.
NameSymmetry == Permutations(Names)
=============================================================================
