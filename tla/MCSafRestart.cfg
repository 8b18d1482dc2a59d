\* Two files and a spare name; every bridge call may fail, the process may be
\* killed between any two.
CONSTANTS
    N = 2
    Pads = {}
    Roots = {x}
    Names = {n1, n2, n3}
    Paths <- PathSet
    Rooted <- RootedPath
    Zero = Zero
    Junk = Junk
    Empty = Empty
    Absent = Absent
    NoResume = NoResume
    Before = {Absent}
    Faults = TRUE
    Moves = {"always_replace"}
    Ops = {"write", "rename", "priority"}
SYMMETRY NameSymmetry
SPECIFICATION RestartSpec
INVARIANTS
    TrustIsDeserved
    FreshResumeSparesCheck
