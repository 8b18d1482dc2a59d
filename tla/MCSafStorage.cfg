\* Three files, one a pad file, and a spare name; every bridge call may fail.
CONSTANTS
    N = 3
    Pads = {2}
    x = x
    xy = xy
    a = a
    ya = ya
    n3 = n3
    n4 = n4
    Roots = {x}
    Names = {a, ya, n3, n4}
    Paths <- PathSet
    Rooted <- RootedPath
    Zero = Zero
    Junk = Junk
    Empty = Empty
    Absent = Absent
    Before = {Junk, Absent}
    Faults = TRUE
    Moves = {"always_replace", "fail_if_exist", "dont_replace", "reset_save_path", "reset_save_path_unchecked"}
    Ops = {"read", "write", "rename", "priority", "delete", "check"}
SYMMETRY NameSymmetry
SPECIFICATION Spec
INVARIANTS
    TypeOK
    AuthoritativeIntact
    ReadsBack
    PathsFollowNames
    DeletionIsHonest
    FreshMeansFresh
