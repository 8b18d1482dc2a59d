\* Two files and two roots whose names meet; every bridge call may fail.
CONSTANTS
    N = 2
    Pads = {}
    x = x
    xy = xy
    a = a
    ya = ya
    n3 = n3
    n4 = n4
    Roots = {x, xy}
    Names = {a, ya, n3}
    Paths <- PathSet
    Rooted <- RootedPath
    Zero = Zero
    Junk = Junk
    Empty = Empty
    Absent = Absent
    Before = {Junk, Absent}
    Faults = TRUE
    Moves = {"always_replace", "fail_if_exist", "dont_replace", "reset_save_path", "reset_save_path_unchecked"}
    Ops = {"write", "move"}
SPECIFICATION Spec
INVARIANTS
    AuthoritativeIntact
    PathsFollowNames
