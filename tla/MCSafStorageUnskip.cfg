\* Two files, nothing there before, and a bridge that works.
CONSTANTS
    N = 2
    Pads = {}
    x = x
    xy = xy
    a = a
    ya = ya
    n3 = n3
    n4 = n4
    Roots = {x}
    Names = {a, ya, n3}
    Paths <- PathSet
    Rooted <- RootedPath
    Zero = Zero
    Junk = Junk
    Empty = Empty
    Absent = Absent
    Before = {Absent}
    Faults = FALSE
    Moves = {"always_replace", "fail_if_exist", "dont_replace", "reset_save_path", "reset_save_path_unchecked"}
    Ops = {"read", "write", "rename", "priority", "move", "delete", "check"}
SPECIFICATION Spec
INVARIANTS
    PriorityChangeSucceeds
