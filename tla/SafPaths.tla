------------------------------ MODULE SafPaths ------------------------------
(***************************************************************************)
(* The names the SAF back end hands to the bridge                          *)
(* (swig/flow_saf_disk_io.cpp): the save root of a torrent, the path of a  *)
(* file beneath it, and what each job asks the bridge to do with it.  File *)
(* names are not tested when a torrent is added.  Jobs that create or      *)
(* write test the path first and make its directories; reads test it; the  *)
(* calls that ask for a size, remove, or read what a skipped file leaves   *)
(* behind do not.                                                          *)
(*                                                                         *)
(* A name is a sequence of characters, of which only these are told apart: *)
(* a separator, a dot, a backslash (or a NUL, treated alike) and any       *)
(* other; Root stands for the text ".flow-session-root".  The part file's  *)
(* path is one fixed safe name and left out.                               *)
(***************************************************************************)
EXTENDS Integers, Sequences, SequencesExt

CONSTANTS
    Other,      \* any other character
    Root,       \* the characters .flow-session-root
    MaxLength   \* bound: characters of a save root and of a file's name

ASSUME PathsAssumption == MaxLength \in Nat

Slash == "/"
Dot == "."
Backslash == "\\"
Characters == {Slash, Dot, Backslash, Other, Root}

VARIABLES
    root,     \* save_root
    name,     \* the file's logical path
    path,     \* the name at hand: under test, or the file's path
    start,    \* safe_relative_path(): where the next component starts
    task,     \* what the job does with the file
    step,     \* where the code is
    made,     \* directories create_directory() was asked for, in order
    ask       \* the latest other call to the bridge, and the name it got

pathVars == <<root, name, path, start, task, step, made, ask>>

----------------------------------------------------------------------------

\* normalized_save_root(): the session's own root, also beneath a prefix.
NormalizedSaveRoot(p) ==
    IF p = <<Root>> \/ (Len(p) >= 2 /\ SubSeq(p, Len(p) - 1, Len(p)) = <<Slash, Root>>)
    THEN <<>> ELSE p

\* rooted_path()
RootedPath(base, relative) == IF base = <<>> THEN relative ELSE base \o <<Slash>> \o relative

\* path.find('/', from), or one past the end.
NextSlash(p, from) ==
    LET found == {i \in from..Len(p) : p[i] = Slash}
    IN  IF found = {} THEN Len(p) + 1 ELSE CHOOSE i \in found : \A j \in found : i <= j

Ask(c, p) == ask' = [call |-> c, path |-> p]

PathsInit ==
    /\ root = <<>> /\ name = <<>> /\ path = <<>> /\ start = 1
    /\ task = "none" /\ step = "idle" /\ made = <<>>
    /\ ask = [call |-> "none", path |-> <<>>]

\* A torrent is added under a save path.  An empty root needs no test, and the
\* file's name gets none.
NewTorrent(given, n) ==
    /\ root' = NormalizedSaveRoot(given) /\ name' = n
    /\ IF root' = <<>> THEN path' = n /\ step' = "ready"
                       ELSE path' = root' /\ step' = "testRoot"
    /\ UNCHANGED <<start, task, made, ask>>

Testing == step \in {"testRoot", "testName", "testPath"}
Reject == step' = IF step = "testRoot" THEN "thrown" ELSE "invalid"

\* The root is fine, unless the bridge's validate_path() says no.  The name is
\* fine: next the path.  The path is fine: a read opens it, whatever creates it
\* makes its directories first, and a move goes on to the new root.
Accept ==
    CASE step = "testRoot" -> \/ step' = "ready" /\ path' = RootedPath(root, name) /\ start' = 1
                              \/ step' = "refused" /\ UNCHANGED <<path, start>>
      [] step = "testName" -> step' = "testPath" /\ path' = RootedPath(root, name) /\ start' = 1
      [] OTHER -> /\ step' = CASE task = "read" -> "use" [] task = "move" -> "move"
                               [] OTHER -> "mkdir"
                  /\ start' = 1 /\ UNCHANGED path

\* Empty, absolute, or with a character that no name has.
BadAtOnce ==
    path # <<>> => path[1] = Slash \/ \E i \in DOMAIN path : path[i] = Backslash

\* The first tests of safe_relative_path().
TestRejects ==
    /\ Testing /\ start = 1 /\ BadAtOnce
    /\ Reject
    /\ UNCHANGED <<root, name, path, start, task, made, ask>>

Component == SubSeq(path, start, NextSlash(path, start) - 1)

\* Its loop: one component.
TestComponent ==
    /\ Testing /\ ~BadAtOnce /\ start <= Len(path)
    /\ IF Component \in {<<>>, <<Dot>>, <<Dot, Dot>>}
       THEN Reject /\ UNCHANGED start
       ELSE start' = NextSlash(path, start) + 1 /\ UNCHANGED step
    /\ UNCHANGED <<root, name, path, task, made, ask>>

\* Wrong on purpose: a separator at the end is accepted.
TestEndAny ==
    /\ Testing /\ ~BadAtOnce /\ start > Len(path)
    /\ Accept
    /\ UNCHANGED <<root, name, task, made, ask>>

\* After the loop: no separator at the end.
TestEnd ==
    /\ Testing /\ ~BadAtOnce /\ start > Len(path)
    /\ IF path[Len(path)] = Slash THEN Reject /\ UNCHANGED <<path, start>> ELSE Accept
    /\ UNCHANGED <<root, name, task, made, ask>>

----------------------------------------------------------------------------
(* What the jobs do with a file's path. *)

\* A call with the path as it is: the size (initialize_files, validate_resume,
\* move_storage), the removal (async_delete_files, move_storage), and in
\* migrate_priority the read of a file that is skipped now and its removal.
\* Neither changes the path; the calls that may follow are those below.
AskUntested(c) ==
    /\ step = "ready"
    /\ Ask(c, path)
    /\ task' = "ask" /\ step' = "done"
    /\ UNCHANGED <<root, name, path, start, made>>

\* open_file() for reading; or for writing, as copy_public_file() and
\* migrate_priority() open the document they write.
BeginOpen(t) ==
    /\ step = "ready"
    /\ task' = t /\ step' = "testPath"
    /\ UNCHANGED <<root, name, path, start, made, ask>>

\* async_rename_file() tests the new name, then the path it gives (name is the
\* new one here: the old path is the source and gets no test); move_storage()
\* tests the name and the present path.
BeginNamed(t) ==
    /\ step = "ready"
    /\ task' = t /\ step' = "testName" /\ path' = name
    /\ UNCHANGED <<root, name, start, made, ask>>

\* The bridge's validate_path() accepts the new root; nothing else tests it.
\* Copies then write to the new path.
SetSaveRoot(given) ==
    /\ root' = NormalizedSaveRoot(given) /\ path' = RootedPath(root', name)
    /\ task' = "none" /\ step' = "ready"
    /\ UNCHANGED <<name, start, made, ask>>

\* ensure_parent_directories(): each prefix that ends before a separator.  A
\* directory that exists (EEXIST) is as good as one that was made.
MakeDirectory ==
    /\ step = "mkdir" /\ NextSlash(path, start) <= Len(path)
    /\ made' = Append(made, SubSeq(path, 1, NextSlash(path, start) - 1))
    /\ start' = NextSlash(path, start) + 1
    /\ UNCHANGED <<root, name, path, task, step, ask>>

MakeDirectoryFails ==
    /\ step = "mkdir" /\ NextSlash(path, start) <= Len(path)
    /\ step' = "failed"
    /\ UNCHANGED <<root, name, path, start, task, made, ask>>

DirectoriesMade ==
    /\ step = "mkdir" /\ NextSlash(path, start) > Len(path)
    /\ step' = "use"
    /\ UNCHANGED <<root, name, path, start, task, made, ask>>

\* m_bridge.open_file(), or m_bridge.rename() with this destination.
Use ==
    /\ step = "use"
    /\ Ask(CASE task = "read" -> "open_read" [] task = "rename" -> "rename"
             [] OTHER -> "open_write", path)
    /\ step' = "done"
    /\ UNCHANGED <<root, name, path, start, task, made>>

Names == UNION {[1..k -> Characters] : k \in 0..MaxLength}

PathsNext ==
    \/ step = "idle" /\ \E given, n \in Names : NewTorrent(given, n)
    \/ TestRejects \/ TestComponent \/ TestEnd
    \/ \E c \in {"file_size", "open_read", "remove"} : AskUntested(c)
    \/ \E t \in {"read", "write"} : BeginOpen(t)
    \/ \E t \in {"rename", "move"} : BeginNamed(t)
    \/ step = "move" /\ \E given \in Names : SetSaveRoot(given)
    \/ MakeDirectory \/ MakeDirectoryFails \/ DirectoriesMade \/ Use

PathsSpec == PathsInit /\ [][PathsNext]_pathVars

----------------------------------------------------------------------------

\* What a safe name is, without a scan: no backslash, and between any two
\* neighbouring separators (the ends count as such) a component that leads down.
SafePath(p) ==
    LET cuts == {0, Len(p) + 1} \cup {i \in DOMAIN p : p[i] = Slash}
    IN  /\ \A i \in DOMAIN p : p[i] # Backslash
        /\ \A i, j \in cuts :
             (i < j /\ \A k \in cuts : ~(i < k /\ k < j)) =>
                 SubSeq(p, i + 1, j - 1) \notin {<<>>, <<Dot>>, <<Dot, Dot>>}

\* Whatever is created or written - a directory, a document opened for writing,
\* the destination of a rename - has a name that stays beneath the granted tree,
\* although file names are not tested on arrival and a move takes a root that
\* was not; so does what open_file() opens for reading.  (Sizes, removals and the
\* read of a newly skipped file carry the name as it is.)  Nothing is lost by the
\* tests: a job fails only if the name or the root is not safe.  The directories
\* are asked for from the top down, all of them, before the document is.
WritesConfined ==
    /\ ask.call \in {"open_write", "rename"} => SafePath(ask.path)
    /\ (step = "done" /\ task = "read") => SafePath(ask.path)
    /\ step = "thrown" => ~SafePath(root)
    /\ step = "invalid" => ~SafePath(name) \/ (root # <<>> /\ ~SafePath(root))
    /\ \A i \in DOMAIN made : /\ SafePath(made[i])
                              /\ IsStrictPrefix(made[i], path)
                              /\ i > 1 => IsStrictPrefix(made[i - 1], made[i])
    /\ (step = "done" /\ task \in {"write", "rename"}) =>
         /\ ask.path = path
         /\ Len(made) = Cardinality({i \in DOMAIN path : path[i] = Slash})
=============================================================================
