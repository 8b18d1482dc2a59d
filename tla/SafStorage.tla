----------------------------- MODULE SafStorage -----------------------------
(***************************************************************************)
(* What the jobs of flow_saf_disk_io (swig/flow_saf_disk_io.cpp) do to the *)
(* documents of one torrent: the public files, the part file that holds    *)
(* the blocks of skipped files, and the names the torrent_storage keeps.   *)
(*                                                                         *)
(* Jobs run one after the other on the worker, so one job is in progress   *)
(* at a time; a step is one call of the bridge with what follows it, and   *)
(* any call may fail.  The process may therefore be looked at (or killed)  *)
(* between any two bridge calls.  A file's contents are one cell: the      *)
(* data the torrent prescribes for it (the file's own index), zeros,       *)
(* something else (Junk), or a document without contents (Empty).          *)
(* Descriptor caching is SafDescriptorPool's subject.                      *)
(***************************************************************************)
EXTENDS Naturals, FiniteSets

CONSTANTS
    N,              \* number of files
    Pads,           \* the pad files among them
    Roots,          \* save roots
    Names,          \* logical (torrent-relative) names
    Paths,          \* names beneath the granted tree
    Rooted(_, _),   \* rooted_path(root, name)
    Zero,           \* bytes never written
    Junk,           \* any other contents
    Empty,          \* a document of size 0
    Absent,         \* no document (-ENOENT)
    Before,         \* what may be found at the torrent's names: Junk, Absent
    Faults,         \* whether bridge calls may fail
    Ops,            \* the kinds of request the session makes
    Moves           \* the move_flags_t values in use

Files == 1..N
Real == Files \ Pads

ASSUME StorageAssumption ==
    /\ N \in Nat \ {0} /\ Pads \subseteq Files
    /\ \A r \in Roots, n \in Names : Rooted(r, n) \in Paths
    /\ \A r \in Roots, m, n \in Names : Rooted(r, m) = Rooted(r, n) => m = n
    /\ Before \subseteq {Junk, Absent} /\ Faults \in BOOLEAN
    /\ Ops \subseteq {"read", "write", "rename", "priority", "move", "delete", "check"}
    /\ {Zero, Junk, Empty, Absent} \cap Files = {}
    /\ Cardinality({Zero, Junk, Empty, Absent}) = 4
    /\ Moves \subseteq {"always_replace", "fail_if_exist", "dont_replace",
                        "reset_save_path", "reset_save_path_unchecked"}

VARIABLES
    fs,        \* the public documents, by name
    hasPart,   \* the part file exists
    part,      \* its region of each file; Absent: beyond its end
    root,      \* torrent_storage::save_root
    logical,   \* torrent_storage::logical_paths
    paths,     \* torrent_storage::paths
    skip,      \* priorities[f] == dont_download
    have,      \* history: files the session was told are stored
    job,       \* the job in progress
    reply      \* what the last job told its handler

vars == <<fs, hasPart, part, root, logical, paths, skip, have, job, reply>>
diskVars == <<fs, hasPart, part>>
nameVars == <<root, logical, paths>>

Contents == Files \cup {Zero, Junk, Empty}

Idle == [op |-> "idle"]
NoReply == [op |-> "none"]

JobType ==
         {Idle}
    \cup [op : {"write"}, at : Files, last : Files, first : Files]
    \cup [op : {"priority"}, at : 1..(N + 1), want : [Files -> BOOLEAN],
          phase : {"copy", "remove"}]
    \cup [op : {"check"}, at : 1..(N + 1), had : BOOLEAN, blind : BOOLEAN]
    \cup [op : {"delete"}, at : 1..(N + 1), files : BOOLEAN, error : BOOLEAN]
    \cup [op : {"move"}, to : Roots, copy : SUBSET Files, clean : SUBSET Files,
          kept : SUBSET Files, source : [Files -> Paths], done : BOOLEAN]

TypeOK ==
    /\ fs \in [Paths -> Contents \cup {Absent}]
    /\ hasPart \in BOOLEAN
    /\ part \in [Files -> Contents \cup {Absent}]
    /\ root \in Roots
    /\ logical \in [Files -> Names] /\ paths \in [Files -> Paths]
    /\ skip \in [Files -> BOOLEAN]
    /\ have \subseteq Real
    /\ job \in JobType
    /\ ~hasPart => \A f \in Files : part[f] = Absent

Init ==
    /\ fs \in [Paths -> Before]
    /\ hasPart = FALSE /\ part = [f \in Files |-> Absent]
    /\ root \in Roots
    /\ logical \in {l \in [Files -> Names] : \A f, g \in Files : l[f] = l[g] => f = g}
    /\ paths = [f \in Files |-> Rooted(root, logical[f])]
    /\ skip \in [Files -> BOOLEAN]
    /\ have = {}
    /\ job = Idle /\ reply = NoReply

----------------------------------------------------------------------------
(* Documents. *)

Exists(p) == fs[p] # Absent

\* open_file(path, read/write) creates a document; ftruncate() fills one up.
Opened(c) == IF c = Absent THEN Empty ELSE c
Filled(c) == IF c \in {Absent, Empty} THEN Zero ELSE c

\* A transfer of c that stopped early, over what was there.
Torn(old, c) == IF c \in {old, Absent, Empty} THEN {old} ELSE {old, Junk}

\* pwrite() into file f's region of the part file: a gap before it is a hole.
PartPut(f, c) ==
    [k \in Files |-> IF k = f THEN c
                     ELSE IF k < f /\ part[k] = Absent THEN Zero ELSE part[k]]

\* The slices of a block that lie in documents: pad files have none.
Slices(first, last) == (first..last) \cap Real

\* Where the torrent's data of a file is: skipped(), path_for().
Stored(f) == IF skip[f] THEN part[f] ELSE fs[paths[f]]

End(r) == job' = Idle /\ reply' = r
Failed(op) == [op |-> op, error |-> TRUE]
Done(op) == [op |-> op, error |-> FALSE]

\* A new job starts with nothing to say.
Start(j) == job = Idle /\ job' = j /\ reply' = NoReply

----------------------------------------------------------------------------
(* async_read, async_hash, async_hash2: read_block() over adjacent files. *)

\* Wrong on purpose: the part file is not looked at.
ReadableFromPublic(f) == fs[paths[f]]

\* What read_block() finds for a file: a missing or short one is an error.
Readable(f) == Stored(f)

Read(first, last) ==
    /\ job = Idle
    /\ LET cells == [f \in Slices(first, last) |-> Readable(f)]
           right == \A f \in DOMAIN cells : cells[f] = f
           short == \E f \in DOMAIN cells : cells[f] \in {Absent, Empty}
           junk  == \E f \in DOMAIN cells : cells[f] = Junk
       IN  \E error \in BOOLEAN, fault \in {FALSE, Faults} :
             /\ error => short \/ junk \/ fault
             /\ short \/ fault => error
             /\ reply' = [op |-> "read", error |-> error, fault |-> fault, right |-> right,
                          owed |-> Slices(first, last) \subseteq have]
    /\ UNCHANGED <<diskVars, nameVars, skip, have, job>>

----------------------------------------------------------------------------
(* async_write: write_block(), slice by slice. *)

StartWrite(first, last) ==
    /\ Start([op |-> "write", at |-> first, first |-> first, last |-> last])
    /\ UNCHANGED <<diskVars, nameVars, skip, have>>

\* Wrong on purpose: the loop runs one slice too far.
NextSlicePast ==
    IF job.at > job.last
    THEN End(Done("write")) /\ have' = have \cup Slices(job.first, job.last)
    ELSE /\ job' = [job EXCEPT !.at = @ + 1]
         /\ UNCHANGED <<have, reply>>

\* The slice is stored; the block is when it was the last one.
NextSlice ==
    IF job.at = job.last
    THEN End(Done("write")) /\ have' = have \cup Slices(job.first, job.last)
    ELSE /\ job' = [job EXCEPT !.at = @ + 1]
         /\ UNCHANGED <<have, reply>>

WriteSlice ==
    /\ job.op = "write"
    /\ LET f == job.at
       IN  \/ f \in Pads /\ UNCHANGED diskVars
           \/ /\ f \in Real /\ skip[f]
              /\ hasPart' = TRUE /\ part' = PartPut(f, f)
              /\ UNCHANGED fs
           \/ /\ f \in Real /\ ~skip[f]
              /\ fs' = [fs EXCEPT ![paths[f]] = f]
              /\ UNCHANGED <<hasPart, part>>
    /\ NextSlice
    /\ UNCHANGED <<nameVars, skip>>

\* Opening or writing fails, perhaps half way.
WriteSliceFails ==
    /\ job.op = "write" /\ Faults /\ job.at \in Real
    /\ LET f == job.at
       IN  \/ UNCHANGED diskVars
           \/ /\ skip[f]
              /\ hasPart' = TRUE
              /\ part' \in {part} \cup {PartPut(f, c) : c \in Torn(part[f], f) \ {Absent}}
              /\ UNCHANGED fs
           \/ /\ ~skip[f]
              /\ \E c \in Torn(Opened(fs[paths[f]]), f) : fs' = [fs EXCEPT ![paths[f]] = c]
              /\ UNCHANGED <<hasPart, part>>
    /\ End(Failed("write"))
    /\ UNCHANGED <<nameVars, skip, have>>

----------------------------------------------------------------------------
(* async_rename_file. *)

\* Wrong on purpose: the logical name is left behind.
RenamedPathOnly(f, n) ==
    /\ paths' = [paths EXCEPT ![f] = Rooted(root, n)]
    /\ UNCHANGED <<root, logical>>

Renamed(f, n) ==
    /\ logical' = [logical EXCEPT ![f] = n]
    /\ paths' = [paths EXCEPT ![f] = Rooted(root, n)]
    /\ UNCHANGED root

\* The caller gives a name no other file has: the code does not check that.
\* What the provider does to a document in the way is up to it.
RenameFile(f, n) ==
    /\ job = Idle
    /\ \A g \in Files \ {f} : logical[g] # n
    /\ LET old == paths[f]
           new == Rooted(root, n)
       IN  \/ /\ Exists(old)
              /\ Renamed(f, n)
              /\ fs' = [p \in Paths |-> IF p = new THEN fs[old]
                                        ELSE IF p = old THEN Absent ELSE fs[p]]
              /\ reply' = Done("rename")
           \/ /\ ~Exists(old) \/ (Exists(new) /\ new # old) \/ Faults
              /\ reply' = Failed("rename")
              /\ UNCHANGED <<fs, nameVars>>
    /\ UNCHANGED <<hasPart, part, skip, have, job>>

----------------------------------------------------------------------------
(* async_set_file_priority and migrate_priority. *)

StartPriority(want) ==
    /\ Start([op |-> "priority", at |-> 1, want |-> want, phase |-> "copy"])
    /\ UNCHANGED <<diskVars, nameVars, skip, have>>

AtFile(op) == job.op = op /\ job.at \in Files

\* torrent->priorities[index] = priorities[index], and on to the next file.
Commit ==
    /\ skip' = [skip EXCEPT ![job.at] = job.want[job.at]]
    /\ job' = [job EXCEPT !.at = @ + 1, !.phase = "copy"]
    /\ UNCHANGED reply

Migrates == job.at \in Real /\ skip[job.at] # job.want[job.at]

PriorityKeep ==
    /\ AtFile("priority") /\ ~Migrates
    /\ Commit
    /\ UNCHANGED <<diskVars, nameVars, have>>

\* To the part file: copy the public file (zeros if there is none) ...
ToPartCopy ==
    /\ AtFile("priority") /\ Migrates /\ job.phase = "copy" /\ job.want[job.at]
    /\ LET f == job.at
           c == fs[paths[f]]
       IN  /\ c # Empty
           /\ hasPart' = TRUE
           /\ part' = PartPut(f, IF c = Absent THEN Zero ELSE c)
    /\ job' = [job EXCEPT !.phase = "remove"]
    /\ UNCHANGED <<fs, nameVars, skip, have, reply>>

\* ... then remove it, and only then commit.
ToPartRemove ==
    /\ AtFile("priority") /\ job.phase = "remove"
    /\ fs' = [fs EXCEPT ![paths[job.at]] = Absent]
    /\ Commit
    /\ UNCHANGED <<hasPart, part, nameVars, have>>

\* Copying fails: a short public file, or the bridge.
ToPartFails ==
    /\ AtFile("priority") /\ Migrates /\ job.phase = "copy" /\ job.want[job.at]
    /\ LET f == job.at
           c == fs[paths[f]]
       IN  /\ Faults \/ c \in {Empty, Junk}
           /\ \/ UNCHANGED <<hasPart, part>>
              \/ /\ hasPart' = TRUE
                 /\ part' \in {part} \cup {PartPut(f, x) : x \in Torn(part[f], c) \ {Absent}}
    /\ End(Failed("priority"))
    /\ UNCHANGED <<fs, nameVars, skip, have>>

RemoveFails ==
    /\ AtFile("priority") /\ job.phase = "remove" /\ Faults
    /\ End(Failed("priority"))
    /\ UNCHANGED <<diskVars, nameVars, skip, have>>

\* From the part file: the region, or zeros when there is no part file.
FromPart ==
    /\ AtFile("priority") /\ Migrates /\ ~job.want[job.at]
    /\ LET f == job.at
       IN  /\ ~hasPart \/ part[f] # Absent
           /\ fs' = [fs EXCEPT ![paths[f]] = IF hasPart THEN part[f] ELSE Zero]
    /\ Commit
    /\ UNCHANGED <<hasPart, part, nameVars, have>>

\* The part file ends before the region, or the bridge fails.
FromPartFails ==
    /\ AtFile("priority") /\ Migrates /\ ~job.want[job.at]
    /\ LET f == job.at
           old == fs[paths[f]]
           source == IF hasPart THEN part[f] ELSE Zero
       IN  /\ Faults \/ source \in {Absent, Junk}
           /\ \E c \in Torn(Filled(old), source)
                        \cup (IF Faults THEN {old, Opened(old)} ELSE {}) :
                fs' = [fs EXCEPT ![paths[f]] = c]
    /\ End(Failed("priority"))
    /\ UNCHANGED <<hasPart, part, nameVars, skip, have>>

\* Wrong on purpose: it is removed when any file is wanted.
PartUnneededSome == \E f \in Files : ~skip[f]

\* The part file is removed when no file is skipped.
PartUnneeded == \A f \in Files : ~skip[f]

PriorityEnd ==
    /\ job.op = "priority" /\ job.at = N + 1
    /\ \/ ~PartUnneeded /\ UNCHANGED <<hasPart, part>> /\ End(Done("priority"))
       \/ /\ PartUnneeded
          /\ hasPart' = FALSE /\ part' = [f \in Files |-> Absent]
          /\ End(Done("priority"))
       \/ /\ PartUnneeded /\ Faults
          /\ UNCHANGED <<hasPart, part>> /\ End(Failed("priority"))
    /\ UNCHANGED <<fs, nameVars, skip, have>>

----------------------------------------------------------------------------
(* async_move_storage and move_storage. *)

Destination(r) == [f \in Files |-> Rooted(r, logical[f])]

\* Wrong on purpose: destinations are not compared with the other files.
CollidesNever(r) == FALSE

\* A destination that is the present name of another file.
Collides(r) ==
    \E f, g \in Real : /\ f # g /\ paths[f] # Destination(r)[f]
                       /\ Destination(r)[f] = paths[g]

\* Wrong on purpose: the root is replaced and the paths are not rebuilt.
SetSaveRootOnly(r) == root' = r /\ UNCHANGED <<logical, paths>>

\* set_save_root()
SetSaveRoot(r) ==
    /\ root' = r
    /\ paths' = Destination(r)
    /\ UNCHANGED logical

\* Rejected: a collision, an invalid root, something in the way, a failed stat.
MoveRejected(r, flags) ==
    /\ job = Idle
    /\ \/ Collides(r)
       \/ flags = "fail_if_exist" /\ \E f \in Real : Exists(Destination(r)[f])
       \/ Faults
    /\ reply' = Failed("move")
    /\ UNCHANGED <<diskVars, nameVars, skip, have, job>>

\* reset_save_path: only the names change; the part file stays where it is.
MoveReset(r, flags) ==
    /\ job = Idle /\ ~Collides(r)
    /\ flags \in {"reset_save_path", "reset_save_path_unchecked"}
    /\ SetSaveRoot(r)
    /\ have' = {f \in have : skip[f] \/ Destination(r)[f] = paths[f]}
    /\ reply' = Done("move")
    /\ UNCHANGED <<diskVars, skip, job>>

\* All sizes are asked for before anything is copied.
StartMove(r, flags) ==
    /\ ~Collides(r)
    /\ flags \in {"always_replace", "fail_if_exist", "dont_replace"}
    /\ flags = "fail_if_exist" => \A f \in Real : ~Exists(Destination(r)[f])
    /\ LET dest == Destination(r)
           moved == {f \in Real : paths[f] # dest[f]}
           kept == {f \in moved : flags = "dont_replace" /\ Exists(dest[f])}
           clean == {f \in moved : Exists(paths[f])}
       IN  Start([op |-> "move", to |-> r, copy |-> clean \ kept, clean |-> clean,
                  kept |-> kept, source |-> paths, done |-> FALSE])
    /\ UNCHANGED <<diskVars, nameVars, skip, have>>

Least(S) == CHOOSE f \in S : \A g \in S : f <= g

\* copy_public_file()
MoveCopy ==
    /\ job.op = "move" /\ job.copy # {}
    /\ LET f == Least(job.copy)
       IN  /\ fs' = [fs EXCEPT ![Destination(job.to)[f]] = fs[paths[f]]]
           /\ job' = [job EXCEPT !.copy = @ \ {f}]
    /\ UNCHANGED <<hasPart, part, nameVars, skip, have, reply>>

MoveCopyFails ==
    /\ job.op = "move" /\ job.copy # {} /\ Faults
    /\ LET f == Least(job.copy)
           d == Destination(job.to)[f]
       IN  \E c \in {fs[d], Opened(fs[d]), Filled(fs[d]), Junk} : fs' = [fs EXCEPT ![d] = c]
    /\ End(Failed("move"))
    /\ UNCHANGED <<hasPart, part, nameVars, skip, have>>

\* Everything is copied: the torrent now lives at the new root.
MoveCommit ==
    /\ job.op = "move" /\ job.copy = {} /\ ~job.done
    /\ SetSaveRoot(job.to)
    /\ have' = {f \in have : f \notin job.kept \/ skip[f]}
    /\ job' = [job EXCEPT !.done = TRUE]
    /\ UNCHANGED <<diskVars, skip, reply>>

\* The former documents are removed, but for one that is a destination too; a
\* failure is ignored.
MoveClean ==
    /\ job.op = "move" /\ job.done /\ job.clean # {}
    /\ LET f == Least(job.clean)
           p == job.source[f]
           spared == Faults \/ \E g \in Files : paths[g] = p
       IN  /\ \/ spared /\ UNCHANGED fs
              \/ /\ \A g \in Files : paths[g] # p
                 /\ fs' = [fs EXCEPT ![p] = Absent]
           /\ job' = [job EXCEPT !.clean = @ \ {f}]
    /\ UNCHANGED <<hasPart, part, nameVars, skip, have, reply>>

MoveEnd ==
    /\ job.op = "move" /\ job.done /\ job.clean = {}
    /\ End(Done("move"))
    /\ UNCHANGED <<diskVars, nameVars, skip, have>>

----------------------------------------------------------------------------
(* async_delete_files. *)

\* delete_files asks for everything, delete_partfile for the part file only.
StartDelete(files) ==
    /\ Start([op |-> "delete", at |-> IF files THEN 1 ELSE N + 1, files |-> files,
              error |-> FALSE])
    /\ have' = {f \in have : ~files /\ ~skip[f]}
    /\ UNCHANGED <<diskVars, nameVars, skip>>

\* One public file; the first error is kept and the loop goes on.
DeleteOne ==
    /\ AtFile("delete")
    /\ \/ /\ fs' = IF job.at \in Real THEN [fs EXCEPT ![paths[job.at]] = Absent] ELSE fs
          /\ job' = [job EXCEPT !.at = @ + 1]
       \/ /\ Faults /\ job.at \in Real
          /\ UNCHANGED fs
          /\ job' = [job EXCEPT !.at = @ + 1, !.error = TRUE]
    /\ UNCHANGED <<hasPart, part, nameVars, skip, have, reply>>

\* Wrong on purpose: the error of the part file replaces the earlier ones.
DeletePartLastError ==
    /\ job.op = "delete" /\ job.at = N + 1
    /\ hasPart' = FALSE /\ part' = [f \in Files |-> Absent]
    /\ End([op |-> "delete", error |-> FALSE, files |-> job.files])
    /\ UNCHANGED <<fs, nameVars, skip, have>>

\* The part file, and the handler.
DeletePart ==
    /\ job.op = "delete" /\ job.at = N + 1
    /\ \/ /\ hasPart' = FALSE /\ part' = [f \in Files |-> Absent]
          /\ End([op |-> "delete", error |-> job.error, files |-> job.files])
       \/ /\ Faults
          /\ UNCHANGED <<hasPart, part>>
          /\ End([op |-> "delete", error |-> TRUE, files |-> job.files])
    /\ UNCHANGED <<fs, nameVars, skip, have>>

----------------------------------------------------------------------------
(* async_check_files without resume data: initialize_files(). *)

StartCheck ==
    /\ Start([op |-> "check", at |-> 1, had |-> FALSE, blind |-> FALSE])
    /\ UNCHANGED <<diskVars, nameVars, skip, have>>

\* Wrong on purpose: only the last file decides.
HadFileLast(seen) == seen

\* had_file = had_file || existing >= 0
HadFile(seen) == job.had \/ seen

\* Create the document, or bring it to its size.  A size that could not be
\* asked for (blind) counts as no document.
Initialize ==
    /\ AtFile("check")
    /\ LET f == job.at
           p == paths[f]
       IN  \/ /\ f \in Pads \/ skip[f]
              /\ job' = [job EXCEPT !.at = @ + 1]
              /\ UNCHANGED <<fs, reply>>
           \/ /\ f \in Real /\ ~skip[f]
              /\ fs' = [fs EXCEPT ![p] = Filled(@)]
              /\ \E blind \in {FALSE, Faults} :
                   job' = [job EXCEPT !.at = @ + 1, !.had = HadFile(Exists(p) /\ ~blind),
                                      !.blind = @ \/ blind]
              /\ UNCHANGED reply
           \/ /\ f \in Real /\ ~skip[f] /\ Faults
              /\ \E c \in {fs[p], Opened(fs[p])} : fs' = [fs EXCEPT ![p] = c]
              /\ End(Failed("check"))
    /\ UNCHANGED <<hasPart, part, nameVars, skip, have>>

CheckEnd ==
    /\ job.op = "check" /\ job.at = N + 1
    /\ End([op |-> "check", error |-> FALSE, recheck |-> job.had, blind |-> job.blind])
    /\ UNCHANGED <<diskVars, nameVars, skip, have>>

----------------------------------------------------------------------------

Requests ==
    \/ "read" \in Ops /\ \E first, last \in Files : first <= last /\ Read(first, last)
    \/ "write" \in Ops /\ \E first, last \in Files : first <= last /\ StartWrite(first, last)
    \/ "rename" \in Ops /\ \E f \in Real, n \in Names : RenameFile(f, n)
    \/ "priority" \in Ops /\ \E want \in [Files -> BOOLEAN] : StartPriority(want)
    \/ /\ "move" \in Ops
       /\ \E r \in Roots, flags \in Moves :
            MoveRejected(r, flags) \/ MoveReset(r, flags) \/ StartMove(r, flags)
    \/ "delete" \in Ops /\ \E files \in BOOLEAN : StartDelete(files)
    \/ "check" \in Ops /\ StartCheck

Work ==
    \/ WriteSlice \/ WriteSliceFails
    \/ PriorityKeep \/ ToPartCopy \/ ToPartRemove \/ ToPartFails \/ RemoveFails
    \/ FromPart \/ FromPartFails \/ PriorityEnd
    \/ MoveCopy \/ MoveCopyFails \/ MoveCommit \/ MoveClean \/ MoveEnd
    \/ DeleteOne \/ DeletePart
    \/ Initialize \/ CheckEnd

Next == Requests \/ Work

Spec == Init /\ [][Next]_vars

----------------------------------------------------------------------------
(* Properties. *)

\* Data that a write reported as stored is never given up: at every moment,
\* between any two bridge calls and after any failed one, it is where reads
\* will look for it, until the session asks to delete it or to look elsewhere.
\* (A file whose copy is in the part file is looked for there from the moment
\* its public document goes.)
AuthoritativeIntact == \A f \in have : Stored(f) = f

\* A read of stored data that reports no error returns that data, and fails
\* only if a bridge call of this very read did.
ReadsBack ==
    (reply.op = "read" /\ reply.owed) => IF reply.error THEN reply.fault ELSE reply.right

\* A torrent's names hang together: every path is its logical name beneath the
\* save root, and no two files share one, across failed renames and moves.
PathsFollowNames ==
    /\ paths = [f \in Files |-> Rooted(root, logical[f])]
    /\ \A f, g \in Files : paths[f] = paths[g] => f = g

\* A deletion that reports success left no part file and, if delete_files was
\* asked for, no public document under the torrent's names.
DeletionIsHonest ==
    (reply.op = "delete" /\ ~reply.error) =>
        /\ ~hasPart
        /\ reply.files => \A f \in Real : ~Exists(paths[f])

\* Documents that were there before are not taken for fresh ones: a check that
\* could ask for every size and does not ask for a recheck found nothing at the
\* torrent's names.
FreshMeansFresh ==
    (reply.op = "check" /\ ~reply.error /\ ~reply.recheck /\ ~reply.blind) =>
        \A f \in Real : ~skip[f] => fs[paths[f]] = Zero

\* Priorities can always be changed while the bridge works.
PriorityChangeSucceeds == (reply.op = "priority" /\ ~Faults) => ~reply.error
=============================================================================
