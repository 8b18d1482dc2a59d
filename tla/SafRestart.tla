----------------------------- MODULE SafRestart -----------------------------
(***************************************************************************)
(* SafStorage with a process that may be killed at any moment and started  *)
(* again from resume data saved earlier: async_check_files() with resume   *)
(* data, and validate_resume() (swig/flow_saf_disk_io.cpp).                *)
(*                                                                         *)
(* Resume data is what the session wrote down: the stored files, the       *)
(* priorities and the names at that time.  Documents are not written down: *)
(* after a restart the back end finds them as the killed job left them.  A *)
(* step of SafStorage that fails leaves what a kill in its middle leaves,  *)
(* so a kill itself changes no document.                                   *)
(***************************************************************************)
EXTENDS SafStorage

CONSTANT NoResume

VARIABLES
    saved,   \* the resume data: have, skip, root and logical, or NoResume
    since    \* history: what was done since it was saved.  "writes": blocks were
             \* stored; "changes": files also changed place, under names no
             \* other file had; "voids": it may describe other documents

restartVars == <<vars, saved, since>>

RestartInit == Init /\ saved = NoResume /\ since = "writes"

----------------------------------------------------------------------------
(* What a request does to the worth of the resume data. *)

SavedName(f) == saved.logical[f]

\* A file leaves the part file for the place it was saved at: half way through,
\* that place holds a document of the right size with other contents.
ComesBack(want) == \E f \in Real : skip[f] /\ ~want[f] /\ ~saved.skip[f]

\* The part file goes when no file is skipped, and with it what was saved as
\* being in it; a name that was another file's now leads to this one.
Voids ==
    /\ saved # NoResume
    /\ \/ job = Idle /\ job'.op \in {"delete", "check"}
       \/ /\ job = Idle /\ job'.op = "priority"
          /\ ComesBack(job'.want) \/ \A f \in Files : ~job'.want[f]
       \/ \E f \in Files : /\ logical'[f] # logical[f]
                           /\ \E g \in Files \ {f} : SavedName(g) = logical'[f]

Changes == job'.op = "priority" \/ logical' # logical

After ==
    IF since = "voids" \/ Voids THEN "voids"
    ELSE IF since = "changes" \/ Changes THEN "changes"
    ELSE "writes"

\* Bound: a session with void resume data is followed no further than to the
\* next resume data or restart.
Running == since # "voids" /\ Next /\ since' = After /\ UNCHANGED saved

\* The session writes resume data between two jobs.  What it was misled about
\* by worthless resume data stays wrong.
SaveResume ==
    /\ job = Idle
    /\ saved' = [have |-> have, skip |-> skip, root |-> root, logical |-> logical]
    /\ since' = IF \A f \in have : Stored(f) = f THEN "writes" ELSE "voids"
    /\ UNCHANGED vars

----------------------------------------------------------------------------
(* validate_resume(): sizes only, one file after the other. *)

\* file_size() against the size the torrent gives; Junk may have any.
FullSize(c) == CASE c \in {Empty, Absent} -> {FALSE}
                 [] c = Junk -> BOOLEAN
                 [] OTHER -> {TRUE}

\* Wrong on purpose: skipped files are looked for under their public names.
LooksAtAll(f, seed) == f \in Real

\* The files check_file() looks at.
LooksAt(f, seed) == f \in Real /\ (seed \/ ~skip'[f])

\* Wrong on purpose: a document that is not there is fine.
SuspectSizeOnly(f, exact) == IF exact THEN {~full : full \in FullSize(fs[paths'[f]])}
                                      ELSE {FALSE}

\* check_file(): whether the size of a document calls for a full check.
Suspect(f, exact) ==
    IF fs[paths'[f]] = Absent THEN {TRUE}
    ELSE IF exact THEN {~full : full \in FullSize(fs[paths'[f]])}
    ELSE {FALSE}

\* All pieces: every file, exact sizes.  Some: the files of these pieces.
ValidateResume(seed) ==
    LET full == seed \/ saved.have = Real
        looked == {f \in (IF full THEN Files ELSE saved.have) : LooksAt(f, seed)}
    IN  \E suspect \in [looked -> BOOLEAN] :
          /\ \A f \in looked : suspect[f] \in Suspect(f, full)
          /\ LET recheck == \E f \in looked : suspect[f]
             IN  /\ reply' = [op |-> "resume", error |-> FALSE, recheck |-> recheck,
                              seed |-> seed, after |-> since]
                 /\ have' = IF recheck THEN {f \in Real : Stored(f)' = f} ELSE saved.have
    /\ job' = Idle

\* Hard links are not supported, or a size could not be asked for.
ResumeFails ==
    /\ Faults
    /\ reply' = Failed("resume") /\ have' = {} /\ job' = Idle

\* Killed; started again; the torrent is added with its resume data and checked.
\* Without a list of pieces there is nothing to validate: the files are
\* initialised.  A list may be there and name none.
Restart(seed) ==
    /\ saved # NoResume
    /\ root' = saved.root /\ logical' = saved.logical
    /\ paths' = [f \in Files |-> Rooted(saved.root, saved.logical[f])]
    /\ skip' = saved.skip
    /\ UNCHANGED <<diskVars, saved>>
    /\ \/ ValidateResume(seed)
       \/ ResumeFails
       \/ /\ ~seed /\ saved.have = {} /\ have' = {} /\ reply' = NoReply
          /\ job' = [op |-> "check", at |-> 1, had |-> FALSE, blind |-> FALSE]
    /\ since' = IF have' = saved.have THEN since ELSE "voids"

RestartNext == Running \/ SaveResume \/ \E seed \in BOOLEAN : Restart(seed)

RestartSpec == RestartInit /\ [][RestartNext]_restartVars

----------------------------------------------------------------------------
(* Properties. *)

\* What the session counts on after a restart is where reads will look for it,
\* wherever the process was killed: in a write, in a rename, or half way through
\* moving files to and from the part file.  It is not promised (since = "voids")
\* when, after the resume data was saved, the part file was removed, a file was
\* taken back out of it to the place it was saved at, a name passed from one
\* file to another, or a deletion or a check changed what is stored.
TrustIsDeserved == since # "voids" => \A f \in have : Stored(f) = f

\* Resume data that is up to date spares the full check: when only blocks were
\* stored since it was saved, a restart without seed_mode asks for none, skipped
\* files and pad files included.
FreshResumeSparesCheck ==
    (reply.op = "resume" /\ ~reply.error) =>
        (reply.after = "writes" /\ ~reply.seed => ~reply.recheck)
=============================================================================
