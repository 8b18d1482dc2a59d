-------------------------- MODULE SafRestartProofs --------------------------
(***************************************************************************)
(* Proof that what the session counts on after a restart is stored, for    *)
(* any number of files and whenever the process was killed.  The requests  *)
(* are those of SafRestart's runs: no storage is moved ("move" is not      *)
(* among Ops), so the save root stays.                                     *)
(***************************************************************************)
EXTENDS SafRestart, SafStorageProofs

\* Where a file that was not skipped was when the resume data was saved.
SavedPath(f) == Rooted(saved.root, saved.logical[f])

\* Resume data describes a torrent: names that differ, beneath the save root.
SavedType ==
    /\ saved.have \subseteq Real /\ saved.skip \in [Files -> BOOLEAN]
    /\ saved.logical \in [Files -> Names]
    /\ \A f, g \in Files : saved.logical[f] = saved.logical[g] => f = g
    /\ saved.root = root

\* A saved name leads to the file it was, or to none.
NamesKept == \A f, g \in Files : logical[g] = saved.logical[f] => g = f

\* Data saved as being in the part file stays there; data saved as being in a
\* document is there or the document is gone, and once its file is skipped the
\* file has no document at all.
Copies ==
    \A f \in saved.have :
        IF saved.skip[f] THEN part[f] = f
        ELSE /\ fs[SavedPath(f)] \in {f, Absent}
             /\ skip[f] => fs[paths[f]] = Absent

\* The jobs that may run meanwhile: a priority change leaves some file skipped
\* and takes none back that was saved as a document.
JobsKept ==
    /\ job.op # "delete"
    /\ job.op = "check" => saved.have = {}
    /\ job.op = "priority" =>
         /\ \E f \in Files : job.want[f]
         /\ \A f \in Files : f < job.at => skip[f] = job.want[f]
         /\ \A f \in Real : ~saved.skip[f] /\ skip[f] => job.want[f]

\* Nothing but writes: names and places are still the saved ones.
OnlyWrites ==
    since = "writes" => logical = saved.logical /\ skip = saved.skip /\ job.op # "priority"

SavedKept == saved.have \subseteq have /\ NamesKept /\ Copies /\ JobsKept /\ OnlyWrites

RestartInv ==
    /\ TypeOK /\ PathsFollowNames /\ JobFacts /\ Answers
    /\ job.op # "move"
    /\ since \in {"writes", "changes", "voids"}
    /\ since # "voids" => AuthoritativeIntact
    /\ saved # NoResume => SavedType
    /\ (saved # NoResume /\ since # "voids") => SavedKept
    /\ FreshResumeSparesCheck
----------------------------------------------------------------------------
(* What a step of a job does to the places resume data speaks of. *)

USE StorageAssumption DEF Files, Real

\* A saved path is no other file's path.
LEMMA SavedApart ==
    ASSUME TypeOK, PathsFollowNames, SavedType, NamesKept
    PROVE  \A f, g \in Files : /\ SavedPath(f) \in Paths
                               /\ paths[g] = SavedPath(f) => g = f
<1> SUFFICES ASSUME NEW f \in Files, NEW g \in Files
             PROVE  SavedPath(f) \in Paths /\ (paths[g] = SavedPath(f) => g = f)
  OBVIOUS
<1>1. /\ saved.logical[f] \in Names /\ logical[g] \in Names /\ root \in Roots
      /\ SavedPath(f) = Rooted(root, saved.logical[f])
  BY DEF TypeOK, SavedType, SavedPath
<1>2. paths[g] = Rooted(root, logical[g])
  BY DEF PathsFollowNames
<1>3. paths[g] = SavedPath(f) => logical[g] = saved.logical[f]
  BY <1>1, <1>2
<1> QED BY <1>1, <1>3 DEF NamesKept

\* Nothing changes there ...
LEMMA CopiesStay ==
    ASSUME Copies, UNCHANGED <<fs, part, paths, skip, saved>>
    PROVE  Copies'
  BY DEF Copies, SavedPath

\* ... or the document of one file does: it is gone, or holds the file's data
\* and is in use, or it was not saved as a document.
LEMMA CopiesAfterDocument ==
    ASSUME TypeOK, PathsFollowNames, SavedType, NamesKept, Copies, UNCHANGED <<part, paths, saved>>,
           NEW g \in Files, NEW c, fs' = [fs EXCEPT ![paths[g]] = c],
           \A f \in Files : f # g => skip'[f] = skip[f],
           (g \in saved.have /\ ~saved.skip[g]) => c = Absent \/ (c = g /\ ~skip'[g])
    PROVE  Copies'
<1>1. fs'[paths'[g]] = c /\ \A f \in Files : f # g => fs'[paths'[f]] = fs[paths[f]]
  BY DocumentsApart
<1>2. ASSUME NEW f \in saved.have, ~saved.skip[f]
      PROVE  fs'[SavedPath(f)] \in {f, Absent} /\ (skip'[f] => fs'[paths'[f]] = Absent)
  <2>1. f \in Files
    BY <1>2 DEF SavedType
  <2>2. SavedPath(f) \in Paths /\ paths[g] \in Paths /\ fs \in [Paths -> Contents \cup {Absent}]
    BY <2>1, SavedApart DEF TypeOK
  <2>3. fs[SavedPath(f)] \in {f, Absent} /\ (skip[f] => fs[paths[f]] = Absent)
    BY <1>2 DEF Copies
  <2>4. fs'[SavedPath(f)] \in {f, Absent}
    <3>1. CASE paths[g] = SavedPath(f)
      <4>1. g = f
        BY <2>1, <3>1, SavedApart
      <4>2. fs'[SavedPath(f)] = c
        BY <2>2, <3>1
      <4> QED BY <1>2, <4>1, <4>2
    <3>2. CASE paths[g] # SavedPath(f)
      BY <2>2, <2>3, <3>2
    <3> QED BY <3>1, <3>2
  <2>5. skip'[f] => fs'[paths'[f]] = Absent
    <3>1. CASE f = g
      BY <1>2, <1>1, <3>1
    <3>2. CASE f # g
      BY <1>1, <2>1, <2>3, <3>2
    <3> QED BY <3>1, <3>2
  <2> QED BY <2>4, <2>5
<1>3. \A f \in saved.have : SavedPath(f)' = SavedPath(f)
  BY DEF SavedPath
<1>4. \A f \in saved.have : saved.skip[f] => part'[f] = f
  BY DEF Copies
<1> QED BY <1>2, <1>3, <1>4 DEF Copies

\* ... or the part file is written to.
LEMMA CopiesAfterRegion ==
    ASSUME TypeOK, SavedType, Copies, UNCHANGED <<fs, paths, skip, saved>>,
           NEW g \in Files, NEW c \in Contents, part' = PartPut(g, c),
           (g \in saved.have /\ saved.skip[g]) => c = g
    PROVE  Copies'
<1>1. \A f \in saved.have : f \in Files
  BY DEF SavedType
<1>2. \A f \in saved.have : saved.skip[f] => part'[f] = f
  <2> SUFFICES ASSUME NEW f \in saved.have, saved.skip[f] PROVE part'[f] = f
    OBVIOUS
  <2>1. part[f] = f
    BY DEF Copies
  <2> QED BY <1>1, <2>1, RegionsApart
<1> QED BY <1>2 DEF Copies, SavedPath

----------------------------------------------------------------------------
(* A step of the running process. *)

\* The process runs on resume data that is worth something after the step too.
Counts == Running /\ saved # NoResume /\ since' # "voids"

LEMMA Context ==
    ASSUME RestartInv, Counts
    PROVE  /\ IndInv /\ SavedType /\ SavedKept /\ Next /\ ~Voids /\ UNCHANGED saved
           /\ since' = "writes" => since = "writes" /\ ~Changes
           /\ \A f \in saved.have : f \in Files /\ f \in have /\ Stored(f) = f
<1>1. /\ since # "voids" /\ Next /\ UNCHANGED saved /\ since' = After
  BY DEF Counts, Running
<1>2. IndInv /\ SavedType /\ SavedKept
  BY <1>1 DEF RestartInv, IndInv, Counts
<1>3. ~Voids /\ (since' = "writes" => since = "writes" /\ ~Changes)
  BY <1>1 DEF After, Counts, RestartInv
<1>4. \A f \in saved.have : f \in Files /\ f \in have /\ Stored(f) = f
  BY <1>2 DEF SavedType, SavedKept, IndInv, AuthoritativeIntact
<1> QED BY <1>1, <1>2, <1>3, <1>4

\* Without moves the save root stays.
LEMMA RootStays ==
    ASSUME "move" \notin Ops, job.op # "move", Next, TypeOK
    PROVE  root' = root /\ job'.op # "move"
<1> USE DEF nameVars, diskVars, Start, End
<1>1. CASE Requests
  BY <1>1, JobShapes DEF Requests, Read, StartWrite, RenameFile, Renamed, StartPriority,
       StartDelete, StartCheck
<1>2. CASE WriteSlice \/ WriteSliceFails
  <2>1. job \in WriteJobs
    BY <1>2, JobShapes DEF WriteSlice, WriteSliceFails, TypeOK
  <2> QED BY <1>2, <2>1, JobShapes DEF WriteSlice, WriteSliceFails, NextSlice, WriteJobs
<1>3. CASE PriorityStep
  <2>1. job \in PriorityJobs
    BY <1>3, JobShapes DEF PriorityStep, PriorityKeep, ToPartCopy, ToPartRemove, ToPartFails,
         RemoveFails, FromPart, FromPartFails, PriorityEnd, AtFile, TypeOK
  <2> QED BY <1>3, <2>1, JobShapes DEF PriorityStep, PriorityKeep, ToPartCopy, ToPartRemove,
         ToPartFails, RemoveFails, FromPart, FromPartFails, PriorityEnd, Commit, PriorityJobs
<1>4. CASE DeleteOne \/ DeletePart
  <2>1. job \in DeleteJobs
    BY <1>4, JobShapes DEF DeleteOne, DeletePart, AtFile, TypeOK
  <2> QED BY <1>4, <2>1, JobShapes DEF DeleteOne, DeletePart, DeleteJobs
<1>5. CASE Initialize \/ CheckEnd
  <2>1. job \in CheckJobs
    BY <1>5, JobShapes DEF Initialize, CheckEnd, AtFile, TypeOK
  <2> QED BY <1>5, <2>1, JobShapes DEF Initialize, CheckEnd, CheckJobs
<1>6. ~MoveStep
  BY DEF MoveStep, MoveCopy, MoveCopyFails, MoveCommit, MoveClean, MoveEnd
<1> QED BY <1>1, <1>2, <1>3, <1>4, <1>5, <1>6 DEF Next, Work, PriorityStep, MoveStep

\* Requests: a new job has done nothing yet, a rename gives no file a saved name
\* of another, and what would make the resume data worthless is not here.
LEMMA KeptByRequests ==
    ASSUME "move" \notin Ops, RestartInv, Counts, Requests
    PROVE  SavedKept'
<1> USE DEF nameVars, diskVars, Start
<1>1. /\ TypeOK /\ PathsFollowNames /\ AuthoritativeIntact /\ SavedType /\ NamesKept /\ Copies
      /\ saved.have \subseteq have /\ OnlyWrites /\ ~Voids /\ UNCHANGED saved
      /\ since' = "writes" => since = "writes" /\ ~Changes
      /\ saved # NoResume
  BY Context DEF IndInv, SavedKept, Counts
<1>2. job = Idle
  BY DEF Requests, Read, StartWrite, RenameFile, StartPriority, MoveRejected, MoveReset,
         StartMove, StartDelete, StartCheck
<1>3. CASE \E first, last \in Files : Read(first, last) \/ StartWrite(first, last)
  <2>1. /\ UNCHANGED <<fs, part, paths, logical, skip, have>>
        /\ job'.op \in {"idle", "write"}
    BY <1>2, <1>3, JobShapes DEF Read, StartWrite
  <2>2. Copies'
    BY <1>1, <2>1, CopiesStay
  <2> QED BY <1>1, <2>1, <2>2 DEF SavedKept, NamesKept, JobsKept, OnlyWrites
<1>4. CASE \E f \in Real, n \in Names : RenameFile(f, n)
  <2>1. PICK g \in Real, n \in Names : RenameFile(g, n)
    BY <1>4
  <2>2. job' = Idle /\ job'.op = "idle" /\ UNCHANGED <<part, skip, have>>
    BY <1>2, <2>1, JobShapes DEF RenameFile
  <2>3. CASE UNCHANGED <<fs, nameVars>>
    <3>1. Copies'
      BY <1>1, <2>2, <2>3, CopiesStay
    <3> QED BY <1>1, <2>2, <2>3, <3>1 DEF SavedKept, NamesKept, JobsKept, OnlyWrites
  <2>4. CASE /\ Exists(paths[g]) /\ Renamed(g, n)
             /\ fs' = [p \in Paths |-> IF p = Rooted(root, n) THEN fs[paths[g]]
                                       ELSE IF p = paths[g] THEN Absent ELSE fs[p]]
    <3>1. /\ logical' = [logical EXCEPT ![g] = n] /\ paths' = [paths EXCEPT ![g] = Rooted(root, n)]
          /\ logical \in [Files -> Names] /\ paths \in [Files -> Paths] /\ root \in Roots
          /\ Rooted(root, n) \in Paths
      BY <1>1, <2>4 DEF Renamed, TypeOK
    <3>2. NamesKept'
      <4> SUFFICES ASSUME NEW f \in Files, NEW h \in Files, logical'[h] = saved.logical[f]
                   PROVE  h = f
        BY <1>1 DEF NamesKept
      <4>1. CASE logical'[h] = logical[h]
        BY <1>1, <4>1 DEF NamesKept
      <4>2. CASE logical'[h] # logical[h]
        BY <1>1, <4>2 DEF Voids, SavedName
      <4> QED BY <4>1, <4>2
    <3>3. \A f \in Files : f # g => saved.logical[f] # n
      <4>1. logical'[g] = n
        BY <3>1
      <4> QED BY <1>1, <3>2, <4>1 DEF NamesKept
    <3>4. Copies'
      <4> SUFFICES ASSUME NEW f \in saved.have
                   PROVE  IF saved.skip[f] THEN part[f] = f
                          ELSE /\ fs'[SavedPath(f)] \in {f, Absent}
                               /\ skip[f] => fs'[paths'[f]] = Absent
        BY <1>1, <2>2 DEF Copies, SavedPath
      <4>1. f \in Files /\ Stored(f) = f /\ SavedPath(f) \in Paths
        BY <1>1, SavedApart DEF SavedType, AuthoritativeIntact
      <4>2. CASE saved.skip[f]
        BY <1>1, <4>2 DEF Copies
      <4>3. CASE ~saved.skip[f]
        <5>1. fs[SavedPath(f)] \in {f, Absent} /\ (skip[f] => fs[paths[f]] = Absent)
          BY <1>1, <4>3 DEF Copies
        <5>2. CASE f = g
          <6>1. ~skip[f] /\ fs[paths[f]] = f
            BY <2>4, <4>1, <5>1, <5>2 DEF Exists, Stored
          <6>2. fs'[SavedPath(f)] \in {fs[paths[f]], Absent, fs[SavedPath(f)]}
            BY <2>4, <4>1, <5>2
          <6> QED BY <4>3, <5>1, <6>1, <6>2
        <5>3. CASE f # g
          <6>1. SavedPath(f) # Rooted(root, n)
            <7>1. saved.logical[f] \in Names /\ saved.logical[f] # n
              BY <1>1, <3>3, <4>1, <5>3 DEF SavedType
            <7> QED BY <1>1, <3>1, <7>1 DEF SavedPath, SavedType
          <6>2. SavedPath(f) # paths[g]
            BY <1>1, <4>1, <5>3, SavedApart
          <6>3. fs'[SavedPath(f)] = fs[SavedPath(f)]
            BY <2>4, <4>1, <6>1, <6>2
          <6>4. fs'[paths'[f]] = fs[paths[f]]
            <7>1. paths'[f] = paths[f] /\ paths[f] \in Paths
              BY <3>1, <4>1, <5>3
            <7>2. paths[f] # paths[g]
              BY <1>1, <4>1, <5>3 DEF PathsFollowNames
            <7>3. paths[f] # Rooted(root, n)
              <8>1. logical[f] # n /\ logical[f] \in Names
                BY <2>1, <3>1, <4>1, <5>3 DEF RenameFile
              <8>2. paths[f] = Rooted(root, logical[f])
                BY <1>1, <4>1 DEF PathsFollowNames
              <8> QED BY <3>1, <8>1, <8>2
            <7> QED BY <2>4, <7>1, <7>2, <7>3
          <6> QED BY <4>3, <5>1, <6>3, <6>4
        <5> QED BY <5>2, <5>3
      <4> QED BY <4>2, <4>3
    <3>5. OnlyWrites'
      BY <1>1, <2>2 DEF OnlyWrites, Changes
    <3> QED BY <1>1, <2>2, <3>2, <3>4, <3>5 DEF SavedKept, JobsKept
  <2> QED BY <2>1, <2>3, <2>4 DEF RenameFile
<1>5. CASE \E want \in [Files -> BOOLEAN] : StartPriority(want)
  <2>1. PICK want \in [Files -> BOOLEAN] : StartPriority(want)
    BY <1>5
  <2>2. /\ UNCHANGED <<fs, part, paths, logical, skip, have>>
        /\ job'.op = "priority" /\ job'.want = want /\ job'.at = 1
    BY <2>1 DEF StartPriority
  <2>3. Copies'
    BY <1>1, <2>2, CopiesStay
  <2>4. ~ComesBack(want) /\ \E f \in Files : want[f]
    BY <1>1, <1>2, <2>2 DEF Voids
  <2>5. \A f \in Real : ~saved.skip[f] /\ skip[f] => want[f]
    BY <2>4 DEF ComesBack
  <2>6. JobsKept'
    BY <1>1, <2>2, <2>4, <2>5 DEF JobsKept
  <2>7. OnlyWrites'
    BY <1>1, <2>2 DEF OnlyWrites, Changes
  <2> QED BY <1>1, <2>2, <2>3, <2>6, <2>7 DEF SavedKept, NamesKept
<1>6. ~ \E files \in BOOLEAN : StartDelete(files)
  BY <1>1, <1>2 DEF StartDelete, Voids
<1>7. ~StartCheck
  BY <1>1, <1>2 DEF StartCheck, Voids
<1> QED BY <1>3, <1>4, <1>5, <1>6, <1>7 DEF Requests

\* Writes: the slices of a file that counts are of a file that is stored.
LEMMA KeptByWrites ==
    ASSUME RestartInv, Counts, WriteSlice \/ WriteSliceFails
    PROVE  SavedKept'
<1> USE DEF nameVars, diskVars, End
<1>1. /\ TypeOK /\ PathsFollowNames /\ SavedType /\ NamesKept /\ Copies
      /\ saved.have \subseteq have /\ OnlyWrites /\ UNCHANGED saved
      /\ since' = "writes" => since = "writes" /\ ~Changes
      /\ \A f \in saved.have : f \in Files /\ Stored(f) = f
  BY Context DEF IndInv, SavedKept
<1>2. UNCHANGED <<paths, logical, skip>> /\ job \in WriteJobs
  BY <1>1, JobShapes DEF WriteSlice, WriteSliceFails, TypeOK
<1>3. have \subseteq have' /\ job'.op \in {"idle", "write"}
  BY <1>2, JobShapes DEF WriteSlice, WriteSliceFails, NextSlice, WriteJobs
<1>4. PICK g \in Files : g = job.at
  BY <1>2 DEF WriteJobs
<1>5. g \in Contents /\ part[g] \in Contents \cup {Absent} /\ fs[paths[g]] \in Contents \cup {Absent}
  BY <1>1 DEF TypeOK, Contents
<1>6. Copies'
  <2>1. CASE UNCHANGED <<fs, part>>
    BY <1>1, <1>2, <2>1, CopiesStay
  <2>2. CASE WriteSlice
    <3>1. CASE part' = PartPut(g, g) /\ UNCHANGED fs
      BY <1>1, <1>2, <1>5, <3>1, CopiesAfterRegion
    <3>2. CASE ~skip[g] /\ fs' = [fs EXCEPT ![paths[g]] = g] /\ UNCHANGED part
      BY <1>1, <1>2, <3>2, CopiesAfterDocument
    <3> QED BY <1>4, <2>1, <2>2, <3>1, <3>2 DEF WriteSlice
  <2>3. CASE WriteSliceFails
    <3>1. CASE UNCHANGED fs /\ \E c \in Torn(part[g], g) \ {Absent} : part' = PartPut(g, c)
      <4>1. PICK c \in Torn(part[g], g) \ {Absent} : part' = PartPut(g, c)
        BY <3>1
      <4>2. c \in Contents /\ (part[g] = g => c = g)
        BY <1>5, <4>1, TornType
      <4>3. (g \in saved.have /\ saved.skip[g]) => c = g
        BY <1>1, <4>2 DEF Copies
      <4> QED BY <1>1, <1>2, <3>1, <4>1, <4>2, <4>3, CopiesAfterRegion
    <3>2. CASE /\ ~skip[g] /\ UNCHANGED part
               /\ \E c \in Torn(Opened(fs[paths[g]]), g) : fs' = [fs EXCEPT ![paths[g]] = c]
      <4>1. PICK c \in Torn(Opened(fs[paths[g]]), g) : fs' = [fs EXCEPT ![paths[g]] = c]
        BY <3>2
      <4>2. Opened(fs[paths[g]]) \in Contents /\ (fs[paths[g]] = g => Opened(fs[paths[g]]) = g)
        BY <1>5, OpenedType
      <4>3. fs[paths[g]] = g => c = g
        BY <4>1, <4>2, TornType
      <4>4. g \in saved.have => c = g
        BY <1>1, <3>2, <4>3 DEF Stored
      <4> QED BY <1>1, <1>2, <3>2, <4>1, <4>4, CopiesAfterDocument
    <3> QED BY <1>4, <2>1, <2>3, <3>1, <3>2 DEF WriteSliceFails
  <2> QED BY <2>2, <2>3
<1> QED BY <1>1, <1>2, <1>3, <1>6 DEF SavedKept, NamesKept, JobsKept, OnlyWrites

\* Priority changes: a file is taken out of its document only with its data in
\* the part file, none is taken back to where it was saved, and the part file
\* stays.
LEMMA KeptByPriorities ==
    ASSUME RestartInv, Counts, PriorityStep
    PROVE  SavedKept'
<1> USE DEF nameVars, diskVars, AtFile
<1>1. /\ TypeOK /\ PathsFollowNames /\ PriorityFacts /\ SavedType /\ NamesKept /\ Copies
      /\ saved.have \subseteq have /\ OnlyWrites /\ JobsKept /\ UNCHANGED saved
      /\ since' = "writes" => since = "writes" /\ ~Changes
      /\ \A f \in saved.have : f \in Files /\ f \in have /\ Stored(f) = f
  BY Context DEF IndInv, SavedKept, JobFacts
<1>2. /\ job.op = "priority" /\ UNCHANGED <<paths, logical, have>>
  BY DEF PriorityStep, PriorityKeep, ToPartCopy, ToPartRemove, ToPartFails, RemoveFails,
         FromPart, FromPartFails, PriorityEnd
<1>3. job \in PriorityJobs
  BY <1>1, <1>2, JobShapes DEF TypeOK
<1>4. /\ \E f \in Files : job.want[f]
      /\ \A f \in Files : f < job.at => skip[f] = job.want[f]
      /\ \A f \in Real : ~saved.skip[f] /\ skip[f] => job.want[f]
      /\ job.want \in [Files -> BOOLEAN] /\ skip \in [Files -> BOOLEAN]
  BY <1>1, <1>2, <1>3 DEF JobsKept, PriorityJobs, TypeOK
<1>5. OnlyWrites'
  BY <1>1, <1>2 DEF OnlyWrites
<1>6. ASSUME Copies', JobsKept' PROVE SavedKept'
  BY <1>1, <1>2, <1>5, <1>6 DEF SavedKept, NamesKept
<1>7. ASSUME job' = Idle PROVE JobsKept'
  BY <1>7, JobShapes DEF JobsKept
<1>8. ASSUME NEW g \in Files, g = job.at, Commit
      PROVE  /\ JobsKept' /\ skip' = [skip EXCEPT ![g] = job.want[g]]
             /\ \A f \in Files : f # g => skip'[f] = skip[f]
  <2>1. skip' = [skip EXCEPT ![g] = job.want[g]] /\ job' = [job EXCEPT !.at = @ + 1, !.phase = "copy"]
    BY <1>8 DEF Commit
  <2>2. job'.op = "priority" /\ job'.at = g + 1 /\ job'.want = job.want
    BY <1>3, <1>8, <2>1 DEF PriorityJobs
  <2>3. \A f \in Files : skip'[f] = IF f = g THEN job.want[f] ELSE skip[f]
    BY <1>4, <2>1
  <2>4. \A f \in Files : f < g + 1 => skip'[f] = job.want[f]
    <3>1. \A f \in Files : f < g + 1 => f < g \/ f = g
      OBVIOUS
    <3> QED BY <1>4, <1>8, <2>3, <3>1
  <2>5. \A f \in Real : ~saved.skip[f] /\ skip'[f] => job.want[f]
    BY <1>4, <2>3
  <2>6. JobsKept'
    BY <1>1, <1>4, <2>2, <2>4, <2>5 DEF JobsKept
  <2> QED BY <2>1, <2>3, <2>6
<1>9. CASE PriorityKeep
  <2>1. PICK g \in Files : g = job.at
    BY <1>9 DEF PriorityKeep
  <2>2. Commit /\ ~Migrates /\ UNCHANGED <<fs, part>>
    BY <1>9 DEF PriorityKeep
  <2>3. \A f \in Real : skip'[f] = skip[f]
    <3>1. g \in Real => skip[g] = job.want[g]
      BY <2>1, <2>2 DEF Migrates
    <3> QED BY <1>4, <1>8, <2>1, <2>2, <3>1
  <2>4. \A f \in saved.have : f \in Real
    BY <1>1 DEF SavedType
  <2>5. Copies'
    BY <1>1, <1>2, <2>2, <2>3, <2>4 DEF Copies, SavedPath
  <2> QED BY <1>6, <1>8, <2>1, <2>2, <2>5
<1>10. CASE ToPartCopy
  <2>1. PICK g \in Files : g = job.at
    BY <1>10 DEF ToPartCopy
  <2>2. ~skip[g] /\ UNCHANGED <<fs, skip>>
    BY <1>10, <2>1 DEF ToPartCopy, Migrates
  <2>3. fs[paths[g]] \in Contents \cup {Absent}
    BY <1>1 DEF TypeOK
  <2>4. PICK x \in Contents : x = IF fs[paths[g]] = Absent THEN Zero ELSE fs[paths[g]]
    BY <2>3 DEF Contents
  <2>5. part' = PartPut(g, x)
    BY <1>10, <2>1, <2>4 DEF ToPartCopy
  <2>6. g \in saved.have => x = g
    <3>1. g \in saved.have => fs[paths[g]] = g /\ g # Absent
      BY <1>1, <2>2, CellsDiffer DEF Stored
    <3> QED BY <2>4, <3>1
  <2>7. Copies'
    BY <1>1, <1>2, <2>2, <2>5, <2>6, CopiesAfterRegion
  <2>8. job' = [job EXCEPT !.phase = "remove"]
    BY <1>10 DEF ToPartCopy
  <2>9. job'.op = "priority" /\ job'.at = job.at /\ job'.want = job.want
    BY <1>3, <2>8 DEF PriorityJobs
  <2>10. JobsKept'
    BY <1>1, <1>4, <2>2, <2>9 DEF JobsKept
  <2> QED BY <1>6, <2>7, <2>10
<1>11. CASE ToPartRemove
  <2>1. PICK g \in Files : g = job.at
    BY <1>11 DEF ToPartRemove
  <2>2. Commit /\ fs' = [fs EXCEPT ![paths[g]] = Absent] /\ UNCHANGED part
    BY <1>11, <2>1 DEF ToPartRemove
  <2>3. JobsKept' /\ \A f \in Files : f # g => skip'[f] = skip[f]
    BY <1>8, <2>1, <2>2
  <2>4. Copies'
    BY <1>1, <1>2, <2>2, <2>3, CopiesAfterDocument
  <2> QED BY <1>6, <2>3, <2>4
<1>12. CASE ToPartFails
  <2>1. PICK g \in Files : g = job.at
    BY <1>12 DEF ToPartFails
  <2>2. ~skip[g] /\ UNCHANGED <<fs, skip>> /\ job' = Idle
    BY <1>12, <2>1 DEF ToPartFails, Migrates, End
  <2>3. Copies'
    <3>1. CASE UNCHANGED part
      BY <1>1, <1>2, <2>2, <3>1, CopiesStay
    <3>2. CASE \E x \in Torn(part[g], fs[paths[g]]) \ {Absent} : part' = PartPut(g, x)
      <4>1. PICK x \in Torn(part[g], fs[paths[g]]) \ {Absent} : part' = PartPut(g, x)
        BY <3>2
      <4>2. part[g] \in Contents \cup {Absent}
        BY <1>1 DEF TypeOK
      <4>3. x \in Contents /\ (part[g] = fs[paths[g]] => x = part[g])
        BY <4>1, <4>2, TornType
      <4>4. (g \in saved.have /\ saved.skip[g]) => x = g
        BY <1>1, <2>2, <4>3 DEF Copies, Stored
      <4> QED BY <1>1, <1>2, <2>2, <4>1, <4>3, <4>4, CopiesAfterRegion
    <3> QED BY <1>12, <2>1, <3>1, <3>2 DEF ToPartFails
  <2> QED BY <1>6, <1>7, <2>2, <2>3
<1>13. CASE RemoveFails
  <2>1. UNCHANGED <<fs, part, skip>> /\ job' = Idle
    BY <1>13 DEF RemoveFails, End
  <2> QED BY <1>1, <1>2, <1>6, <1>7, <2>1, CopiesStay
<1>14. CASE FromPart \/ FromPartFails
  <2>1. PICK g \in Files : g = job.at
    BY <1>14 DEF FromPart, FromPartFails
  <2>2. g \in Real /\ skip[g] /\ ~job.want[g]
    <3>1. g \in Real /\ skip[g] # job.want[g] /\ ~job.want[g]
      BY <1>14, <2>1 DEF FromPart, FromPartFails, Migrates
    <3>2. skip[g] \in BOOLEAN /\ job.want[g] \in BOOLEAN
      BY <1>4
    <3> QED BY <3>1, <3>2
  <2>3. saved.skip[g]
    BY <1>4, <2>2
  <2>4. PICK c : fs' = [fs EXCEPT ![paths[g]] = c]
    BY <1>14, <2>1 DEF FromPart, FromPartFails
  <2>5. UNCHANGED part /\ (Commit \/ (job' = Idle /\ UNCHANGED skip))
    BY <1>14 DEF FromPart, FromPartFails, End
  <2>6. JobsKept' /\ \A f \in Files : f # g => skip'[f] = skip[f]
    BY <1>7, <1>8, <2>1, <2>5
  <2>7. Copies'
    BY <1>1, <1>2, <2>3, <2>4, <2>5, <2>6, CopiesAfterDocument
  <2> QED BY <1>6, <2>6, <2>7
<1>15. CASE PriorityEnd
  <2>1. job.at = N + 1 /\ job' = Idle /\ UNCHANGED <<fs, skip>>
    BY <1>15 DEF PriorityEnd, End
  <2>2. ~PartUnneeded
    <3>1. PICK f \in Files : job.want[f]
      BY <1>4
    <3>2. f < job.at
      BY <2>1
    <3> QED BY <1>4, <3>1, <3>2 DEF PartUnneeded
  <2>3. UNCHANGED part
    BY <1>15, <2>2 DEF PriorityEnd
  <2> QED BY <1>1, <1>2, <1>6, <1>7, <2>1, <2>3, CopiesStay
<1> QED BY <1>9, <1>10, <1>11, <1>12, <1>13, <1>14, <1>15 DEF PriorityStep

\* The files are initialised after a restart whose resume data lists none.
LEMMA KeptByChecks ==
    ASSUME RestartInv, Counts, Initialize \/ CheckEnd
    PROVE  SavedKept'
<1> USE DEF nameVars, diskVars, AtFile, End
<1>1. /\ TypeOK /\ NamesKept /\ OnlyWrites /\ JobsKept /\ UNCHANGED saved
      /\ since' = "writes" => since = "writes" /\ ~Changes
  BY Context DEF IndInv, SavedKept
<1>2. job.op = "check" /\ UNCHANGED <<logical, skip>> /\ job \in CheckJobs
  BY <1>1, JobShapes DEF Initialize, CheckEnd, TypeOK
<1>3. saved.have = {} /\ job'.op \in {"idle", "check"}
  BY <1>1, <1>2, JobShapes DEF JobsKept, Initialize, CheckEnd, CheckJobs
<1> QED BY <1>1, <1>2, <1>3 DEF SavedKept, NamesKept, Copies, JobsKept, OnlyWrites

\* Every step of the running process keeps what resume data counts on.
LEMMA KeptByRunning ==
    ASSUME "move" \notin Ops, RestartInv, Counts
    PROVE  SavedKept'
<1>1. job.op # "delete" /\ job.op # "move" /\ Next
  BY Context DEF SavedKept, JobsKept, RestartInv
<1>2. ~MoveStep /\ ~DeleteOne /\ ~DeletePart
  BY <1>1 DEF MoveStep, MoveCopy, MoveCopyFails, MoveCommit, MoveClean, MoveEnd, DeleteOne,
              DeletePart, AtFile
<1> QED BY <1>1, <1>2, KeptByRequests, KeptByWrites, KeptByPriorities, KeptByChecks
        DEF Next, Work, PriorityStep, MoveStep

\* The answer to a check with resume data comes from a restart.
LEMMA OtherReplies ==
    ASSUME Next
    PROVE  reply' = reply \/ reply'.op # "resume"
<1> USE DEF Start, End, Failed, Done, NoReply
<1>1. CASE Requests
  BY <1>1 DEF Requests, Read, StartWrite, RenameFile, StartPriority, MoveRejected, MoveReset,
       StartMove, StartDelete, StartCheck
<1>2. CASE Work
  <2>1. CASE WriteSlice \/ WriteSliceFails
    BY <2>1 DEF WriteSlice, WriteSliceFails, NextSlice
  <2>2. CASE PriorityKeep \/ ToPartCopy \/ ToPartRemove \/ FromPart
    BY <2>2 DEF PriorityKeep, ToPartCopy, ToPartRemove, FromPart, Commit
  <2>3. CASE ToPartFails \/ RemoveFails \/ FromPartFails \/ PriorityEnd
    BY <2>3 DEF ToPartFails, RemoveFails, FromPartFails, PriorityEnd
  <2>4. CASE MoveCopy \/ MoveCopyFails \/ MoveCommit \/ MoveClean \/ MoveEnd
    BY <2>4 DEF MoveCopy, MoveCopyFails, MoveCommit, MoveClean, MoveEnd
  <2>5. CASE DeleteOne \/ DeletePart \/ Initialize \/ CheckEnd
    BY <2>5 DEF DeleteOne, DeletePart, Initialize, CheckEnd
  <2> QED BY <1>2, <2>1, <2>2, <2>3, <2>4, <2>5 DEF Work
<1> QED BY <1>1, <1>2 DEF Next

LEMMA RunningStep ==
    ASSUME "move" \notin Ops, RestartInv, Running
    PROVE  RestartInv'
<1>1. IndInv /\ since # "voids" /\ Next /\ UNCHANGED saved /\ since' = After
  BY DEF Running, RestartInv, IndInv
<1>2. IndInv'
  BY <1>1, Inductive
<1>3. root' = root /\ job'.op # "move"
  BY <1>1, RootStays DEF RestartInv
<1>4. since' \in {"writes", "changes", "voids"}
  BY <1>1 DEF After
<1>5. saved' # NoResume => SavedType'
  BY <1>1, <1>3 DEF RestartInv, SavedType
<1>6. (saved' # NoResume /\ since' # "voids") => SavedKept'
  BY <1>1, KeptByRunning DEF Counts
<1>7. FreshResumeSparesCheck'
  BY <1>1, OtherReplies DEF RestartInv, FreshResumeSparesCheck
<1> QED BY <1>2, <1>3, <1>4, <1>5, <1>6, <1>7 DEF RestartInv, IndInv

----------------------------------------------------------------------------
(* Resume data is saved, and the process is killed and started again. *)

LEMMA SaveStep ==
    ASSUME RestartInv, SaveResume
    PROVE  RestartInv'
<1>1. /\ job = Idle /\ job.op = "idle" /\ UNCHANGED vars
      /\ saved' = [have |-> have, skip |-> skip, root |-> root, logical |-> logical]
      /\ since' \in {"writes", "voids"}
      /\ since' = "writes" => \A f \in have : Stored(f) = f
  BY JobShapes DEF SaveResume
<1>2. /\ saved'.have = have /\ saved'.skip = skip /\ saved'.root = root /\ saved'.logical = logical
  BY <1>1
<1>3. TypeOK /\ PathsFollowNames /\ JobFacts /\ Answers /\ FreshResumeSparesCheck
  BY DEF RestartInv
<1>4. TypeOK' /\ PathsFollowNames' /\ FreshResumeSparesCheck' /\ job' = Idle /\ job'.op = "idle"
  BY <1>1, <1>3 DEF vars, TypeOK, PathsFollowNames, FreshResumeSparesCheck
<1>5. JobFacts'
  BY <1>4, EndFacts
<1>6. Answers'
  BY <1>1, <1>3 DEF vars, Answers, AnswersLast, ReadsBack, DeletionIsHonest, FreshMeansFresh, Exists
<1>7. since' # "voids" => AuthoritativeIntact'
  BY <1>1 DEF vars, AuthoritativeIntact, Stored
<1>8. SavedType'
  BY <1>1, <1>2, <1>3, NamesDiffer DEF vars, SavedType, TypeOK
<1>9. ASSUME since' # "voids" PROVE SavedKept'
  <2>1. NamesKept'
    BY <1>1, <1>2, <1>3, NamesDiffer DEF vars, NamesKept
  <2>2. \A f \in have : f \in Files /\ SavedPath(f)' = paths[f]
    BY <1>2, <1>3 DEF SavedPath, TypeOK, PathsFollowNames
  <2>3. \A f \in have : Stored(f) = f
    BY <1>1, <1>9
  <2>4. Copies'
    BY <1>1, <1>2, <2>2, <2>3 DEF vars, Copies, Stored
  <2>5. JobsKept' /\ OnlyWrites'
    BY <1>1, <1>2, <1>4 DEF vars, JobsKept, OnlyWrites
  <2> QED BY <1>1, <1>2, <2>1, <2>4, <2>5 DEF vars, SavedKept
<1> QED BY <1>1, <1>4, <1>5, <1>6, <1>7, <1>8, <1>9 DEF RestartInv

\* validate_resume(): without a full check, every file that counts and is not
\* skipped was found; with only writes since, no full check is asked for.
LEMMA Validated ==
    ASSUME RestartInv, saved # NoResume, NEW seed \in BOOLEAN, ValidateResume(seed),
           paths' = [f \in Files |-> SavedPath(f)], skip' = saved.skip,
           UNCHANGED <<fs, part, saved>>
    PROVE  /\ job' = Idle /\ reply'.op = "resume" /\ have' \subseteq Real
           /\ \/ \A f \in have' : Stored(f)' = f
              \/ /\ have' = saved.have
                 /\ \A f \in saved.have : ~saved.skip[f] => fs[SavedPath(f)] # Absent
           /\ FreshResumeSparesCheck'
<1> DEFINE full == seed \/ saved.have = Real
           looked == {f \in (IF full THEN Files ELSE saved.have) : LooksAt(f, seed)}
<1>1. SavedType
  BY DEF RestartInv
<1>2. PICK suspect \in [looked -> BOOLEAN] :
        /\ \A f \in looked : suspect[f] \in Suspect(f, full)
        /\ reply' = [op |-> "resume", error |-> FALSE, recheck |-> \E f \in looked : suspect[f],
                     seed |-> seed, after |-> since]
        /\ have' = IF \E f \in looked : suspect[f] THEN {f \in Real : Stored(f)' = f} ELSE saved.have
        /\ job' = Idle
  BY DEF ValidateResume
<1>3. have' \subseteq Real
  BY <1>1, <1>2 DEF SavedType
<1>4. \A f \in Files : paths'[f] = SavedPath(f) /\ skip'[f] = saved.skip[f]
  OBVIOUS
<1>5. CASE \E f \in looked : suspect[f]
  <2>1. \A f \in have' : Stored(f)' = f
    BY <1>2, <1>5
  <2>2. FreshResumeSparesCheck'
    <3>1. since = "writes" /\ ~seed => ~ \E f \in looked : suspect[f]
      <4> SUFFICES ASSUME since = "writes", ~seed, NEW f \in looked PROVE ~suspect[f]
        OBVIOUS
      <4>1. SavedKept /\ AuthoritativeIntact /\ PathsFollowNames
        BY DEF RestartInv
      <4>2. logical = saved.logical /\ skip = saved.skip /\ saved.have \subseteq have
        BY <4>1 DEF SavedKept, OnlyWrites
      <4>3. f \in saved.have /\ f \in Files /\ ~saved.skip[f]
        BY <1>1, <1>4 DEF LooksAt, SavedType
      <4>4. paths[f] = SavedPath(f)
        BY <1>1, <4>1, <4>2, <4>3 DEF PathsFollowNames, SavedPath, SavedType
      <4>5. fs[paths'[f]] = f
        BY <1>4, <4>1, <4>2, <4>3, <4>4 DEF AuthoritativeIntact, Stored
      <4>6. f \notin {Absent, Empty, Junk}
        BY <4>3, CellsDiffer
      <4>7. FullSize(f) = {TRUE}
        BY <4>6 DEF FullSize
      <4>8. \A s \in Suspect(f, full) : ~s
        <5>1. fs[paths'[f]] # Absent /\ FullSize(fs[paths'[f]]) = {TRUE}
          BY <4>5, <4>6, <4>7
        <5>2. \A s \in {~x : x \in FullSize(fs[paths'[f]])} : ~s
          BY <5>1, Zenon
        <5> QED BY <5>1, <5>2, Zenon DEF Suspect
      <4> QED BY <1>2, <4>8
    <3> QED BY <1>2, <3>1 DEF FreshResumeSparesCheck
  <2> QED BY <1>2, <1>3, <2>1, <2>2
<1>6. CASE ~ \E f \in looked : suspect[f]
  <2>1. have' = saved.have
    BY <1>2, <1>6
  <2>2. ASSUME NEW f \in saved.have, ~saved.skip[f] PROVE fs[SavedPath(f)] # Absent
    <3>1. f \in Real /\ f \in Files
      BY <1>1 DEF SavedType
    <3>2. f \in looked
      BY <1>4, <2>2, <3>1 DEF LooksAt
    <3>3. suspect[f] \in Suspect(f, full) /\ ~suspect[f] /\ suspect[f] \in BOOLEAN
      BY <1>2, <1>6, <3>2
    <3>4. fs[paths'[f]] = Absent => Suspect(f, full) = {TRUE}
      BY DEF Suspect
    <3> QED BY <1>4, <3>1, <3>3, <3>4
  <2>3. FreshResumeSparesCheck'
    BY <1>2, <1>6 DEF FreshResumeSparesCheck
  <2> QED BY <1>2, <1>3, <2>1, <2>2, <2>3
<1> QED BY <1>5, <1>6

LEMMA RestartStep ==
    ASSUME RestartInv, NEW seed \in BOOLEAN, Restart(seed)
    PROVE  RestartInv'
<1> USE DEF diskVars
<1>1. /\ saved # NoResume
      /\ root' = saved.root /\ logical' = saved.logical /\ skip' = saved.skip
      /\ paths' = [f \in Files |-> SavedPath(f)]
      /\ UNCHANGED <<fs, hasPart, part, saved>>
      /\ since' = IF have' = saved.have THEN since ELSE "voids"
  BY DEF Restart, SavedPath
<1>2. TypeOK /\ SavedType
  BY <1>1 DEF RestartInv
<1>3. \A f \in Files : /\ saved.logical[f] \in Names /\ SavedPath(f) \in Paths
                       /\ SavedPath(f)' = SavedPath(f)
  BY <1>1, <1>2 DEF SavedPath, SavedType, TypeOK
<1>4. PathsFollowNames'
  <2>1. \A f, g \in Files : SavedPath(f) = SavedPath(g) => f = g
    BY <1>2, <1>3 DEF SavedPath, SavedType, TypeOK
  <2> QED BY <1>1, <1>2, <2>1 DEF PathsFollowNames, SavedPath
<1>5. SavedType'
  BY <1>1, <1>2 DEF SavedType
\* What the session is told, in the three ways it can go.
<1>6. /\ have' \subseteq Real /\ FreshResumeSparesCheck'
      /\ \/ job' = Idle /\ reply'.op = "resume"
         \/ /\ job' = [op |-> "check", at |-> 1, had |-> FALSE, blind |-> FALSE]
            /\ reply' = NoReply /\ saved.have = {}
      /\ \/ \A f \in have' : Stored(f)' = f
         \/ /\ have' = saved.have
            /\ \A f \in saved.have : ~saved.skip[f] => fs[SavedPath(f)] # Absent
  <2>1. CASE ValidateResume(seed)
    BY <1>1, <2>1, Validated
  <2>2. CASE ResumeFails
    BY <2>2 DEF ResumeFails, Failed, FreshResumeSparesCheck
  <2>3. CASE /\ saved.have = {} /\ have' = {} /\ reply' = NoReply
             /\ job' = [op |-> "check", at |-> 1, had |-> FALSE, blind |-> FALSE]
    BY <2>3 DEF NoReply, FreshResumeSparesCheck
  <2> QED BY <2>1, <2>2, <2>3 DEF Restart
<1>7. /\ job' \in JobType /\ job'.op \in {"idle", "check"} /\ JobFacts' /\ Answers'
      /\ job'.op = "check" => saved.have = {}
  <2>1. CASE job' = Idle /\ reply'.op = "resume"
    <3>1. JobFacts' /\ Answers'
      BY <2>1, EndFacts, OtherAnswer
    <3> QED BY <2>1, <3>1, JobShapes
  <2>2. CASE /\ job' = [op |-> "check", at |-> 1, had |-> FALSE, blind |-> FALSE]
             /\ reply' = NoReply /\ saved.have = {}
    <3>1. job' \in CheckJobs /\ job'.op = "check" /\ job'.at = 1
      BY <2>2 DEF CheckJobs
    <3>2. \A f \in Real : ~(f < job'.at)
      BY <3>1
    <3>3. JobFacts'
      BY <3>1, <3>2 DEF JobFacts, WriteFacts, PriorityFacts, MoveFacts, DeleteFacts, CheckFacts
    <3> QED BY <2>2, <3>1, <3>3, JobShapes, Silent
  <2> QED BY <1>6, <2>1, <2>2
<1>8. TypeOK'
  <2>1. paths' \in [Files -> Paths]
    BY <1>1, <1>3
  <2> QED BY <1>1, <1>2, <1>6, <1>7, <2>1 DEF TypeOK, SavedType
<1>9. since' \in {"writes", "changes", "voids"} /\ (since' # "voids" => since' = since /\ have' = saved.have)
  BY <1>1 DEF RestartInv
<1>10. since' # "voids" => SavedKept
  BY <1>1, <1>9 DEF RestartInv
<1>11. ASSUME since' # "voids" PROVE AuthoritativeIntact'
  <2>1. CASE \A f \in have' : Stored(f)' = f
    BY <2>1 DEF AuthoritativeIntact
  <2>2. CASE /\ have' = saved.have
             /\ \A f \in saved.have : ~saved.skip[f] => fs[SavedPath(f)] # Absent
    <3>1. \A f \in saved.have : f \in Files /\ paths'[f] = SavedPath(f)
      BY <1>1, <1>2 DEF SavedType
    <3>2. \A f \in saved.have : IF saved.skip[f] THEN part[f] = f ELSE fs[SavedPath(f)] = f
      BY <1>10, <1>11, <2>2 DEF SavedKept, Copies
    <3> QED BY <1>1, <2>2, <3>1, <3>2 DEF AuthoritativeIntact, Stored
  <2> QED BY <1>6, <2>1, <2>2
<1>12. ASSUME since' # "voids" PROVE SavedKept'
  <2>1. SavedKept /\ have' = saved.have /\ since' = since
    BY <1>9, <1>10, <1>12
  <2>2. NamesKept'
    BY <1>1, <1>2 DEF NamesKept, SavedType
  <2>3. Copies'
    BY <1>1, <1>2, <1>3, <2>1 DEF SavedKept, Copies, SavedType
  <2>4. JobsKept'
    BY <1>1, <1>7 DEF JobsKept
  <2>5. OnlyWrites'
    BY <1>1, <1>7 DEF OnlyWrites
  <2> QED BY <1>1, <2>1, <2>2, <2>3, <2>4, <2>5 DEF SavedKept
<1> QED BY <1>4, <1>5, <1>6, <1>7, <1>8, <1>9, <1>11, <1>12 DEF RestartInv

----------------------------------------------------------------------------

LEMMA RestartInductive ==
    "move" \notin Ops => (RestartInv /\ [RestartNext]_restartVars => RestartInv')
<1> SUFFICES ASSUME "move" \notin Ops, RestartInv, [RestartNext]_restartVars PROVE RestartInv'
  OBVIOUS
<1>1. CASE RestartNext
  BY <1>1, RunningStep, SaveStep, RestartStep DEF RestartNext
<1>2. CASE UNCHANGED restartVars
  <2> USE <1>2 DEF restartVars, vars
  <2>1. TypeOK' /\ PathsFollowNames' /\ (since' # "voids" => AuthoritativeIntact')
    BY ZenonT(60) DEF RestartInv, TypeOK, PathsFollowNames, AuthoritativeIntact, Stored
  <2>2. WriteFacts' /\ PriorityFacts'
    BY DEF RestartInv, JobFacts, WriteFacts, PriorityFacts, Stored
  <2>3. MoveFacts'
    BY DEF RestartInv, JobFacts, MoveFacts, Collides, Destination
  <2>4. DeleteFacts' /\ CheckFacts'
    BY DEF RestartInv, JobFacts, DeleteFacts, CheckFacts, Exists
  <2>5. Answers' /\ FreshResumeSparesCheck'
    BY DEF RestartInv, Answers, AnswersLast, ReadsBack, DeletionIsHonest, FreshMeansFresh, Exists,
           FreshResumeSparesCheck
  <2>6. /\ saved' # NoResume => SavedType'
        /\ (saved' # NoResume /\ since' # "voids") => SavedKept'
    BY DEF RestartInv, SavedType, SavedKept, NamesKept, Copies, SavedPath, JobsKept, OnlyWrites
  <2> QED BY <2>1, <2>2, <2>3, <2>4, <2>5, <2>6 DEF RestartInv, JobFacts
<1> QED BY <1>1, <1>2

LEMMA RestartInitially == RestartInit => RestartInv
<1> SUFFICES ASSUME RestartInit PROVE RestartInv
  OBVIOUS
<1>1. IndInv
  BY Initially DEF RestartInit
<1>2. job.op = "idle" /\ saved = NoResume /\ since = "writes" /\ reply = NoReply
  BY JobShapes DEF RestartInit, Init
<1>3. FreshResumeSparesCheck
  BY <1>2 DEF FreshResumeSparesCheck, NoReply
<1> QED BY <1>1, <1>2, <1>3 DEF RestartInv, IndInv

\* What the session counts on after a restart from resume data is where reads
\* will look for it, however many files there are and wherever the process was
\* killed, unless something made the resume data void.
THEOREM TrustDeserved == "move" \notin Ops => (RestartSpec => []TrustIsDeserved)
<1> SUFFICES ASSUME "move" \notin Ops PROVE RestartSpec => []TrustIsDeserved
  OBVIOUS
<1>1. RestartInv /\ [RestartNext]_restartVars => RestartInv'
  BY RestartInductive
<1>2. RestartInv => TrustIsDeserved
  BY DEF RestartInv, TrustIsDeserved, AuthoritativeIntact
<1> QED BY <1>1, <1>2, RestartInitially, PTL DEF RestartSpec

\* When only blocks were stored since it was saved, validate_resume() accepts
\* the resume data: no full check, skipped files and pad files included.
THEOREM FreshResumeAccepted == "move" \notin Ops => (RestartSpec => []FreshResumeSparesCheck)
<1> SUFFICES ASSUME "move" \notin Ops PROVE RestartSpec => []FreshResumeSparesCheck
  OBVIOUS
<1>1. RestartInv /\ [RestartNext]_restartVars => RestartInv'
  BY RestartInductive
<1>2. RestartInv => FreshResumeSparesCheck
  BY DEF RestartInv
<1> QED BY <1>1, <1>2, RestartInitially, PTL DEF RestartSpec
=============================================================================
