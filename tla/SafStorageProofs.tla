-------------------------- MODULE SafStorageProofs --------------------------
(***************************************************************************)
(* Proofs that the jobs of the disk back end keep the data, the names and  *)
(* the answers of a torrent right, for any number of files, any names and  *)
(* roots, and whichever calls of the bridge fail.                          *)
(***************************************************************************)
EXTENDS SafStorage, WellFoundedInduction, TLAPS

\* A job answers once, at its end.
AnswersLast == job # Idle => reply = NoReply

\* write_block(): the slices before the present one are stored.
WriteFacts ==
    job.op = "write" =>
        /\ job.first <= job.at /\ job.at <= job.last
        /\ \A g \in Real : job.first <= g /\ g < job.at => Stored(g) = g

\* migrate_priority(): before a public file is removed, it is in the part file.
PriorityFacts ==
    (job.op = "priority" /\ job.phase = "remove") =>
        /\ job.at \in Real /\ ~skip[job.at] /\ job.want[job.at]
        /\ job.at \in have => part[job.at] = job.at

\* move_storage(): no destination is a file in use, and before the names change
\* what the session was told is stored has been copied, unless it was kept.
MoveFacts ==
    job.op = "move" =>
        IF job.done THEN job.copy = {}
        ELSE /\ ~Collides(job.to)
             /\ \A f \in job.copy : f \in Real /\ paths[f] # Destination(job.to)[f]
             /\ \A f \in have : ~skip[f] /\ f \notin job.copy /\ f \notin job.kept
                                   => fs[Destination(job.to)[f]] = f

\* delete_files gives up all that is stored and delete_partfile what is in the
\* part file; without an error so far, the documents passed are gone.
DeleteFacts ==
    job.op = "delete" =>
        /\ \A f \in have : ~job.files /\ ~skip[f]
        /\ ~job.files => job.at = N + 1
        /\ job.files /\ ~job.error => \A f \in Real : f < job.at => ~Exists(paths[f])

\* initialize_files(): nothing seen so far, so the documents passed are new.
CheckFacts ==
    (job.op = "check" /\ ~job.had /\ ~job.blind) =>
        \A f \in Real : f < job.at /\ ~skip[f] => fs[paths[f]] = Zero

JobFacts == WriteFacts /\ PriorityFacts /\ MoveFacts /\ DeleteFacts /\ CheckFacts

Answers == AnswersLast /\ ReadsBack /\ DeletionIsHonest /\ FreshMeansFresh

IndInv == TypeOK /\ PathsFollowNames /\ AuthoritativeIntact /\ JobFacts /\ Answers
----------------------------------------------------------------------------
(* Numbers, names and cells. *)

USE StorageAssumption DEF Files, Real

\* The loops of move_storage run over the files in order: there is a first one.
LEMMA LeastIn ==
    ASSUME NEW S \in SUBSET Files, S # {}
    PROVE  Least(S) \in S
<1> DEFINE R == OpToRel(<, Nat)
<1>1. IsWellFoundedOn(R, Nat)
  BY NatLessThanWellFounded
<1>2. S \subseteq Nat
  OBVIOUS
<1> HIDE DEF R
<1>3. PICK x \in S : \A y \in S : ~(<<y, x>> \in R)
  BY <1>1, <1>2, WFMin
<1>4. \A y \in Nat : y < x => <<y, x>> \in R
  <2>1. x \in Nat
    BY <1>2
  <2> QED BY <2>1 DEF R, OpToRel
<1>5. \A y \in S : x <= y
  <2>1. x \in Nat /\ \A y \in S : y \in Nat
    BY <1>2
  <2>2. \A y \in S : ~(y < x)
    BY <1>3, <1>4, <2>1
  <2> QED BY <2>1, <2>2
<1> QED BY <1>5 DEF Least

\* The contents a torrent prescribes are none of the others.
LEMMA CellsDiffer == \A f \in Files : f \notin {Zero, Junk, Empty, Absent}
  OBVIOUS

\* No two files have one name, beneath any root.
LEMMA NamesDiffer ==
    ASSUME TypeOK, PathsFollowNames
    PROVE  \A f, g \in Files : logical[f] = logical[g] => f = g
  BY DEF TypeOK, PathsFollowNames

LEMMA DestinationsDiffer ==
    ASSUME TypeOK, PathsFollowNames, NEW r \in Roots
    PROVE  /\ Destination(r) \in [Files -> Paths]
           /\ \A f, g \in Files : Destination(r)[f] = Destination(r)[g] => f = g
<1>1. \A f \in Files : Destination(r)[f] = Rooted(r, logical[f]) /\ logical[f] \in Names
  BY DEF Destination, TypeOK
<1>2. Destination(r) \in [Files -> Paths]
  BY <1>1 DEF Destination
<1>3. \A f, g \in Files : Destination(r)[f] = Destination(r)[g] => logical[f] = logical[g]
  BY <1>1
<1> QED BY <1>2, <1>3, NamesDiffer

\* A write into the part file fills the gap before it with zeros, and changes
\* nothing that was stored.
LEMMA PartPutKeeps ==
    ASSUME TypeOK, NEW f \in Files, NEW c \in Contents
    PROVE  /\ PartPut(f, c) \in [Files -> Contents \cup {Absent}]
           /\ PartPut(f, c)[f] = c
           /\ \A k \in Files : k # f /\ part[k] # Absent => PartPut(f, c)[k] = part[k]
  BY DEF PartPut, TypeOK, Contents

\* What a broken transfer leaves is what was there or something else.
LEMMA TornType ==
    ASSUME NEW old \in Contents \cup {Absent}, NEW c, NEW x \in Torn(old, c)
    PROVE  x \in Contents \cup {Absent} /\ (old = c => x = old)
  BY DEF Torn, Contents

LEMMA OpenedType ==
    ASSUME NEW c \in Contents \cup {Absent}
    PROVE  /\ Opened(c) \in Contents /\ (c \in Files => Opened(c) = c)
           /\ Filled(c) \in Contents /\ (c \in Files => Filled(c) = c)
  BY DEF Opened, Filled, Contents

----------------------------------------------------------------------------
(* The shapes of a job. *)

WriteJobs == [op : {"write"}, at : Files, last : Files, first : Files]
PriorityJobs == [op : {"priority"}, at : 1..(N + 1), want : [Files -> BOOLEAN],
                 phase : {"copy", "remove"}]
CheckJobs == [op : {"check"}, at : 1..(N + 1), had : BOOLEAN, blind : BOOLEAN]
DeleteJobs == [op : {"delete"}, at : 1..(N + 1), files : BOOLEAN, error : BOOLEAN]
MoveJobs == [op : {"move"}, to : Roots, copy : SUBSET Files, clean : SUBSET Files,
             kept : SUBSET Files, source : [Files -> Paths], done : BOOLEAN]

LEMMA JobShapes ==
    /\ JobType = {Idle} \cup WriteJobs \cup PriorityJobs \cup CheckJobs \cup DeleteJobs \cup MoveJobs
    /\ Idle.op = "idle"
    /\ \A j \in JobType : /\ j.op = "idle" => j = Idle
                          /\ j.op = "write" => j \in WriteJobs
                          /\ j.op = "priority" => j \in PriorityJobs
                          /\ j.op = "check" => j \in CheckJobs
                          /\ j.op = "delete" => j \in DeleteJobs
                          /\ j.op = "move" => j \in MoveJobs
<1>1. JobType = {Idle} \cup WriteJobs \cup PriorityJobs \cup CheckJobs \cup DeleteJobs \cup MoveJobs
  BY DEF JobType, WriteJobs, PriorityJobs, CheckJobs, DeleteJobs, MoveJobs
<1>2. Idle.op = "idle"
  BY DEF Idle
<1>3. /\ \A j \in WriteJobs : j.op = "write"
      /\ \A j \in PriorityJobs : j.op = "priority"
      /\ \A j \in CheckJobs : j.op = "check"
      /\ \A j \in DeleteJobs : j.op = "delete"
      /\ \A j \in MoveJobs : j.op = "move"
  BY DEF WriteJobs, PriorityJobs, CheckJobs, DeleteJobs, MoveJobs
<1> HIDE DEF Files
<1> QED BY <1>1, <1>2, <1>3
----------------------------------------------------------------------------
(* Types. *)

DiskOK ==
    /\ fs \in [Paths -> Contents \cup {Absent}]
    /\ hasPart \in BOOLEAN
    /\ part \in [Files -> Contents \cup {Absent}]
    /\ ~hasPart => \A f \in Files : part[f] = Absent

LEMMA TypeParts ==
    TypeOK <=> /\ DiskOK
               /\ root \in Roots
               /\ logical \in [Files -> Names] /\ paths \in [Files -> Paths]
               /\ skip \in [Files -> BOOLEAN]
               /\ have \subseteq Real
               /\ job \in JobType
  BY DEF TypeOK, DiskOK

\* A document that is given some contents, and a part file that is written to.
LEMMA DiskWrites ==
    ASSUME DiskOK
    PROVE  /\ \A p \in Paths, c \in Contents \cup {Absent} :
                 [fs EXCEPT ![p] = c] \in [Paths -> Contents \cup {Absent}]
           /\ \A f \in Files, c \in Contents :
                 PartPut(f, c) \in [Files -> Contents \cup {Absent}]
           /\ [f \in Files |-> Absent] \in [Files -> Contents \cup {Absent}]
           /\ \A f \in Files : f \in Contents
           /\ {Zero, Junk, Empty} \subseteq Contents
  BY DEF DiskOK, PartPut, Contents

\* The steps of a job keep it in its shape.
LEMMA JobSteps ==
    /\ \A j \in WriteJobs : \A k \in Files : [j EXCEPT !.at = k] \in WriteJobs
    /\ \A j \in PriorityJobs :
          /\ [j EXCEPT !.phase = "remove"] \in PriorityJobs
          /\ j.at \in Files => [j EXCEPT !.at = @ + 1, !.phase = "copy"] \in PriorityJobs
    /\ \A j \in CheckJobs : j.at \in Files =>
          /\ [j EXCEPT !.at = @ + 1] \in CheckJobs
          /\ \A h, b \in BOOLEAN : [j EXCEPT !.at = @ + 1, !.had = h, !.blind = b] \in CheckJobs
    /\ \A j \in DeleteJobs : j.at \in Files =>
          /\ [j EXCEPT !.at = @ + 1] \in DeleteJobs
          /\ [j EXCEPT !.at = @ + 1, !.error = TRUE] \in DeleteJobs
    /\ \A j \in MoveJobs :
          /\ \A f \in Files : [j EXCEPT !.copy = @ \ {f}] \in MoveJobs
          /\ \A f \in Files : [j EXCEPT !.clean = @ \ {f}] \in MoveJobs
          /\ [j EXCEPT !.done = TRUE] \in MoveJobs
<1>1. \A j \in WriteJobs : \A k \in Files : [j EXCEPT !.at = k] \in WriteJobs
  BY DEF WriteJobs
<1>n. \A k \in Files : k + 1 \in 1..(N + 1)
  OBVIOUS
<1>2. ASSUME NEW j \in PriorityJobs
      PROVE  /\ [j EXCEPT !.phase = "remove"] \in PriorityJobs
             /\ j.at \in Files => [j EXCEPT !.at = @ + 1, !.phase = "copy"] \in PriorityJobs
  <2>1. \A k \in 1..(N + 1) : [j EXCEPT !.at = k] \in PriorityJobs
    BY DEF PriorityJobs
  <2>2. \A i \in PriorityJobs : /\ [i EXCEPT !.phase = "copy"] \in PriorityJobs
                                /\ [i EXCEPT !.phase = "remove"] \in PriorityJobs
    BY DEF PriorityJobs
  <2> QED BY <1>n, <2>1, <2>2
<1>3. ASSUME NEW j \in CheckJobs, j.at \in Files
      PROVE  /\ [j EXCEPT !.at = @ + 1] \in CheckJobs
             /\ \A h, b \in BOOLEAN : [j EXCEPT !.at = @ + 1, !.had = h, !.blind = b] \in CheckJobs
  <2>1. \A k \in 1..(N + 1) : [j EXCEPT !.at = k] \in CheckJobs
    BY DEF CheckJobs
  <2>2. \A i \in CheckJobs, b \in BOOLEAN : /\ [i EXCEPT !.had = b] \in CheckJobs
                                           /\ [i EXCEPT !.blind = b] \in CheckJobs
    BY DEF CheckJobs
  <2>3. [j EXCEPT !.at = @ + 1] \in CheckJobs
    BY <1>n, <1>3, <2>1
  <2>4. \A h \in BOOLEAN : [j EXCEPT !.at = @ + 1, !.had = h] \in CheckJobs
    BY <2>2, <2>3, Zenon
  <2> QED BY <2>2, <2>3, <2>4, Zenon
<1>4. ASSUME NEW j \in DeleteJobs, j.at \in Files
      PROVE  /\ [j EXCEPT !.at = @ + 1] \in DeleteJobs
             /\ [j EXCEPT !.at = @ + 1, !.error = TRUE] \in DeleteJobs
  <2>1. \A k \in 1..(N + 1) : [j EXCEPT !.at = k] \in DeleteJobs
    BY DEF DeleteJobs
  <2>2. \A i \in DeleteJobs : [i EXCEPT !.error = TRUE] \in DeleteJobs
    BY DEF DeleteJobs
  <2>3. [j EXCEPT !.at = @ + 1] \in DeleteJobs
    BY <1>n, <1>4, <2>1
  <2> QED BY <2>2, <2>3, Zenon
<1>5. \A j \in MoveJobs :
          /\ \A f \in Files : [j EXCEPT !.copy = @ \ {f}] \in MoveJobs
          /\ \A f \in Files : [j EXCEPT !.clean = @ \ {f}] \in MoveJobs
          /\ [j EXCEPT !.done = TRUE] \in MoveJobs
  BY DEF MoveJobs
<1> QED BY <1>1, <1>2, <1>3, <1>4, <1>5

\* Requests leave the documents alone, but for a rename.
LEMMA RequestTypes ==
    ASSUME TypeOK, Requests
    PROVE  TypeOK'
<1> USE DEF diskVars, nameVars, Start
<1>1. CASE \E first, last \in Files : first <= last /\ Read(first, last)
  BY <1>1 DEF Read, TypeOK
<1>2. CASE \E first, last \in Files : first <= last /\ StartWrite(first, last)
  <2>1. PICK first, last \in Files : StartWrite(first, last)
    BY <1>2
  <2>2. job' \in WriteJobs
    BY <2>1 DEF StartWrite, WriteJobs
  <2> QED BY <2>1, <2>2, JobShapes DEF StartWrite, TypeOK
<1>3. CASE \E f \in Real, n \in Names : RenameFile(f, n)
  <2>1. PICK f \in Real, n \in Names : RenameFile(f, n)
    BY <1>3
  <2>2. f \in Files /\ Rooted(root, n) \in Paths /\ paths[f] \in Paths
    BY DEF TypeOK
  <2>3. fs' \in [Paths -> Contents \cup {Absent}]
    BY <2>1, <2>2 DEF RenameFile, TypeOK
  <2>4. root' = root /\ logical' \in [Files -> Names] /\ paths' \in [Files -> Paths]
    <3>1. CASE Renamed(f, n)
      BY <2>2, <3>1 DEF Renamed, TypeOK
    <3>2. CASE UNCHANGED nameVars
      BY <3>2 DEF TypeOK
    <3> QED BY <2>1, <3>1, <3>2 DEF RenameFile
  <2> QED BY <2>1, <2>3, <2>4 DEF RenameFile, TypeOK
<1>4. CASE \E want \in [Files -> BOOLEAN] : StartPriority(want)
  <2>1. PICK want \in [Files -> BOOLEAN] : StartPriority(want)
    BY <1>4
  <2>2. job' \in PriorityJobs
    BY <2>1 DEF StartPriority, PriorityJobs
  <2> QED BY <2>1, <2>2, JobShapes DEF StartPriority, TypeOK
<1>5. CASE \E r \in Roots, flags \in Moves : MoveRejected(r, flags)
  BY <1>5 DEF MoveRejected, TypeOK
<1>6. CASE \E r \in Roots, flags \in Moves : MoveReset(r, flags)
  <2>1. PICK r \in Roots, flags \in Moves : MoveReset(r, flags)
    BY <1>6
  <2>2. Destination(r) \in [Files -> Paths]
    BY DEF Destination, TypeOK
  <2> QED BY <2>1, <2>2 DEF MoveReset, SetSaveRoot, TypeOK
<1>7. CASE \E r \in Roots, flags \in Moves : StartMove(r, flags)
  <2>1. PICK r \in Roots, flags \in Moves : StartMove(r, flags)
    BY <1>7
  <2>2. job' \in MoveJobs
    BY <2>1 DEF StartMove, MoveJobs, TypeOK
  <2> QED BY <2>1, <2>2, JobShapes DEF StartMove, TypeOK
<1>8. CASE \E files \in BOOLEAN : StartDelete(files)
  <2>1. PICK files \in BOOLEAN : StartDelete(files)
    BY <1>8
  <2>2. job' \in DeleteJobs
    BY <2>1 DEF StartDelete, DeleteJobs
  <2> QED BY <2>1, <2>2, JobShapes DEF StartDelete, TypeOK
<1>9. CASE StartCheck
  <2>1. job' \in CheckJobs
    BY <1>9 DEF StartCheck, CheckJobs
  <2> QED BY <1>9, <2>1, JobShapes DEF StartCheck, TypeOK
<1> QED
  BY <1>1, <1>2, <1>3, <1>4, <1>5, <1>6, <1>7, <1>8, <1>9 DEF Requests

LEMMA WriteTypes ==
    ASSUME TypeOK, WriteFacts, WriteSlice \/ WriteSliceFails
    PROVE  TypeOK'
<1> USE DEF diskVars, nameVars, End
<1>1. job \in WriteJobs /\ job.at \in Files /\ job.last \in Files
  <2>1. job \in WriteJobs
    BY JobShapes DEF WriteSlice, WriteSliceFails, TypeOK
  <2> QED BY <2>1 DEF WriteJobs
<1>2. DiskOK /\ DiskOK'
  <2>1. DiskOK /\ paths[job.at] \in Paths
    BY <1>1 DEF DiskOK, TypeOK
  <2>2. CASE WriteSlice
    <3>1. CASE UNCHANGED diskVars
      BY <2>1, <3>1 DEF DiskOK
    <3>2. CASE hasPart' = TRUE /\ part' = PartPut(job.at, job.at) /\ UNCHANGED fs
      BY <1>1, <2>1, <3>2, DiskWrites DEF DiskOK
    <3>3. CASE fs' = [fs EXCEPT ![paths[job.at]] = job.at] /\ UNCHANGED <<hasPart, part>>
      BY <1>1, <2>1, <3>3, DiskWrites DEF DiskOK
    <3> QED BY <2>2, <3>1, <3>2, <3>3 DEF WriteSlice
  <2>3. CASE WriteSliceFails
    <3>1. CASE UNCHANGED diskVars
      BY <2>1, <3>1 DEF DiskOK
    <3>2. CASE /\ hasPart' = TRUE /\ UNCHANGED fs
               /\ part' \in {part} \cup {PartPut(job.at, c) : c \in Torn(part[job.at], job.at) \ {Absent}}
      <4>1. \A c \in Torn(part[job.at], job.at) \ {Absent} : c \in Contents
        BY <1>1, <2>1 DEF Torn, DiskOK, Contents
      <4> QED BY <1>1, <2>1, <3>2, <4>1, DiskWrites DEF DiskOK
    <3>3. CASE /\ \E c \in Torn(Opened(fs[paths[job.at]]), job.at) :
                      fs' = [fs EXCEPT ![paths[job.at]] = c]
               /\ UNCHANGED <<hasPart, part>>
      <4>1. \A c \in Torn(Opened(fs[paths[job.at]]), job.at) : c \in Contents \cup {Absent}
        BY <1>1, <2>1 DEF Torn, Opened, DiskOK, Contents
      <4> QED BY <1>1, <2>1, <3>3, <4>1, DiskWrites DEF DiskOK
    <3> QED BY <2>3, <3>1, <3>2, <3>3 DEF WriteSliceFails
  <2> QED BY <2>1, <2>2, <2>3
<1>3. job' \in JobType /\ have' \subseteq Real
  <2>1. CASE WriteSlice
    <3>1. CASE job.at = job.last
      BY <2>1, <3>1, JobShapes DEF WriteSlice, NextSlice, Slices, TypeOK
    <3>2. CASE job.at # job.last
      <4>1. job.at + 1 \in Files
        BY <1>1, <2>1, <3>2 DEF WriteSlice, WriteFacts
      <4>2. job' = [job EXCEPT !.at = job.at + 1] /\ UNCHANGED have
        BY <2>1, <3>2 DEF WriteSlice, NextSlice
      <4>3. job' \in WriteJobs
        BY <1>1, <4>1, <4>2, JobSteps
      <4> QED BY <4>2, <4>3, JobShapes DEF TypeOK
    <3> QED BY <3>1, <3>2
  <2>2. CASE WriteSliceFails
    BY <2>2, JobShapes DEF WriteSliceFails, TypeOK
  <2> QED BY <2>1, <2>2
<1>4. UNCHANGED <<nameVars, skip>>
  BY DEF WriteSlice, WriteSliceFails
<1> QED BY <1>2, <1>3, <1>4 DEF TypeOK, DiskOK

PriorityStep ==
    \/ PriorityKeep \/ ToPartCopy \/ ToPartRemove \/ ToPartFails \/ RemoveFails
    \/ FromPart \/ FromPartFails \/ PriorityEnd

LEMMA PriorityTypes ==
    ASSUME TypeOK, PriorityStep
    PROVE  TypeOK'
<1> USE DEF diskVars, nameVars, End, AtFile
<1>1. /\ job \in PriorityJobs
      /\ UNCHANGED <<nameVars, have>>
  BY JobShapes DEF PriorityStep, PriorityKeep, ToPartCopy, ToPartRemove, ToPartFails,
                   RemoveFails, FromPart, FromPartFails, PriorityEnd, TypeOK
<1>2. DiskOK /\ \A f \in Files : paths[f] \in Paths
  BY DEF DiskOK, TypeOK
<1>3. ASSUME job.at \in Files, Commit
      PROVE  job' \in JobType /\ skip' \in [Files -> BOOLEAN]
  <2>1. job' \in PriorityJobs
    BY <1>1, <1>3, JobSteps DEF Commit
  <2>2. job.want[job.at] \in BOOLEAN
    BY <1>1, <1>3 DEF PriorityJobs
  <2> QED BY <1>3, <2>1, <2>2, JobShapes DEF Commit, TypeOK
<1>4. CASE PriorityKeep
  BY <1>1, <1>3, <1>4 DEF PriorityKeep, TypeOK
<1>5. CASE ToPartCopy
  <2> DEFINE c == fs[paths[job.at]]
             x == IF c = Absent THEN Zero ELSE c
  <2>1. job.at \in Files /\ hasPart' = TRUE /\ part' = PartPut(job.at, x) /\ UNCHANGED <<fs, skip>>
    BY <1>5 DEF ToPartCopy
  <2>2. x \in Contents
    BY <1>2, <2>1 DEF DiskOK, Contents
  <2> HIDE DEF x
  <2>3. DiskOK'
    BY <1>2, <2>1, <2>2, DiskWrites DEF DiskOK
  <2>4. job' \in PriorityJobs
    BY <1>1, <1>5, JobSteps DEF ToPartCopy
  <2> QED BY <1>1, <2>1, <2>3, <2>4, JobShapes DEF TypeOK, DiskOK
<1>6. CASE ToPartRemove
  <2>1. job.at \in Files /\ Commit /\ fs' = [fs EXCEPT ![paths[job.at]] = Absent]
        /\ UNCHANGED <<hasPart, part>>
    BY <1>6 DEF ToPartRemove
  <2>2. DiskOK'
    BY <1>2, <2>1, DiskWrites DEF DiskOK
  <2> QED BY <1>1, <1>3, <2>1, <2>2 DEF TypeOK, DiskOK
<1>7. CASE ToPartFails
  <2> DEFINE c == fs[paths[job.at]]
  <2>1. job.at \in Files /\ job' = Idle /\ UNCHANGED <<fs, skip>>
    BY <1>7 DEF ToPartFails
  <2>2. \A x \in Torn(part[job.at], c) \ {Absent} : x \in Contents
    BY <1>2, <2>1 DEF Torn, DiskOK, Contents
  <2>3. DiskOK'
    <3>1. CASE UNCHANGED <<hasPart, part>>
      BY <1>2, <2>1, <3>1 DEF DiskOK
    <3>2. CASE /\ hasPart' = TRUE
               /\ part' \in {part} \cup {PartPut(job.at, x) : x \in Torn(part[job.at], c) \ {Absent}}
      BY <1>2, <2>1, <2>2, <3>2, DiskWrites DEF DiskOK
    <3> QED BY <1>7, <3>1, <3>2 DEF ToPartFails
  <2> QED BY <1>1, <2>1, <2>3, JobShapes DEF TypeOK, DiskOK
<1>8. CASE RemoveFails
  BY <1>1, <1>8, JobShapes DEF RemoveFails, TypeOK
<1>9. CASE FromPart
  <2> DEFINE x == IF hasPart THEN part[job.at] ELSE Zero
  <2>1. job.at \in Files /\ Commit /\ fs' = [fs EXCEPT ![paths[job.at]] = x]
        /\ UNCHANGED <<hasPart, part>>
    BY <1>9 DEF FromPart
  <2>2. x \in Contents \cup {Absent}
    BY <1>2, <2>1 DEF DiskOK, Contents
  <2> HIDE DEF x
  <2>3. DiskOK'
    BY <1>2, <2>1, <2>2, DiskWrites DEF DiskOK
  <2> QED BY <1>1, <1>3, <2>1, <2>3 DEF TypeOK, DiskOK
<1>10. CASE FromPartFails
  <2> DEFINE old == fs[paths[job.at]]
             x == IF hasPart THEN part[job.at] ELSE Zero
  <2>1. job.at \in Files /\ job' = Idle /\ UNCHANGED <<hasPart, part, skip>>
    BY <1>10 DEF FromPartFails
  <2>2. PICK c \in Torn(Filled(old), x) \cup {old, Opened(old)} :
          fs' = [fs EXCEPT ![paths[job.at]] = c]
    BY <1>10 DEF FromPartFails
  <2>3. c \in Contents \cup {Absent}
    BY <1>2, <2>1, <2>2 DEF DiskOK, Contents, Torn, Filled, Opened
  <2>4. DiskOK'
    BY <1>2, <2>1, <2>2, <2>3, DiskWrites DEF DiskOK
  <2> QED BY <1>1, <2>1, <2>4, JobShapes DEF TypeOK, DiskOK
<1>11. CASE PriorityEnd
  <2>1. job' = Idle /\ UNCHANGED <<fs, skip>>
    BY <1>11 DEF PriorityEnd
  <2>2. DiskOK'
    BY <1>2, <1>11, DiskWrites DEF PriorityEnd, DiskOK
  <2> QED BY <1>1, <2>1, <2>2, JobShapes DEF TypeOK, DiskOK
<1> QED
  BY <1>4, <1>5, <1>6, <1>7, <1>8, <1>9, <1>10, <1>11 DEF PriorityStep

MoveStep == MoveCopy \/ MoveCopyFails \/ MoveCommit \/ MoveClean \/ MoveEnd

LEMMA MoveTypes ==
    ASSUME TypeOK, MoveStep
    PROVE  TypeOK'
<1> USE DEF diskVars, nameVars, End
<1>1. job \in MoveJobs /\ UNCHANGED skip
  BY JobShapes DEF MoveStep, MoveCopy, MoveCopyFails, MoveCommit, MoveClean, MoveEnd, TypeOK
<1>2. /\ job.to \in Roots /\ job.copy \subseteq Files /\ job.clean \subseteq Files
      /\ job.source \in [Files -> Paths]
  BY <1>1 DEF MoveJobs
<1>3. Destination(job.to) \in [Files -> Paths]
  BY <1>2 DEF Destination, TypeOK
<1>4. DiskOK
  BY DEF DiskOK, TypeOK
<1>5. CASE MoveCopy
  <2>1. PICK f \in Files : f = Least(job.copy)
    BY <1>2, <1>5, LeastIn DEF MoveCopy
  <2>2. /\ fs' = [fs EXCEPT ![Destination(job.to)[f]] = fs[paths[f]]]
        /\ job' = [job EXCEPT !.copy = @ \ {f}]
        /\ UNCHANGED <<hasPart, part, nameVars, have>>
    BY <1>5, <2>1 DEF MoveCopy
  <2>3. fs[paths[f]] \in Contents \cup {Absent} /\ Destination(job.to)[f] \in Paths
    BY <1>3, <2>1 DEF TypeOK
  <2>4. DiskOK'
    BY <1>4, <2>2, <2>3, DiskWrites DEF DiskOK
  <2>5. job' \in JobType
    BY <1>1, <2>1, <2>2, JobSteps, JobShapes
  <2> QED BY <1>1, <2>2, <2>4, <2>5 DEF TypeOK, DiskOK
<1>6. CASE MoveCopyFails
  <2>1. PICK f \in Files : f = Least(job.copy)
    BY <1>2, <1>6, LeastIn DEF MoveCopyFails
  <2>2. PICK d \in Paths : d = Destination(job.to)[f]
    BY <1>3
  <2>3. PICK c \in {fs[d], Opened(fs[d]), Filled(fs[d]), Junk} : fs' = [fs EXCEPT ![d] = c]
    BY <1>6, <2>1, <2>2 DEF MoveCopyFails
  <2>4. c \in Contents \cup {Absent}
    BY <1>4, <2>2, <2>3 DEF DiskOK, Opened, Filled, Contents
  <2>5. UNCHANGED <<hasPart, part, nameVars, have>> /\ job' = Idle
    BY <1>6 DEF MoveCopyFails
  <2>6. DiskOK'
    BY <1>4, <2>3, <2>4, <2>5, DiskWrites DEF DiskOK
  <2> QED BY <1>1, <2>5, <2>6, JobShapes DEF TypeOK, DiskOK
<1>7. CASE MoveCommit
  <2>1. job' \in JobType
    BY <1>1, <1>7, JobSteps, JobShapes DEF MoveCommit
  <2> QED BY <1>2, <1>3, <1>7, <2>1 DEF MoveCommit, SetSaveRoot, TypeOK
<1>8. CASE MoveClean
  <2>1. PICK f \in Files : f = Least(job.clean)
    BY <1>2, <1>8, LeastIn DEF MoveClean
  <2>2. job.source[f] \in Paths
    BY <1>2
  <2>3. /\ fs' = fs \/ fs' = [fs EXCEPT ![job.source[f]] = Absent]
        /\ job' = [job EXCEPT !.clean = @ \ {f}]
        /\ UNCHANGED <<hasPart, part, nameVars, have>>
    BY <1>8, <2>1 DEF MoveClean
  <2>4. DiskOK'
    BY <1>4, <2>2, <2>3, DiskWrites DEF DiskOK
  <2>5. job' \in JobType
    BY <1>1, <2>1, <2>3, JobSteps, JobShapes
  <2> QED BY <1>1, <2>3, <2>4, <2>5 DEF TypeOK, DiskOK
<1>9. CASE MoveEnd
  BY <1>1, <1>9, JobShapes DEF MoveEnd, TypeOK
<1> QED BY <1>5, <1>6, <1>7, <1>8, <1>9 DEF MoveStep

LEMMA DeleteTypes ==
    ASSUME TypeOK, DeleteOne \/ DeletePart
    PROVE  TypeOK'
<1> USE DEF diskVars, nameVars, End, AtFile
<1>1. job \in DeleteJobs /\ UNCHANGED <<nameVars, skip, have>>
  BY JobShapes DEF DeleteOne, DeletePart, TypeOK
<1>2. DiskOK
  BY DEF DiskOK, TypeOK
<1>3. DiskOK'
  <2>1. CASE DeleteOne
    <3>1. job.at \in Files /\ paths[job.at] \in Paths
      BY <2>1 DEF DeleteOne, TypeOK
    <3> QED BY <1>2, <2>1, <3>1, DiskWrites DEF DeleteOne, DiskOK
  <2>2. CASE DeletePart
    BY <1>2, <2>2, DiskWrites DEF DeletePart, DiskOK
  <2> QED BY <2>1, <2>2
<1>4. job' \in JobType
  BY ZenonT(60), <1>1, JobSteps, JobShapes DEF DeleteOne, DeletePart
<1> QED BY <1>1, <1>3, <1>4 DEF TypeOK, DiskOK

LEMMA CheckTypes ==
    ASSUME TypeOK, Initialize \/ CheckEnd
    PROVE  TypeOK'
<1> USE DEF diskVars, nameVars, End, AtFile
<1>1. job \in CheckJobs /\ UNCHANGED <<hasPart, part, nameVars, skip, have>>
  BY JobShapes DEF Initialize, CheckEnd, TypeOK
<1>2. DiskOK
  BY DEF DiskOK, TypeOK
<1>3. CASE CheckEnd
  BY <1>3, JobShapes DEF CheckEnd, TypeOK
<1>4. CASE Initialize
  <2>1. job.at \in Files /\ paths[job.at] \in Paths
    BY <1>4 DEF Initialize, TypeOK
  <2>2. PICK p \in Paths : p = paths[job.at]
    BY <2>1
  <2>3. fs[p] \in Contents \cup {Absent}
    BY <2>2 DEF TypeOK
  <2>4. DiskOK'
    BY SMTT(30), <1>1, <1>2, <1>4, <2>1, <2>2, <2>3, OpenedType, DiskWrites DEF Initialize, DiskOK
  <2>5. job' \in JobType
    <3>1. CASE job' = [job EXCEPT !.at = @ + 1] \/ job' = Idle
      BY <1>1, <2>1, <3>1, JobSteps, JobShapes
    <3>2. CASE \E blind \in {FALSE, Faults} :
                 job' = [job EXCEPT !.at = @ + 1, !.had = HadFile(Exists(p) /\ ~blind),
                                    !.blind = @ \/ blind]
      <4>1. PICK blind \in BOOLEAN :
              job' = [job EXCEPT !.at = @ + 1, !.had = HadFile(Exists(p) /\ ~blind),
                                 !.blind = @ \/ blind]
        BY <3>2
      <4>2. job.had \in BOOLEAN /\ job.blind \in BOOLEAN
        BY <1>1 DEF CheckJobs
      <4>3. HadFile(Exists(p) /\ ~blind) \in BOOLEAN /\ (job.blind \/ blind) \in BOOLEAN
        BY <4>2 DEF HadFile
      <4>4. job' \in CheckJobs
        BY <1>1, <2>1, <4>1, <4>3, JobSteps
      <4> QED BY <4>4, JobShapes
    <3> QED BY <1>4, <2>2, <3>1, <3>2 DEF Initialize
  <2> QED BY <1>1, <2>4, <2>5 DEF TypeOK, DiskOK
<1> QED BY <1>3, <1>4

\* Every step keeps the types; write_block()'s loop stays within its block.
LEMMA TypeStep ==
    ASSUME TypeOK, WriteFacts, Next
    PROVE  TypeOK'
  BY RequestTypes, WriteTypes, PriorityTypes, MoveTypes, DeleteTypes, CheckTypes
     DEF Next, Work, PriorityStep, MoveStep

----------------------------------------------------------------------------
(* Names. *)

\* Only a rename, a reset of the save path and the commit of a move change
\* names, and none of them gives two files one path.
LEMMA NamesStep ==
    ASSUME TypeOK, PathsFollowNames, Next
    PROVE  PathsFollowNames'
<1> USE DEF nameVars, diskVars
<1>1. ASSUME NEW f \in Real, NEW n \in Names, \A g \in Files \ {f} : logical[g] # n, Renamed(f, n)
      PROVE  PathsFollowNames'
  <2>1. /\ logical' = [logical EXCEPT ![f] = n] /\ root' = root /\ root \in Roots
        /\ paths' = [paths EXCEPT ![f] = Rooted(root, n)]
        /\ logical \in [Files -> Names] /\ paths \in [Files -> Paths]
    BY <1>1 DEF Renamed, TypeOK
  <2>2. \A g \in Files : paths'[g] = Rooted(root, logical'[g]) /\ logical'[g] \in Names
    BY <2>1 DEF PathsFollowNames
  <2>3. \A g, h \in Files : logical'[g] = logical'[h] => g = h
    BY <1>1, <2>1, NamesDiffer
  <2>4. paths' = [g \in Files |-> Rooted(root', logical'[g])]
    BY <2>1, <2>2
  <2>5. \A g, h \in Files : paths'[g] = paths'[h] => logical'[g] = logical'[h]
    BY <2>1, <2>2
  <2> QED BY <2>3, <2>4, <2>5 DEF PathsFollowNames
<1>2. ASSUME NEW r \in Roots, SetSaveRoot(r)
      PROVE  PathsFollowNames'
  BY <1>2, DestinationsDiffer DEF SetSaveRoot, Destination, PathsFollowNames
<1>3. CASE UNCHANGED nameVars
  BY <1>3 DEF PathsFollowNames
<1>4. CASE Requests
  BY <1>1, <1>2, <1>3, <1>4 DEF Requests, Read, StartWrite, RenameFile, StartPriority,
       MoveRejected, MoveReset, StartMove, StartDelete, StartCheck
<1>5. CASE Work
  <2>1. CASE MoveCommit
    <3>1. job.to \in Roots
      BY <2>1, JobShapes DEF MoveCommit, MoveJobs, TypeOK
    <3> QED BY <1>2, <2>1, <3>1 DEF MoveCommit
  <2> QED BY <1>3, <1>5, <2>1 DEF Work, WriteSlice, WriteSliceFails, PriorityKeep, ToPartCopy,
       ToPartRemove, ToPartFails, RemoveFails, FromPart, FromPartFails, PriorityEnd,
       MoveCopy, MoveCopyFails, MoveClean, MoveEnd, DeleteOne, DeletePart, Initialize, CheckEnd
<1> QED BY <1>4, <1>5 DEF Next

----------------------------------------------------------------------------
(* What a step leaves as it was. *)

\* A file's path is no other file's: a change of its document leaves the others.
LEMMA DocumentsApart ==
    ASSUME TypeOK, PathsFollowNames, UNCHANGED paths,
           NEW f \in Files, NEW c, fs' = [fs EXCEPT ![paths[f]] = c]
    PROVE  /\ fs'[paths'[f]] = c
           /\ \A g \in Files : g # f => fs'[paths'[g]] = fs[paths[g]]
  BY DEF TypeOK, PathsFollowNames

\* Neither does a change of its region of the part file, or the filling of the
\* gap before it, disturb what the others have there.
LEMMA RegionsApart ==
    ASSUME TypeOK, NEW f \in Files, NEW c \in Contents, part' = PartPut(f, c)
    PROVE  /\ part'[f] = c
           /\ \A g \in Files : g # f /\ part[g] = g => part'[g] = g
<1>1. \A g \in Files : part[g] = g => part[g] # Absent
  BY CellsDiffer
<1> HIDE DEF Files
<1> QED BY <1>1, PartPutKeeps

\* Data of a file stays when neither its document nor its region changes.
StoredStays(f) == Stored(f) = f => Stored(f)' = f

LEMMA DocumentKept ==
    ASSUME TypeOK, PathsFollowNames, UNCHANGED <<part, paths, skip>>, NEW f \in Files, NEW c,
           fs' = [fs EXCEPT ![paths[f]] = c], skip[f] \/ (fs[paths[f]] = f => c = f)
    PROVE  \A g \in Files : StoredStays(g)
  BY ZenonT(60), DocumentsApart DEF StoredStays, Stored

LEMMA RegionKept ==
    ASSUME TypeOK, UNCHANGED <<fs, paths, skip>>, NEW f \in Files, NEW c \in Contents,
           part' = PartPut(f, c), ~skip[f] \/ (part[f] = f => c = f)
    PROVE  \A g \in Files : StoredStays(g)
  BY RegionsApart DEF StoredStays, Stored

LEMMA AllKept ==
    ASSUME UNCHANGED <<fs, part, paths, skip>>
    PROVE  \A g \in Files : StoredStays(g)
  BY DEF StoredStays, Stored

LEMMA IntactStays ==
    ASSUME TypeOK, AuthoritativeIntact, have' \subseteq have, \A g \in Files : StoredStays(g)
    PROVE  AuthoritativeIntact'
  BY DEF AuthoritativeIntact, StoredStays, TypeOK

\* A job that ended, one that goes on, and an answer none of the properties is about.
LEMMA EndFacts ==
    ASSUME job' = Idle
    PROVE  JobFacts' /\ AnswersLast'
  BY JobShapes DEF JobFacts, WriteFacts, PriorityFacts, MoveFacts, DeleteFacts, CheckFacts, AnswersLast

LEMMA Silent ==
    ASSUME reply' = NoReply
    PROVE  Answers'
  BY DEF Answers, AnswersLast, ReadsBack, DeletionIsHonest, FreshMeansFresh, NoReply

LEMMA OtherAnswer ==
    ASSUME job' = Idle, reply'.op \notin {"read", "delete", "check"}
    PROVE  Answers'
  BY EndFacts DEF Answers, ReadsBack, DeletionIsHonest, FreshMeansFresh

LEMMA SaidLater ==
    ASSUME AnswersLast, job # Idle, UNCHANGED reply
    PROVE  Answers'
  BY Silent DEF AnswersLast

LEMMA FailedAnswer ==
    ASSUME NEW op \in {"write", "priority", "move", "check"}, End(Failed(op))
    PROVE  JobFacts' /\ Answers'
  BY EndFacts DEF End, Failed, Answers, ReadsBack, DeletionIsHonest, FreshMeansFresh

LEMMA DoneAnswer ==
    ASSUME NEW op \in {"write", "priority", "move"}, End(Done(op))
    PROVE  JobFacts' /\ Answers'
  BY EndFacts, OtherAnswer DEF End, Done

----------------------------------------------------------------------------
(* Data and answers, job by job. *)

Rest == AuthoritativeIntact /\ JobFacts /\ Answers

\* write_block(): a slice lands where reads will look for it.
LEMMA WriteRest ==
    ASSUME IndInv, WriteSlice \/ WriteSliceFails
    PROVE  Rest'
<1> USE DEF nameVars, diskVars
<1>1. /\ TypeOK /\ PathsFollowNames /\ AuthoritativeIntact /\ WriteFacts /\ AnswersLast
      /\ job.op = "write" /\ UNCHANGED <<paths, skip>>
  BY DEF IndInv, JobFacts, Answers, WriteSlice, WriteSliceFails
<1>2. job \in WriteJobs /\ job.at \in Files /\ job.first \in Files /\ job.last \in Files
  <2>1. job \in WriteJobs
    BY <1>1, JobShapes DEF TypeOK
  <2> QED BY <2>1 DEF WriteJobs
<1>3. /\ job.first <= job.at /\ job.at <= job.last
      /\ \A g \in Real : job.first <= g /\ g < job.at => Stored(g) = g
  BY <1>1 DEF WriteFacts
<1>4. PICK f \in Files : f = job.at
  BY <1>2
<1>5. CASE WriteSlice
  <2>1. (\A g \in Files : StoredStays(g)) /\ (f \in Real => Stored(f)' = f)
    <3>1. CASE f \in Pads /\ UNCHANGED diskVars
      BY <1>1, <3>1, AllKept
    <3>2. CASE skip[f] /\ part' = PartPut(f, f) /\ UNCHANGED fs
      <4>1. f \in Contents
        BY DEF Contents
      <4> QED BY <1>1, <3>2, <4>1, RegionKept, RegionsApart DEF Stored
    <3>3. CASE ~skip[f] /\ fs' = [fs EXCEPT ![paths[f]] = f] /\ UNCHANGED part
      BY <1>1, <3>3, DocumentKept, DocumentsApart DEF Stored
    <3> QED BY <1>4, <1>5, <3>1, <3>2, <3>3 DEF WriteSlice
  <2>2. \A g \in Real : job.first <= g /\ g <= f => Stored(g)' = g
    <3>1. \A g \in Real : job.first <= g /\ g < f => Stored(g)' = g
      BY <1>3, <1>4, <2>1 DEF StoredStays
    <3> QED BY <1>2, <2>1, <3>1
  <2>3. CASE job.at = job.last
    <3>1. End(Done("write")) /\ have' = have \cup Slices(job.first, job.last)
      BY <1>5, <2>3 DEF WriteSlice, NextSlice
    <3>2. \A g \in have : g \in Files /\ Stored(g)' = g
      BY <1>1, <2>1 DEF AuthoritativeIntact, StoredStays, TypeOK
    <3>3. \A g \in Slices(job.first, job.last) : Stored(g)' = g
      BY <1>2, <1>4, <2>2, <2>3 DEF Slices
    <3>4. AuthoritativeIntact'
      BY <3>1, <3>2, <3>3 DEF AuthoritativeIntact
    <3> QED BY <3>1, <3>4, DoneAnswer DEF Rest
  <2>4. CASE job.at # job.last
    <3>1. job' = [job EXCEPT !.at = @ + 1] /\ UNCHANGED <<have, reply>>
      BY <1>5, <2>4 DEF WriteSlice, NextSlice
    <3>2. /\ job'.op = "write" /\ job'.at = f + 1
          /\ job'.first = job.first /\ job'.last = job.last
      BY <1>2, <1>4, <3>1 DEF WriteJobs
    <3>3. job'.first <= job'.at /\ job'.at <= job'.last
      BY <1>2, <1>3, <1>4, <2>4, <3>2
    <3>4. \A g \in Real : job'.first <= g /\ g < job'.at => Stored(g)' = g
      BY <1>2, <1>4, <2>2, <3>2
    <3>5. JobFacts'
      BY <3>2, <3>3, <3>4 DEF JobFacts, WriteFacts, PriorityFacts, MoveFacts, DeleteFacts, CheckFacts
    <3>6. Answers'
      BY <1>1, <3>1, JobShapes, SaidLater
    <3> QED BY <1>1, <2>1, <3>1, <3>5, <3>6, IntactStays DEF Rest
  <2> QED BY <2>3, <2>4
<1>6. CASE WriteSliceFails
  <2>1. have' = have /\ End(Failed("write")) /\ f \in Real
    BY <1>4, <1>6 DEF WriteSliceFails
  <2>2. \A g \in Files : StoredStays(g)
    <3>1. CASE UNCHANGED <<fs, part>>
      BY <1>1, <3>1, AllKept
    <3>2. CASE UNCHANGED fs /\ \E c \in Torn(part[f], f) \ {Absent} : part' = PartPut(f, c)
      <4>1. PICK c \in Torn(part[f], f) \ {Absent} : part' = PartPut(f, c)
        BY <3>2
      <4>2. part[f] \in Contents \cup {Absent}
        BY <1>1 DEF TypeOK
      <4>3. c \in Contents /\ (part[f] = f => c = f)
        BY <4>1, <4>2, TornType
      <4> QED BY <1>1, <3>2, <4>1, <4>3, RegionKept
    <3>3. CASE UNCHANGED part /\ \E c \in Torn(Opened(fs[paths[f]]), f) : fs' = [fs EXCEPT ![paths[f]] = c]
      <4>1. PICK c \in Torn(Opened(fs[paths[f]]), f) : fs' = [fs EXCEPT ![paths[f]] = c]
        BY <3>3
      <4>2. fs[paths[f]] \in Contents \cup {Absent}
        BY <1>1 DEF TypeOK
      <4>3. Opened(fs[paths[f]]) \in Contents /\ (fs[paths[f]] = f => Opened(fs[paths[f]]) = f)
        BY <4>2, OpenedType
      <4>4. fs[paths[f]] = f => c = f
        BY <4>1, <4>3, TornType
      <4> QED BY <1>1, <3>3, <4>1, <4>4, DocumentKept
    <3> QED BY <1>4, <1>6, <3>1, <3>2, <3>3 DEF WriteSliceFails
  <2> QED BY <1>1, <2>1, <2>2, IntactStays, FailedAnswer DEF Rest
<1> QED BY <1>5, <1>6

\* migrate_priority(): the data is in both places before it leaves one.
LEMMA PriorityRest ==
    ASSUME IndInv, PriorityStep
    PROVE  Rest'
<1> USE DEF nameVars, diskVars, AtFile
<1>1. /\ TypeOK /\ PathsFollowNames /\ AuthoritativeIntact /\ PriorityFacts /\ AnswersLast
      /\ job.op = "priority" /\ UNCHANGED <<paths, have>>
  BY DEF IndInv, JobFacts, Answers, PriorityStep, PriorityKeep, ToPartCopy, ToPartRemove,
         ToPartFails, RemoveFails, FromPart, FromPartFails, PriorityEnd
<1>2. job \in PriorityJobs
  BY <1>1, JobShapes DEF TypeOK
<1>3. ASSUME job.at \in Files, Commit, NEW f \in Files, f = job.at,
             \A g \in Files : g # f => StoredStays(g), f \in have => Stored(f)' = f
      PROVE  Rest'
  <2>1. job' = [job EXCEPT !.at = @ + 1, !.phase = "copy"] /\ UNCHANGED reply
    BY <1>3 DEF Commit
  <2>2. job'.op = "priority" /\ job'.phase = "copy"
    BY <1>2, <2>1 DEF PriorityJobs
  <2>3. JobFacts'
    BY <2>2 DEF JobFacts, WriteFacts, PriorityFacts, MoveFacts, DeleteFacts, CheckFacts
  <2>4. Answers'
    BY <1>1, <2>1, JobShapes, SaidLater
  <2>5. AuthoritativeIntact'
    BY <1>1, <1>3 DEF AuthoritativeIntact, StoredStays, TypeOK
  <2> QED BY <2>3, <2>4, <2>5 DEF Rest
<1>4. CASE PriorityKeep
  <2>1. PICK f \in Files : f = job.at
    BY <1>4 DEF PriorityKeep
  <2>2. Commit /\ UNCHANGED <<fs, part>> /\ skip' = [skip EXCEPT ![f] = job.want[f]]
    BY <1>4, <2>1 DEF PriorityKeep, Commit
  <2>3. \A g \in Files : g # f => StoredStays(g)
    BY <1>1, <2>2 DEF StoredStays, Stored, TypeOK
  <2>4. ASSUME f \in have PROVE Stored(f)' = f
    <3>1. skip' = skip
      BY <1>1, <1>4, <2>1, <2>2, <2>4 DEF PriorityKeep, Migrates, TypeOK
    <3> QED BY <1>1, <2>2, <2>4, <3>1 DEF AuthoritativeIntact, Stored
  <2> QED BY <1>3, <2>1, <2>2, <2>3, <2>4
<1>5. CASE ToPartCopy
  <2>1. PICK f \in Files : f = job.at
    BY <1>5 DEF ToPartCopy
  <2>2. f \in Real /\ ~skip[f] /\ job.want[f] /\ skip' = skip
    BY <1>5, <2>1 DEF ToPartCopy, Migrates
  <2>3. fs[paths[f]] \in Contents \cup {Absent}
    BY <1>1 DEF TypeOK
  <2>4. PICK x \in Contents : x = IF fs[paths[f]] = Absent THEN Zero ELSE fs[paths[f]]
    BY <2>3 DEF Contents
  <2>5. part' = PartPut(f, x) /\ UNCHANGED <<fs, reply>>
    BY <1>5, <2>1, <2>4 DEF ToPartCopy
  <2>6. \A g \in Files : StoredStays(g)
    BY <1>1, <2>2, <2>5, RegionKept
  <2>7. f \in have => part'[f] = f
    <3>1. f \in have => fs[paths[f]] = f /\ f # Absent
      BY <1>1, <2>2, CellsDiffer DEF AuthoritativeIntact, Stored
    <3> QED BY <1>1, <2>4, <2>5, <3>1, RegionsApart
  <2>8. job' = [job EXCEPT !.phase = "remove"]
    BY <1>5 DEF ToPartCopy
  <2>9. job'.op = "priority" /\ job'.at = f /\ job'.want = job.want
    BY <1>2, <2>1, <2>8 DEF PriorityJobs
  <2>10. JobFacts'
    BY <1>1, <2>2, <2>7, <2>9 DEF JobFacts, WriteFacts, PriorityFacts, MoveFacts, DeleteFacts, CheckFacts
  <2>11. Answers'
    BY <1>1, <2>5, JobShapes, SaidLater
  <2> QED BY <1>1, <2>6, <2>10, <2>11, IntactStays DEF Rest
<1>6. CASE ToPartRemove
  <2>1. PICK f \in Files : f = job.at
    BY <1>6 DEF ToPartRemove
  <2>2. /\ f \in Real /\ ~skip[f] /\ job.want[f] = TRUE
        /\ f \in have => part[f] = f
    <3>1. job.want[f] \in BOOLEAN
      BY <1>2 DEF PriorityJobs
    <3> QED BY <1>1, <1>6, <2>1, <3>1 DEF PriorityFacts, ToPartRemove
  <2>3. Commit /\ fs' = [fs EXCEPT ![paths[f]] = Absent] /\ UNCHANGED part
    BY <1>6, <2>1 DEF ToPartRemove
  <2>4. skip' = [skip EXCEPT ![f] = TRUE]
    BY <2>1, <2>2, <2>3 DEF Commit
  <2>5. \A g \in Files : g # f => StoredStays(g)
    <3>1. \A g \in Files : g # f => skip'[g] = skip[g]
      BY <1>1, <2>4 DEF TypeOK
    <3>2. \A g \in Files : g # f => fs'[paths'[g]] = fs[paths[g]]
      BY <1>1, <2>3, DocumentsApart
    <3> QED BY <2>3, <3>1, <3>2 DEF StoredStays, Stored
  <2>6. f \in have => Stored(f)' = f
    BY <1>1, <2>2, <2>3, <2>4 DEF Stored, TypeOK
  <2> QED BY <1>3, <2>1, <2>3, <2>5, <2>6
<1>7. CASE ToPartFails
  <2>1. PICK f \in Files : f = job.at
    BY <1>7 DEF ToPartFails
  <2>2. ~skip[f] /\ skip' = skip /\ UNCHANGED fs /\ End(Failed("priority"))
    BY <1>7, <2>1 DEF ToPartFails, Migrates
  <2>3. \A g \in Files : StoredStays(g)
    <3>1. CASE UNCHANGED part
      BY <1>1, <2>2, <3>1, AllKept
    <3>2. CASE \E x \in Torn(part[f], fs[paths[f]]) \ {Absent} : part' = PartPut(f, x)
      <4>1. PICK x \in Torn(part[f], fs[paths[f]]) \ {Absent} : part' = PartPut(f, x)
        BY <3>2
      <4>2. part[f] \in Contents \cup {Absent}
        BY <1>1 DEF TypeOK
      <4>3. x \in Contents
        BY <4>1, <4>2, TornType
      <4> QED BY <1>1, <2>2, <4>1, <4>3, RegionKept
    <3> QED BY <1>7, <2>1, <3>1, <3>2 DEF ToPartFails
  <2> QED BY <1>1, <2>2, <2>3, IntactStays, FailedAnswer DEF Rest
<1>8. CASE RemoveFails
  <2>1. UNCHANGED <<fs, part, paths, skip>> /\ End(Failed("priority"))
    BY <1>8 DEF RemoveFails
  <2> QED BY <1>1, <2>1, AllKept, IntactStays, FailedAnswer DEF Rest
<1>9. CASE FromPart
  <2>1. PICK f \in Files : f = job.at
    BY <1>9 DEF FromPart
  <2>2. f \in Real /\ skip[f] /\ job.want[f] = FALSE
    <3>1. job.want[f] \in BOOLEAN /\ skip[f] \in BOOLEAN
      BY <1>1, <1>2 DEF PriorityJobs, TypeOK
    <3> QED BY <1>9, <2>1, <3>1 DEF FromPart, Migrates
  <2>3. PICK x : x = IF hasPart THEN part[f] ELSE Zero
    OBVIOUS
  <2>4. Commit /\ fs' = [fs EXCEPT ![paths[f]] = x] /\ UNCHANGED part
    BY <1>9, <2>1, <2>3 DEF FromPart
  <2>5. skip' = [skip EXCEPT ![f] = FALSE]
    BY <2>1, <2>2, <2>4 DEF Commit
  <2>6. \A g \in Files : g # f => StoredStays(g)
    <3>1. \A g \in Files : g # f => skip'[g] = skip[g]
      BY <1>1, <2>5 DEF TypeOK
    <3>2. \A g \in Files : g # f => fs'[paths'[g]] = fs[paths[g]]
      BY <1>1, <2>4, DocumentsApart
    <3> QED BY <2>4, <3>1, <3>2 DEF StoredStays, Stored
  <2>7. f \in have => x = f
    <3>1. f \in have => part[f] = f /\ f # Absent
      BY <1>1, <2>2, CellsDiffer DEF AuthoritativeIntact, Stored
    <3> QED BY <1>1, <2>3, <3>1 DEF TypeOK
  <2>8. f \in have => Stored(f)' = f
    BY <1>1, <2>4, <2>5, <2>7, DocumentsApart DEF Stored, TypeOK
  <2> QED BY <1>3, <2>1, <2>4, <2>6, <2>8
<1>10. CASE FromPartFails
  <2>1. PICK f \in Files : f = job.at
    BY <1>10 DEF FromPartFails
  <2>2. skip[f]
    <3>1. job.want[f] \in BOOLEAN /\ skip[f] \in BOOLEAN
      BY <1>1, <1>2 DEF PriorityJobs, TypeOK
    <3> QED BY <1>10, <2>1, <3>1 DEF FromPartFails, Migrates
  <2>3. PICK c : fs' = [fs EXCEPT ![paths[f]] = c]
    BY <1>10, <2>1 DEF FromPartFails
  <2>4. UNCHANGED <<part, skip>> /\ End(Failed("priority"))
    BY <1>10 DEF FromPartFails
  <2>5. \A g \in Files : StoredStays(g)
    BY <1>1, <2>2, <2>3, <2>4, DocumentKept
  <2> QED BY <1>1, <2>4, <2>5, IntactStays, FailedAnswer DEF Rest
<1>11. CASE PriorityEnd
  <2>1. UNCHANGED <<fs, skip>> /\ (End(Done("priority")) \/ End(Failed("priority")))
    BY <1>11 DEF PriorityEnd
  <2>2. \A g \in Files : StoredStays(g)
    <3>1. CASE UNCHANGED part
      BY <1>1, <2>1, <3>1, AllKept
    <3>2. CASE PartUnneeded
      BY <1>1, <2>1, <3>2 DEF PartUnneeded, StoredStays, Stored
    <3> QED BY <1>11, <3>1, <3>2 DEF PriorityEnd
  <2> QED BY <1>1, <2>1, <2>2, IntactStays, FailedAnswer, DoneAnswer DEF Rest
<1> QED
  BY <1>4, <1>5, <1>6, <1>7, <1>8, <1>9, <1>10, <1>11 DEF PriorityStep

\* move_storage(): nothing in use is written over, and the names change when
\* everything is at its destination.
LEMMA MoveRest ==
    ASSUME IndInv, MoveStep
    PROVE  Rest'
<1> USE DEF nameVars, diskVars
<1>1. /\ TypeOK /\ PathsFollowNames /\ AuthoritativeIntact /\ MoveFacts /\ AnswersLast
      /\ job.op = "move" /\ UNCHANGED <<part, skip>>
  BY DEF IndInv, JobFacts, Answers, MoveStep, MoveCopy, MoveCopyFails, MoveCommit, MoveClean, MoveEnd
<1>2. job \in MoveJobs
  BY <1>1, JobShapes DEF TypeOK
<1>3. /\ job.to \in Roots /\ job.copy \subseteq Files /\ job.clean \subseteq Files
      /\ job.source \in [Files -> Paths]
  BY <1>2 DEF MoveJobs
<1>4. PICK dest \in [Files -> Paths] : dest = Destination(job.to)
  BY <1>1, <1>3, DestinationsDiffer
<1>5. \A f, g \in Files : dest[f] = dest[g] => f = g
  BY <1>1, <1>3, <1>4, DestinationsDiffer
<1>6. have \subseteq Real
  BY <1>1 DEF TypeOK
\* A document is written at a destination: no file in use is there.
<1>7. ASSUME job.copy # {}, NEW f \in job.copy, NEW c, fs' = [fs EXCEPT ![dest[f]] = c],
             UNCHANGED <<paths, have>>
      PROVE  ~job.done /\ f \in Real /\ AuthoritativeIntact'
  <2>1. ~job.done /\ f \in Real /\ paths[f] # dest[f] /\ ~Collides(job.to)
    BY <1>1, <1>4, <1>7 DEF MoveFacts
  <2>2. \A g \in Real : paths[g] # dest[f]
    BY <1>4, <2>1 DEF Collides
  <2>3. \A g \in Real : paths[g] \in Paths /\ fs'[paths'[g]] = fs[paths[g]]
    BY <1>1, <1>7, <2>2 DEF TypeOK
  <2> QED BY <1>1, <1>6, <1>7, <2>1, <2>3 DEF AuthoritativeIntact, Stored
<1>8. CASE MoveCopy
  <2>1. PICK f \in job.copy : f = Least(job.copy)
    BY <1>3, <1>8, LeastIn DEF MoveCopy
  <2>2. /\ fs' = [fs EXCEPT ![dest[f]] = fs[paths[f]]]
        /\ job' = [job EXCEPT !.copy = @ \ {f}]
        /\ UNCHANGED <<root, logical, paths, have, reply>>
    BY <1>4, <1>8, <2>1 DEF MoveCopy
  <2>3. ~job.done /\ f \in Real /\ AuthoritativeIntact'
    BY <1>7, <2>1, <2>2
  <2>4. /\ job'.op = "move" /\ job'.to = job.to /\ job'.copy = job.copy \ {f}
        /\ job'.kept = job.kept /\ job'.done = job.done
    BY <1>2, <2>2 DEF MoveJobs
  <2>5. Destination(job.to)' = dest
    BY <1>4, <2>2, <2>4 DEF Destination
  <2>6. ~Collides(job.to) /\ \A g \in job.copy : g \in Real /\ paths[g] # dest[g]
    BY <1>1, <1>4, <2>3 DEF MoveFacts
  <2>7. ~Collides(job.to)'
    BY <1>4, <2>2, <2>4, <2>5, <2>6 DEF Collides
  <2>8. ASSUME NEW g \in have, ~skip[g], g \notin job.copy \ {f}, g \notin job.kept
        PROVE  fs'[dest[g]] = g
    <3>1. CASE g = f
      BY <1>1, <1>4, <2>2, <2>3, <2>8, <3>1 DEF AuthoritativeIntact, Stored, TypeOK
    <3>2. CASE g # f
      <4>1. fs[dest[g]] = g
        BY <1>1, <1>4, <2>3, <2>8, <3>2 DEF MoveFacts
      <4>2. g \in Files /\ f \in Files /\ dest[g] # dest[f]
        BY <1>5, <1>6, <2>3, <3>2
      <4> QED BY <1>1, <1>4, <2>2, <4>1, <4>2 DEF TypeOK
    <3> QED BY <3>1, <3>2
  <2>9. MoveFacts'
    BY <1>1, <2>2, <2>3, <2>4, <2>5, <2>6, <2>7, <2>8 DEF MoveFacts
  <2>10. JobFacts'
    BY <2>4, <2>9 DEF JobFacts, WriteFacts, PriorityFacts, DeleteFacts, CheckFacts
  <2>11. Answers'
    BY <1>1, <2>2, JobShapes, SaidLater
  <2> QED BY <2>3, <2>10, <2>11 DEF Rest
<1>9. CASE MoveCopyFails
  <2>1. PICK f \in job.copy : f = Least(job.copy)
    BY <1>3, <1>9, LeastIn DEF MoveCopyFails
  <2>2. PICK c : fs' = [fs EXCEPT ![dest[f]] = c]
    BY <1>4, <1>9, <2>1 DEF MoveCopyFails
  <2>3. UNCHANGED <<paths, have>> /\ End(Failed("move"))
    BY <1>9 DEF MoveCopyFails
  <2> QED BY <1>7, <2>1, <2>2, <2>3, FailedAnswer DEF Rest
<1>10. CASE MoveCommit
  <2>1. /\ job.copy = {} /\ ~job.done /\ paths' = dest
        /\ have' = {f \in have : f \notin job.kept \/ skip[f]}
        /\ job' = [job EXCEPT !.done = TRUE]
        /\ UNCHANGED <<fs, reply>>
    BY <1>4, <1>10 DEF MoveCommit, SetSaveRoot
  <2>2. \A f \in have : ~skip[f] /\ f \notin job.kept => fs[dest[f]] = f
    BY <1>1, <1>4, <2>1 DEF MoveFacts
  <2>3. AuthoritativeIntact'
    BY <1>1, <2>1, <2>2 DEF AuthoritativeIntact, Stored
  <2>4. job'.op = "move" /\ job'.done /\ job'.copy = {}
    BY <1>2, <2>1 DEF MoveJobs
  <2>5. JobFacts'
    BY <2>4 DEF JobFacts, WriteFacts, PriorityFacts, MoveFacts, DeleteFacts, CheckFacts
  <2>6. Answers'
    BY <1>1, <2>1, JobShapes, SaidLater
  <2> QED BY <2>3, <2>5, <2>6 DEF Rest
<1>11. CASE MoveClean
  <2>1. PICK f \in job.clean : f = Least(job.clean)
    BY <1>3, <1>11, LeastIn DEF MoveClean
  <2>2. PICK p \in Paths : p = job.source[f]
    BY <1>3
  <2>3. /\ fs' = fs \/ (fs' = [fs EXCEPT ![p] = Absent] /\ \A g \in Files : paths[g] # p)
        /\ job' = [job EXCEPT !.clean = @ \ {f}]
        /\ job.done
        /\ UNCHANGED <<paths, have, reply>>
    BY <1>11, <2>1, <2>2 DEF MoveClean
  <2>4. \A g \in Files : fs'[paths'[g]] = fs[paths[g]]
    BY <1>1, <2>2, <2>3 DEF TypeOK
  <2>5. \A g \in Files : StoredStays(g)
    BY <1>1, <2>4 DEF StoredStays, Stored
  <2>6. job'.op = "move" /\ job'.done /\ job'.copy = {}
    BY <1>1, <1>2, <2>3 DEF MoveJobs, MoveFacts
  <2>7. JobFacts'
    BY <2>6 DEF JobFacts, WriteFacts, PriorityFacts, MoveFacts, DeleteFacts, CheckFacts
  <2>8. Answers'
    BY <1>1, <2>3, JobShapes, SaidLater
  <2> QED BY <1>1, <2>3, <2>5, <2>7, <2>8, IntactStays DEF Rest
<1>12. CASE MoveEnd
  <2>1. UNCHANGED <<fs, part, paths, skip, have>> /\ End(Done("move"))
    BY <1>12 DEF MoveEnd
  <2> QED BY <1>1, <2>1, AllKept, IntactStays, DoneAnswer DEF Rest
<1> QED BY <1>8, <1>9, <1>10, <1>11, <1>12 DEF MoveStep

\* async_delete_files: an error is not forgotten, so no error means all is gone.
LEMMA DeleteRest ==
    ASSUME IndInv, DeleteOne \/ DeletePart
    PROVE  Rest'
<1> USE DEF nameVars, diskVars, AtFile
<1>1. /\ TypeOK /\ PathsFollowNames /\ AuthoritativeIntact /\ DeleteFacts /\ AnswersLast
      /\ job.op = "delete" /\ UNCHANGED <<paths, skip, have>>
  BY DEF IndInv, JobFacts, Answers, DeleteOne, DeletePart
<1>2. job \in DeleteJobs
  BY <1>1, JobShapes DEF TypeOK
<1>3. job.at \in 1..(N + 1) /\ job.files \in BOOLEAN /\ job.error \in BOOLEAN
  BY <1>2 DEF DeleteJobs
<1>4. CASE DeleteOne
  <2>1. PICK f \in Files : f = job.at
    BY <1>4 DEF DeleteOne
  <2>2. job.files /\ have = {}
    BY <1>1, <1>3, <2>1 DEF DeleteFacts
  <2>3. job'.op = "delete" /\ job'.files = job.files /\ job'.at = f + 1
    BY <1>2, <1>4, <2>1 DEF DeleteOne, DeleteJobs
  <2>4. ASSUME ~job'.error, NEW g \in Real, g < job'.at
        PROVE  ~Exists(paths[g])'
    <3>1. /\ fs' = IF f \in Real THEN [fs EXCEPT ![paths[f]] = Absent] ELSE fs
          /\ ~job.error
      BY <1>2, <1>4, <2>1, <2>4 DEF DeleteOne, DeleteJobs
    <3>2. CASE g = f
      BY <1>1, <2>4, <3>1, <3>2 DEF Exists, TypeOK
    <3>3. CASE g # f
      <4>1. g < f
        BY <2>1, <2>3, <2>4, <3>3
      <4>2. fs[paths[g]] = Absent
        BY <1>1, <2>1, <2>2, <2>4, <3>1, <4>1 DEF DeleteFacts, Exists
      <4>3. fs'[paths'[g]] = fs[paths[g]]
        BY <1>1, <2>4, <3>1, <3>3, DocumentsApart
      <4> QED BY <1>1, <4>2, <4>3 DEF Exists
    <3> QED BY <3>2, <3>3
  <2>5. JobFacts'
    BY <1>1, <2>2, <2>3, <2>4 DEF JobFacts, WriteFacts, PriorityFacts, MoveFacts, DeleteFacts, CheckFacts
  <2>6. Answers'
    BY <1>1, <1>4, JobShapes, SaidLater DEF DeleteOne
  <2>7. AuthoritativeIntact'
    BY <1>1, <2>2 DEF AuthoritativeIntact
  <2> QED BY <2>5, <2>6, <2>7 DEF Rest
<1>5. CASE DeletePart
  <2>1. UNCHANGED fs /\ job' = Idle /\ job.at = N + 1
    BY <1>5 DEF DeletePart, End
  <2>2. \A f \in have : ~skip[f]
    BY <1>1 DEF DeleteFacts
  <2>3. AuthoritativeIntact'
    BY <1>1, <2>1, <2>2 DEF AuthoritativeIntact, Stored
  <2>4. /\ reply'.op = "delete" /\ reply'.files = job.files
        /\ ~reply'.error => ~job.error /\ hasPart' = FALSE
    BY <1>3, <1>5 DEF DeletePart, End
  <2>5. DeletionIsHonest'
    <3>1. ASSUME ~job.error, job.files, NEW f \in Real PROVE ~Exists(paths[f])'
      <4>1. f < job.at
        BY <2>1
      <4> QED BY <1>1, <2>1, <3>1, <4>1 DEF DeleteFacts, Exists
    <3> QED BY <2>4, <3>1 DEF DeletionIsHonest
  <2>6. JobFacts' /\ AnswersLast'
    BY <2>1, EndFacts
  <2>7. Answers'
    BY <2>4, <2>5, <2>6 DEF Answers, ReadsBack, FreshMeansFresh
  <2> QED BY <2>3, <2>6, <2>7 DEF Rest
<1> QED BY <1>4, <1>5

\* initialize_files(): contents that are there stay, and are noticed.
LEMMA CheckRest ==
    ASSUME IndInv, Initialize \/ CheckEnd
    PROVE  Rest'
<1> USE DEF nameVars, diskVars, AtFile
<1>1. /\ TypeOK /\ PathsFollowNames /\ AuthoritativeIntact /\ CheckFacts /\ AnswersLast
      /\ job.op = "check" /\ UNCHANGED <<part, paths, skip, have>>
  BY DEF IndInv, JobFacts, Answers, Initialize, CheckEnd
<1>2. job \in CheckJobs
  BY <1>1, JobShapes DEF TypeOK
<1>3. job.at \in 1..(N + 1) /\ job.had \in BOOLEAN /\ job.blind \in BOOLEAN
  BY <1>2 DEF CheckJobs
<1>4. CASE Initialize
  <2>1. PICK f \in Files : f = job.at
    BY <1>4 DEF Initialize
  <2>2. PICK p \in Paths : p = paths[f]
    BY <1>1 DEF TypeOK
  <2>3. fs[p] \in Contents \cup {Absent}
    BY <1>1 DEF TypeOK
  <2>4. CASE (f \in Pads \/ skip[f]) /\ job' = [job EXCEPT !.at = @ + 1] /\ UNCHANGED <<fs, reply>>
    <3>1. /\ job'.op = "check" /\ job'.at = f + 1
          /\ job'.had = job.had /\ job'.blind = job.blind
      BY <1>2, <2>1, <2>4 DEF CheckJobs
    <3>2. \A g \in Real : g < f + 1 /\ ~skip[g] => g < f
      BY <2>4
    <3>3. CheckFacts'
      BY <1>1, <2>1, <2>4, <3>1, <3>2 DEF CheckFacts
    <3>4. JobFacts'
      BY <3>1, <3>3 DEF JobFacts, WriteFacts, PriorityFacts, MoveFacts, DeleteFacts
    <3>5. Answers'
      BY <1>1, <2>4, JobShapes, SaidLater
    <3> QED BY <1>1, <2>4, <3>4, <3>5, AllKept, IntactStays DEF Rest
  <2>5. CASE /\ f \in Real /\ ~skip[f]
             /\ fs' = [fs EXCEPT ![p] = Filled(@)]
             /\ \E blind \in {FALSE, Faults} :
                  job' = [job EXCEPT !.at = @ + 1, !.had = HadFile(Exists(p) /\ ~blind),
                                     !.blind = @ \/ blind]
             /\ UNCHANGED reply
    <3>1. PICK x \in Contents : x = Filled(fs[p])
      BY <2>3, OpenedType
    <3>2. fs' = [fs EXCEPT ![paths[f]] = x]
      BY <2>2, <2>5, <3>1
    <3>3. fs[paths[f]] = f => x = f
      BY <2>2, <2>3, <3>1, OpenedType
    <3>4. \A g \in Files : StoredStays(g)
      BY <1>1, <3>2, <3>3, DocumentKept
    <3>5. PICK blind \in BOOLEAN :
            job' = [job EXCEPT !.at = @ + 1, !.had = HadFile(Exists(p) /\ ~blind), !.blind = @ \/ blind]
      BY <2>5
    <3>6. /\ job'.op = "check" /\ job'.at = f + 1
          /\ job'.had = HadFile(Exists(p) /\ ~blind) /\ job'.blind = (job.blind \/ blind)
      BY <1>2, <2>1, <3>5 DEF CheckJobs
    <3>a. fs'[paths'[f]] = x /\ \A g \in Files : g # f => fs'[paths'[g]] = fs[paths[g]]
      BY <1>1, <3>2, DocumentsApart
    <3>7. ASSUME ~job'.had, ~job'.blind, NEW g \in Real, g < job'.at, ~skip[g]
          PROVE  fs'[paths'[g]] = Zero
      <4>1. ~job.had /\ ~job.blind /\ ~Exists(p)
        BY <3>6, <3>7 DEF HadFile
      <4>2. CASE g = f
        <5>1. x = Zero
          BY <3>1, <4>1 DEF Filled, Exists
        <5> QED BY <3>a, <4>2, <5>1
      <4>3. CASE g # f
        <5>1. g < f
          BY <2>1, <3>6, <3>7, <4>3
        <5>2. fs[paths[g]] = Zero
          BY <1>1, <2>1, <3>7, <4>1, <5>1 DEF CheckFacts
        <5>3. fs'[paths'[g]] = fs[paths[g]]
          BY <3>a, <3>7, <4>3
        <5> QED BY <5>2, <5>3
      <4> QED BY <4>2, <4>3
    <3>8. CheckFacts'
      BY <1>1, <3>7 DEF CheckFacts
    <3>9. JobFacts'
      BY <3>6, <3>8 DEF JobFacts, WriteFacts, PriorityFacts, MoveFacts, DeleteFacts
    <3>10. Answers'
      BY <1>1, <2>5, JobShapes, SaidLater
    <3> QED BY <1>1, <3>4, <3>9, <3>10, IntactStays DEF Rest
  <2>6. CASE /\ \E c \in {fs[p], Opened(fs[p])} : fs' = [fs EXCEPT ![p] = c]
             /\ End(Failed("check"))
    <3>1. PICK c \in {fs[p], Opened(fs[p])} : fs' = [fs EXCEPT ![p] = c]
      BY <2>6
    <3>2. fs[p] = f => c = f
      BY <2>3, <3>1, OpenedType
    <3>3. \A g \in Files : StoredStays(g)
      BY <1>1, <2>2, <3>1, <3>2, DocumentKept
    <3> QED BY <1>1, <2>6, <3>3, IntactStays, FailedAnswer DEF Rest
  <2> QED BY <1>4, <2>1, <2>2, <2>4, <2>5, <2>6 DEF Initialize
<1>5. CASE CheckEnd
  <2>1. /\ UNCHANGED fs /\ job' = Idle /\ job.at = N + 1
        /\ reply' = [op |-> "check", error |-> FALSE, recheck |-> job.had, blind |-> job.blind]
    BY <1>5 DEF CheckEnd, End
  <2>2. AuthoritativeIntact'
    BY <1>1, <2>1, AllKept, IntactStays
  <2>3. FreshMeansFresh'
    <3>1. ASSUME ~job.had, ~job.blind, NEW f \in Real, ~skip[f] PROVE fs[paths[f]] = Zero
      <4>1. f < job.at
        BY <2>1
      <4> QED BY <1>1, <3>1, <4>1 DEF CheckFacts
    <3> QED BY <1>1, <2>1, <3>1 DEF FreshMeansFresh
  <2>4. JobFacts' /\ AnswersLast'
    BY <2>1, EndFacts
  <2>5. Answers'
    BY <2>1, <2>3, <2>4 DEF Answers, ReadsBack, DeletionIsHonest
  <2> QED BY <2>2, <2>4, <2>5 DEF Rest
<1> QED BY <1>4, <1>5

\* A read finds what is stored, a new job has done nothing yet, and a new name
\* or save path keeps what it claims to have.
LEMMA RequestRest ==
    ASSUME IndInv, Requests
    PROVE  Rest'
<1> USE DEF nameVars, diskVars, Start
<1>1. TypeOK /\ PathsFollowNames /\ AuthoritativeIntact /\ job = Idle
  BY DEF IndInv, Requests, Read, StartWrite, RenameFile, StartPriority, MoveRejected,
         MoveReset, StartMove, StartDelete, StartCheck
<1>2. CASE \E first, last \in Files : Read(first, last)
  <2>1. PICK first, last \in Files : Read(first, last)
    BY <1>2
  <2>2. /\ UNCHANGED <<fs, part, paths, skip, have>> /\ job' = Idle
        /\ reply'.op = "read"
    BY <1>1, <2>1 DEF Read
  <2>3. ReadsBack'
    <3> DEFINE S == Slices(first, last)
               cells == [f \in S |-> Readable(f)]
    <3>1. PICK error, fault \in BOOLEAN :
            /\ error => \/ \E f \in S : cells[f] \in {Absent, Empty}
                        \/ \E f \in S : cells[f] = Junk
                        \/ fault
            /\ reply' = [op |-> "read", error |-> error, fault |-> fault,
                         right |-> \A f \in S : cells[f] = f, owed |-> S \subseteq have]
      BY <2>1 DEF Read
    <3>2. ASSUME S \subseteq have, NEW f \in S PROVE cells[f] = f /\ f \notin {Absent, Empty, Junk}
      <4>1. f \in have /\ f \in Files
        BY <1>1, <3>2 DEF TypeOK
      <4> QED BY <1>1, <4>1, CellsDiffer DEF AuthoritativeIntact, Readable
    <3> QED BY <3>1, <3>2 DEF ReadsBack
  <2>4. JobFacts' /\ AnswersLast'
    BY <2>2, EndFacts
  <2>5. Answers'
    BY <2>2, <2>3, <2>4 DEF Answers, DeletionIsHonest, FreshMeansFresh
  <2> QED BY <1>1, <2>2, <2>4, <2>5, AllKept, IntactStays DEF Rest
<1>3. CASE \E first, last \in Files : first <= last /\ StartWrite(first, last)
  <2>1. PICK first, last \in Files : first <= last /\ StartWrite(first, last)
    BY <1>3
  <2>2. /\ UNCHANGED <<fs, part, paths, skip, have>> /\ reply' = NoReply
        /\ job'.op = "write" /\ job'.at = first /\ job'.first = first /\ job'.last = last
    BY <2>1 DEF StartWrite
  <2>3. WriteFacts'
    BY <2>1, <2>2 DEF WriteFacts
  <2>4. JobFacts'
    BY <2>2, <2>3 DEF JobFacts, PriorityFacts, MoveFacts, DeleteFacts, CheckFacts
  <2> QED BY <1>1, <2>2, <2>4, AllKept, IntactStays, Silent DEF Rest
<1>4. CASE \E f \in Real, n \in Names : RenameFile(f, n)
  <2>1. PICK f \in Real, n \in Names : RenameFile(f, n)
    BY <1>4
  <2>2. job' = Idle /\ reply'.op = "rename" /\ UNCHANGED <<part, skip, have>>
    BY <1>1, <2>1 DEF RenameFile, Done, Failed
  <2>3. \A g \in Files : StoredStays(g)
    <3>1. CASE UNCHANGED <<fs, nameVars>>
      BY <2>2, <3>1, AllKept
    <3>2. CASE /\ Renamed(f, n)
               /\ fs' = [p \in Paths |-> IF p = Rooted(root, n) THEN fs[paths[f]]
                                         ELSE IF p = paths[f] THEN Absent ELSE fs[p]]
      <4>1. Rooted(root, n) \in Paths /\ paths' = [paths EXCEPT ![f] = Rooted(root, n)]
        BY <1>1, <3>2 DEF Renamed, TypeOK
      <4>2. fs'[paths'[f]] = fs[paths[f]]
        BY <1>1, <3>2, <4>1 DEF TypeOK
      <4>3. ASSUME NEW g \in Files, g # f PROVE fs'[paths'[g]] = fs[paths[g]]
        <5>1. paths'[g] = paths[g] /\ paths[g] \in Paths
          BY <1>1, <4>1, <4>3 DEF TypeOK
        <5>2. paths[g] # paths[f]
          BY <1>1, <4>3 DEF PathsFollowNames
        <5>3. paths[g] # Rooted(root, n)
          <6>1. logical[g] # n /\ logical[g] \in Names /\ root \in Roots
            BY <1>1, <2>1, <4>3 DEF RenameFile, TypeOK
          <6>2. paths[g] = Rooted(root, logical[g])
            BY <1>1 DEF PathsFollowNames
          <6> QED BY <6>1, <6>2
        <5> QED BY <3>2, <5>1, <5>2, <5>3
      <4> QED BY <2>2, <4>2, <4>3 DEF StoredStays, Stored
    <3> QED BY <2>1, <3>1, <3>2 DEF RenameFile
  <2> QED BY <1>1, <2>2, <2>3, IntactStays, EndFacts, OtherAnswer DEF Rest
<1>5. CASE \E want \in [Files -> BOOLEAN] : StartPriority(want)
  <2>1. /\ UNCHANGED <<fs, part, paths, skip, have>> /\ reply' = NoReply
        /\ job'.op = "priority" /\ job'.phase = "copy"
    BY <1>5 DEF StartPriority
  <2>2. JobFacts'
    BY <2>1 DEF JobFacts, WriteFacts, PriorityFacts, MoveFacts, DeleteFacts, CheckFacts
  <2> QED BY <1>1, <2>1, <2>2, AllKept, IntactStays, Silent DEF Rest
<1>6. CASE \E r \in Roots, flags \in Moves : MoveRejected(r, flags)
  <2>1. /\ UNCHANGED <<fs, part, paths, skip, have>> /\ job' = Idle
        /\ reply'.op = "move"
    BY <1>1, <1>6 DEF MoveRejected, Failed
  <2> QED BY <1>1, <2>1, AllKept, IntactStays, EndFacts, OtherAnswer DEF Rest
<1>7. CASE \E r \in Roots, flags \in Moves : MoveReset(r, flags)
  <2>1. PICK r \in Roots, flags \in Moves : MoveReset(r, flags)
    BY <1>7
  <2>2. /\ UNCHANGED <<fs, part, skip>> /\ job' = Idle /\ paths' = Destination(r)
        /\ have' = {f \in have : skip[f] \/ Destination(r)[f] = paths[f]}
        /\ reply'.op = "move"
    BY <1>1, <2>1 DEF MoveReset, SetSaveRoot, Done
  <2>3. AuthoritativeIntact'
    BY <1>1, <2>2 DEF AuthoritativeIntact, Stored
  <2> QED BY <2>2, <2>3, EndFacts, OtherAnswer DEF Rest
<1>8. CASE \E r \in Roots, flags \in Moves : StartMove(r, flags)
  <2>1. PICK r \in Roots, flags \in Moves : StartMove(r, flags)
    BY <1>8
  <2> DEFINE dest == Destination(r)
             moved == {f \in Real : paths[f] # dest[f]}
             kept == {f \in moved : flags = "dont_replace" /\ Exists(dest[f])}
             clean == {f \in moved : Exists(paths[f])}
  <2>2. /\ UNCHANGED <<fs, part, root, logical, paths, skip, have>> /\ reply' = NoReply
        /\ job'.op = "move" /\ job'.done = FALSE /\ job'.to = r
        /\ job'.copy = clean \ kept /\ job'.kept = kept /\ ~Collides(r)
    BY <2>1 DEF StartMove
  <2>3. Destination(job.to)' = dest
    BY <2>2 DEF Destination
  <2>4. ~Collides(job.to)'
    BY <2>2, <2>3 DEF Collides
  <2>5. ASSUME NEW f \in have, ~skip[f], f \notin job'.copy, f \notin job'.kept
        PROVE  fs[dest[f]] = f
    <3>1. f \in Real /\ fs[paths[f]] = f /\ f # Absent
      BY <1>1, <2>5, CellsDiffer DEF AuthoritativeIntact, Stored, TypeOK
    <3>2. f \notin moved
      BY <2>2, <2>5, <3>1 DEF Exists
    <3> QED BY <3>1, <3>2
  <2>6. \A f \in job'.copy : f \in Real /\ paths[f] # dest[f]
    BY <2>2
  <2> HIDE DEF dest
  <2>7. MoveFacts'
    BY <2>2, <2>3, <2>4, <2>5, <2>6 DEF MoveFacts
  <2>8. JobFacts'
    BY <2>2, <2>7 DEF JobFacts, WriteFacts, PriorityFacts, DeleteFacts, CheckFacts
  <2> QED BY <1>1, <2>2, <2>8, AllKept, IntactStays, Silent DEF Rest
<1>9. CASE \E files \in BOOLEAN : StartDelete(files)
  <2>1. PICK files \in BOOLEAN : StartDelete(files)
    BY <1>9
  <2>2. /\ UNCHANGED <<fs, part, paths, skip>> /\ reply' = NoReply
        /\ job'.op = "delete" /\ job'.files = files /\ job'.at = IF files THEN 1 ELSE N + 1
        /\ have' = {f \in have : ~files /\ ~skip[f]}
    BY <2>1 DEF StartDelete
  <2>3. \A f \in Real : files => ~(f < job'.at)
    BY <2>2
  <2>4. DeleteFacts'
    BY <2>2, <2>3 DEF DeleteFacts
  <2>5. JobFacts'
    BY <2>2, <2>4 DEF JobFacts, WriteFacts, PriorityFacts, MoveFacts, CheckFacts
  <2> QED BY <1>1, <2>2, <2>5, AllKept, IntactStays, Silent DEF Rest
<1>10. CASE StartCheck
  <2>1. /\ UNCHANGED <<fs, part, paths, skip, have>> /\ reply' = NoReply
        /\ job'.op = "check" /\ job'.at = 1
    BY <1>10 DEF StartCheck
  <2>2. \A f \in Real : ~(f < job'.at)
    BY <2>1
  <2>3. CheckFacts'
    BY <2>2 DEF CheckFacts
  <2>4. JobFacts'
    BY <2>1, <2>3 DEF JobFacts, WriteFacts, PriorityFacts, MoveFacts, DeleteFacts
  <2> QED BY <1>1, <2>1, <2>4, AllKept, IntactStays, Silent DEF Rest
<1> QED
  BY <1>2, <1>3, <1>4, <1>5, <1>6, <1>7, <1>8, <1>9, <1>10 DEF Requests

----------------------------------------------------------------------------
(* The invariant and what follows from it. *)

LEMMA Initially == Init => IndInv
<1> SUFFICES ASSUME Init PROVE IndInv
  OBVIOUS
<1>1. TypeOK
  <2>1. job \in JobType
    BY JobShapes DEF Init
  <2>2. fs \in [Paths -> Contents \cup {Absent}]
    BY DEF Init, Contents
  <2> QED BY <2>1, <2>2 DEF Init, TypeOK, Contents
<1>2. PathsFollowNames
  BY DEF Init, PathsFollowNames
<1>3. AuthoritativeIntact
  BY DEF Init, AuthoritativeIntact
<1>4. JobFacts
  BY JobShapes DEF Init, JobFacts, WriteFacts, PriorityFacts, MoveFacts, DeleteFacts, CheckFacts
<1>5. Answers
  BY DEF Init, NoReply, Answers, AnswersLast, ReadsBack, DeletionIsHonest, FreshMeansFresh
<1> QED BY <1>1, <1>2, <1>3, <1>4, <1>5 DEF IndInv

LEMMA Inductive == IndInv /\ [Next]_vars => IndInv'
<1> SUFFICES ASSUME IndInv, [Next]_vars PROVE IndInv'
  OBVIOUS
<1>1. CASE Next
  <2>1. TypeOK' /\ PathsFollowNames'
    BY <1>1, TypeStep, NamesStep DEF IndInv, JobFacts
  <2>2. Rest'
    BY <1>1, WriteRest, PriorityRest, MoveRest, DeleteRest, CheckRest, RequestRest
       DEF Next, Work, PriorityStep, MoveStep
  <2> QED BY <2>1, <2>2 DEF IndInv, Rest
<1>2. CASE UNCHANGED vars
  <2> USE <1>2 DEF vars
  <2>1. TypeOK' /\ PathsFollowNames' /\ AuthoritativeIntact'
    BY ZenonT(60) DEF IndInv, TypeOK, PathsFollowNames, AuthoritativeIntact, Stored
  <2>2. WriteFacts' /\ PriorityFacts'
    BY DEF IndInv, JobFacts, WriteFacts, PriorityFacts, Stored
  <2>3. MoveFacts'
    BY DEF IndInv, JobFacts, MoveFacts, Collides, Destination
  <2>4. DeleteFacts' /\ CheckFacts'
    BY DEF IndInv, JobFacts, DeleteFacts, CheckFacts, Exists
  <2>5. Answers'
    BY DEF IndInv, Answers, AnswersLast, ReadsBack, DeletionIsHonest, FreshMeansFresh, Exists
  <2> QED BY <2>1, <2>2, <2>3, <2>4, <2>5 DEF IndInv, JobFacts
<1> QED BY <1>1, <1>2

\* The inductive invariant holds in every reachable state, whichever calls of
\* the bridge fail and wherever a job is interrupted.
THEOREM Invariance == Spec => []IndInv
  BY Initially, Inductive, PTL DEF Spec

\* Every step of every job of the disk back end keeps the types of the storage,
\* and a part file that was removed has no regions.
THEOREM TypeCorrect == Spec => []TypeOK
<1>1. IndInv => TypeOK
  BY DEF IndInv
<1> QED BY <1>1, Invariance, PTL

\* Data a write reported as stored is where reads will look for it, between any
\* two calls of the bridge: through torn writes, priority changes, renames,
\* moves and checks, until the session gives it up.
THEOREM DataIntact == Spec => []AuthoritativeIntact
<1>1. IndInv => AuthoritativeIntact
  BY DEF IndInv
<1> QED BY <1>1, Invariance, PTL

\* read_block() on stored data returns that data or reports a failed call.
THEOREM ReadsAreRight == Spec => []ReadsBack
<1>1. IndInv => ReadsBack
  BY DEF IndInv, Answers
<1> QED BY <1>1, Invariance, PTL

\* Paths stay the logical names beneath the save root, one per file.
THEOREM NamesHangTogether == Spec => []PathsFollowNames
<1>1. IndInv => PathsFollowNames
  BY DEF IndInv
<1> QED BY <1>1, Invariance, PTL

\* async_delete_files reports success only when everything asked for is gone.
THEOREM DeletionHonest == Spec => []DeletionIsHonest
<1>1. IndInv => DeletionIsHonest
  BY DEF IndInv, Answers
<1> QED BY <1>1, Invariance, PTL

\* initialize_files() asks for a recheck whenever it found a document.
THEOREM FreshIsFresh == Spec => []FreshMeansFresh
<1>1. IndInv => FreshMeansFresh
  BY DEF IndInv, Answers
<1> QED BY <1>1, Invariance, PTL
=============================================================================
