----------------------------- MODULE SafTransfer -----------------------------
(***************************************************************************)
(* The loops that move bytes: pread_all() and pwrite_all()                 *)
(* (swig/flow_saf_disk_io.hpp), the slices of read_block() and             *)
(* write_block() (swig/flow_saf_disk_io.cpp) and getentropy()              *)
(* (swig/flow_saf_storage.cpp).  The kernel moves as many bytes of a call  *)
(* as it likes, none, or fails; a call cut short by a signal (EINTR) is    *)
(* made again.  SafStorage takes the result of such a loop as one step.    *)
(***************************************************************************)
EXTENDS PrefixSums

CONSTANTS
    MaxSlices,      \* bound: slices of a block
    MaxSize,        \* bound: bytes of a slice
    EntropyLimit    \* what getentropy() gives at most: 256

ASSUME TransferAssumption == {MaxSlices, MaxSize, EntropyLimit} \subseteq Nat

Slice == [size : 0..MaxSize, pad : BOOLEAN]

VARIABLES
    kind,       \* the loop that runs: "all", "read", "write", "entropy"
    slices,     \* the slices of the block; one for "all" and "entropy"
    at,         \* the slice in progress
    offset,     \* input_offset, output_offset, transferred, consumed
    remaining,  \* bytes of this slice
    phase,      \* "idle", "open", "move", "close", "done"
    errno,      \* of the latest call, 0 if none was set
    result,     \* what is returned: "ok" or an error
    own,        \* descriptors the loop opened for itself
    moved       \* history: <<buffer position, slice, file position>> of each byte

transferVars == <<kind, slices, at, offset, remaining, phase, errno, result, own, moved>>

TransferInit ==
    /\ kind = "all" /\ slices = <<>> /\ at = 1 /\ offset = 0 /\ remaining = 0
    /\ phase = "idle" /\ errno = "0" /\ result = "ok" /\ own = 0 /\ moved = {}

Begin(k, s) ==
    /\ k \in {"all", "entropy"} => Len(s) = 1 /\ ~s[1].pad
    /\ kind' = k /\ slices' = s
    /\ IF k = "entropy" /\ s[1].size > EntropyLimit
       THEN phase' = "done" /\ result' = "EIO" /\ errno' = "EIO"
       ELSE phase' = "open" /\ UNCHANGED <<result, errno>>
    /\ UNCHANGED <<at, offset, remaining, own, moved>>

\* The function returns; getentropy() closes its descriptor first.
Leave(r) ==
    /\ phase' = IF kind = "entropy" THEN "close" ELSE "done"
    /\ result' = r

\* A pad file's slice has no document: the bytes are zeros, or dropped.
PassPad ==
    /\ phase = "open" /\ at <= Len(slices) /\ slices[at].pad
    /\ offset' = offset + slices[at].size
    /\ at' = at + 1
    /\ UNCHANGED <<kind, slices, remaining, phase, errno, result, own, moved>>

\* open_file() finds or opens the slice's document; getentropy() its device.
OpenSlice ==
    /\ phase = "open" /\ at <= Len(slices) /\ ~slices[at].pad
    /\ phase' = "move" /\ remaining' = slices[at].size
    /\ own' = IF kind = "entropy" THEN 1 ELSE 0
    /\ UNCHANGED <<kind, slices, at, offset, errno, result, moved>>

\* Only getentropy() opens again after a signal; open_file() reports an error.
OpenFails(e) ==
    /\ phase = "open" /\ at <= Len(slices) /\ ~slices[at].pad /\ kind # "all"
    /\ errno' = e
    /\ IF kind = "entropy" /\ e = "EINTR"
       THEN UNCHANGED <<phase, result>>
       ELSE phase' = "done" /\ result' = e
    /\ UNCHANGED <<kind, slices, at, offset, remaining, own, moved>>

SlicesDone ==
    /\ phase = "open" /\ at = Len(slices) + 1
    /\ Leave("ok")
    /\ UNCHANGED <<kind, slices, at, offset, remaining, errno, own, moved>>

\* Wrong on purpose: every call starts at the slice's beginning.
FilePositionStays == 0

\* Where in the slice's document the next call reads or writes.
FilePosition == slices[at].size - remaining

\* A call moves n bytes.
Move(n) ==
    /\ phase = "move" /\ n <= remaining
    /\ moved' = moved \cup {<<offset + i, at, FilePosition + i>> : i \in 0..(n - 1)}
    /\ offset' = offset + n
    /\ remaining' = remaining - n
    /\ UNCHANGED <<kind, slices, at, phase, errno, result, own>>

SliceDone ==
    /\ phase = "move" /\ remaining = 0
    /\ phase' = "open" /\ at' = at + 1
    /\ UNCHANGED <<kind, slices, offset, remaining, errno, result, own, moved>>

\* A call returns -1: EINTR is tried again, any other error ends the loop.
\* pread_all() has a reader that may set no errno.
MoveFails(e) ==
    /\ phase = "move" /\ remaining > 0
    /\ e = "0" => kind = "all"
    /\ errno' = e
    /\ IF e = "EINTR" THEN UNCHANGED <<phase, result>>
                      ELSE Leave(IF e = "0" THEN "EIO" ELSE e)
    /\ UNCHANGED <<kind, slices, at, offset, remaining, own, moved>>

\* A call moves nothing: the end of the file, for read_block() only.
MoveNothing ==
    /\ phase = "move" /\ remaining > 0
    /\ Leave(IF kind = "read" THEN "EOF" ELSE "EIO")
    /\ UNCHANGED <<kind, slices, at, offset, remaining, errno, own, moved>>

\* A reader or writer of pread_all(), pwrite_all() claims more than was asked.
MoveTooMuch ==
    /\ phase = "move" /\ remaining > 0 /\ kind = "all"
    /\ Leave("EIO")
    /\ UNCHANGED <<kind, slices, at, offset, remaining, errno, own, moved>>

\* close() may set errno; getentropy() puts the error it reports back.
Close(e) ==
    /\ phase = "close"
    /\ own' = 0
    /\ errno' = IF result = "ok" THEN e ELSE result
    /\ phase' = "done"
    /\ UNCHANGED <<kind, slices, at, offset, remaining, result, moved>>

TransferNext ==
    \/ /\ phase = "idle"
       /\ \E k \in {"all", "read", "write", "entropy"} :
            \E m \in 1..MaxSlices : \E s \in [1..m -> Slice] : Begin(k, s)
    \/ PassPad \/ OpenSlice \/ SlicesDone \/ SliceDone
    \/ \E e \in {"EINTR", "EACCES"} : OpenFails(e) \/ Close(e)
    \/ \E n \in 1..MaxSize : Move(n)
    \/ \E e \in {"EINTR", "EACCES", "0"} : MoveFails(e)
    \/ MoveNothing \/ MoveTooMuch

TransferSpec == TransferInit /\ [][TransferNext]_transferVars

----------------------------------------------------------------------------

\* Where slice k starts in the block.
StartOf(k) == Sums([i \in DOMAIN slices |-> slices[i].size])[k - 1]

\* What was moved, at any moment and after any interruption, is exactly the
\* bytes below the reported offset: each once, from or to its own place in its
\* own document.  Success means all of the block, an error is never reported
\* as success, and no descriptor is left open.
TransferExact ==
    /\ moved = {<<StartOf(x[1]) + x[2], x[1], x[2]>> : x \in
                  {y \in (1..Len(slices)) \X (0..MaxSize) :
                       /\ ~slices[y[1]].pad /\ y[2] < slices[y[1]].size
                       /\ StartOf(y[1]) + y[2] < offset}}
    /\ phase = "done" =>
         /\ own = 0
         /\ result = "ok" => offset = StartOf(Len(slices) + 1)
         /\ (kind = "entropy" /\ result # "ok") => errno = result
=============================================================================
