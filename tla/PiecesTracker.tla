---------------------------- MODULE PiecesTracker ----------------------------
(***************************************************************************)
(* PiecesTracker (org/libtorrent4j/PiecesTracker.java): which pieces of a  *)
(* torrent are complete, and how far each file can be played from its      *)
(* beginning.  Files share the pieces at their borders, and may be empty.  *)
(***************************************************************************)
EXTENDS PrefixSums, FiniteSetsExt

CONSTANTS
    PieceLength,
    MaxFiles, MaxFileSize    \* bounds on a torrent's layout

ASSUME TrackerAssumption ==
    PieceLength \in Nat \ {0} /\ MaxFiles \in Nat /\ MaxFileSize \in Nat

VARIABLES
    layout,     \* the sizes of the torrent's files; <<>> before it is known
    files,      \* files[f]: the pieces of file f
    sizes,      \* sizes[f]: how much of file f each of them holds
    complete    \* the complete pieces

trackerVars == <<layout, files, sizes, complete>>

\* Where a file starts in the torrent.
Offset(l, f) == Sums(l)[f - 1]
Total(l) == Offset(l, Len(l) + 1)
NumPieces(l) == (Total(l) + PieceLength - 1) \div PieceLength
Smaller(a, b) == IF a < b THEN a ELSE b
Larger(a, b) == IF a < b THEN b ELSE a

\* TorrentInfo.mapFile(): division in the library truncates, so one before the
\* torrent's first byte is in piece 0.
MapFile(l, f, pos) ==
    LET byte == Offset(l, f) + pos
    IN  IF byte >= Total(l) THEN NumPieces(l) ELSE Larger(byte, 0) \div PieceLength

\* TorrentInfo.mapBlock(): the size of file f's slice of piece p, if it has one.
SliceOf(l, p, f) ==
    Larger(0, Smaller((p + 1) * PieceLength, Offset(l, f + 1))
              - Larger(p * PieceLength, Offset(l, f)))

TrackerInit == layout = <<>> /\ files = <<>> /\ sizes = <<>> /\ complete = {}

\* The constructor.
Track(l) ==
    LET first(f) == MapFile(l, f, 0)
        slices(f) == MapFile(l, f, l[f] - 1) - first(f) + 1
    IN  /\ Total(l) > 0
        /\ layout' = l
        /\ files' = [f \in DOMAIN l |-> [i \in 1..slices(f) |-> first(f) + i - 1]]
        /\ sizes' = [f \in DOMAIN l |-> [i \in 1..slices(f) |-> SliceOf(l, first(f) + i - 1, f)]]
        /\ complete' = {}

\* setComplete()
SetComplete(p, done) ==
    /\ complete' = IF done THEN complete \cup {p} ELSE complete \ {p}
    /\ UNCHANGED <<layout, files, sizes>>

TrackerNext ==
    \/ /\ layout = <<>>
       /\ \E m \in 1..MaxFiles : \E l \in [1..m -> 0..MaxFileSize] : Track(l)
    \/ /\ layout # <<>>
       /\ \E p \in 0..(NumPieces(layout) - 1), done \in BOOLEAN : SetComplete(p, done)

TrackerSpec == TrackerInit /\ [][TrackerNext]_trackerVars

----------------------------------------------------------------------------

\* getSequentialDownloadedPieces(): up to the first that is not complete.
SequentialPieces(f) ==
    LET missing == {i \in DOMAIN files[f] : files[f][i] \notin complete}
    IN  IF missing = {} THEN Len(files[f]) ELSE Min(missing) - 1

\* Wrong on purpose: the loop goes on behind a piece that is missing.
SequentialBytesAll(f) ==
    Sums([i \in DOMAIN files[f] |-> IF files[f][i] \in complete THEN sizes[f][i] ELSE 0])
        [Len(files[f])]

\* getSequentialDownloadedBytes()
SequentialBytes(f) == Sums(sizes[f])[SequentialPieces(f)]

\* A player may read a file up to the reported length and no further: it is the
\* longest beginning of the file whose bytes are all in complete pieces, also
\* for files that share pieces, end in the middle of one, or are empty.
SequentialIsPlayable ==
    \A f \in DOMAIN layout :
        LET playable(k) == \A b \in 0..(k - 1) :
                               (Offset(layout, f) + b) \div PieceLength \in complete
        IN  SequentialBytes(f) = Max({k \in 0..layout[f] : playable(k)})
=============================================================================
