----------------------------- MODULE PrefixSums -----------------------------
(* Sums of sizes: of the slices of a block, the files of a torrent, the pieces *)
(* of a file.                                                                   *)
EXTENDS Integers, Sequences

\* Sums(v)[k] is the sum of the first k elements of v.
Sums(v) == LET sum[k \in 0..Len(v)] == IF k = 0 THEN 0 ELSE sum[k - 1] + v[k]
           IN  sum
=============================================================================
