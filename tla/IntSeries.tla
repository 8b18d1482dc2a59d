------------------------------ MODULE IntSeries ------------------------------
(***************************************************************************)
(* The circular buffer of samples behind TorrentStats                      *)
(* (org/libtorrent4j/IntSeries.java): add, get and size over the fields    *)
(* buffer, head, end and size, with every added value kept aside to        *)
(* compare with.                                                           *)
(***************************************************************************)
EXTENDS Integers, Sequences

CONSTANTS
    Capacity,   \* buffer.length
    Values,     \* samples
    MaxAdds     \* bound on the number of samples added

ASSUME SeriesAssumption == Capacity \in Nat \ {0} /\ MaxAdds \in Nat /\ Values \subseteq Int

VARIABLES
    buffer, head, end, size,   \* the fields
    added                      \* history: every sample, oldest first

seriesVars == <<buffer, head, end, size, added>>

SeriesInit ==
    /\ buffer = [i \in 0..(Capacity - 1) |-> 0]
    /\ head = -1 /\ end = -1 /\ size = 0
    /\ added = <<>>

AddFirst(v) ==
    /\ head = -1
    /\ head' = 0 /\ end' = 0 /\ size' = 1
    /\ buffer' = [buffer EXCEPT ![0] = v]

\* Wrong on purpose: the head moves one step late.
HeadLate(e) == IF e < head THEN (head + 1) % Capacity ELSE head

\* The slot after the last one.
NextEnd == (end + 1) % Capacity

\* The oldest sample is given up when its slot was reused.
NextHead(e) == IF e <= head THEN (head + 1) % Capacity ELSE head

AddMore(v) ==
    /\ head # -1
    /\ end' = NextEnd
    /\ buffer' = [buffer EXCEPT ![end'] = v]
    /\ head' = NextHead(end')
    /\ size' = IF head' <= end' THEN 1 + (end' - head') ELSE Capacity

Add(v) ==
    /\ Len(added) < MaxAdds
    /\ AddFirst(v) \/ AddMore(v)
    /\ added' = Append(added, v)

SeriesNext == \E v \in Values : Add(v)

SeriesSpec == SeriesInit /\ [][SeriesNext]_seriesVars

----------------------------------------------------------------------------

\* get(index), for a series that is not empty.
Get(i) == buffer[(head + i) % size]

\* The series is the window of the latest samples, oldest first: get(i) agrees
\* with them for every i below size(), wherever the buffer has wrapped around.
SeriesIsWindow ==
    /\ size = IF Len(added) < Capacity THEN Len(added) ELSE Capacity
    /\ \A i \in 0..(size - 1) : Get(i) = added[Len(added) - size + 1 + i]
=============================================================================
