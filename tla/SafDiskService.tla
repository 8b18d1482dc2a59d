--------------------------- MODULE SafDiskService ---------------------------
(***************************************************************************)
(* What libtorrent's disk_interface asks of a disk back end, seen from the *)
(* session: it makes requests, numbered in order; each is answered once,   *)
(* at once or later; the back end closes only when it owes no answer, and  *)
(* a closed back end answers every request at once.                        *)
(***************************************************************************)
CONSTANT Requests   \* every request the session may make

VARIABLES
    outstanding,  \* requests that wait for their answer
    answered,     \* requests that were answered
    open          \* the back end has not been closed

vars == <<outstanding, answered, open>>

Init == outstanding = {} /\ answered = {} /\ open = TRUE

\* A new request: one that was not made before.
IsNew(r) == r \notin outstanding \cup answered

Ask(r) ==
    /\ open /\ IsNew(r)
    /\ outstanding' = outstanding \cup {r}
    /\ UNCHANGED <<answered, open>>

AnswerAtOnce(r) ==
    /\ IsNew(r)
    /\ answered' = answered \cup {r}
    /\ UNCHANGED <<outstanding, open>>

Answer(r) ==
    /\ r \in outstanding
    /\ outstanding' = outstanding \ {r}
    /\ answered' = answered \cup {r}
    /\ UNCHANGED open

Close ==
    /\ open /\ outstanding = {}
    /\ open' = FALSE
    /\ UNCHANGED <<outstanding, answered>>

Next ==
    \/ \E r \in Requests : Ask(r) \/ AnswerAtOnce(r) \/ Answer(r)
    \/ Close

Spec == Init /\ [][Next]_vars
=============================================================================
