-------------------------- MODULE MCSessionManager --------------------------
(* SessionManager: a behaviour follows its lifecycle or the fetches of one   *)
(* magnet link, which take the native session as given; the other rests in   *)
(* its initial state.                                                        *)
EXTENDS SessionLifecycle, FetchMagnet

CONSTANTS c1, c2, c3, f1, f2

ManagerVars == <<vars, magnetVars>>

ManagerInit == Init /\ FetchInit

ManagerNext ==
    \/ FetchInit /\ UNCHANGED magnetVars /\ Next
    \/ Init /\ UNCHANGED vars /\ FetchNext

ManagerSpec == ManagerInit /\ [][ManagerNext]_ManagerVars

\* The fairness of the two.
ManagerFairSpec ==
    /\ ManagerSpec
    /\ \A c \in Callers : WF_ManagerVars(FetchInit /\ UNCHANGED magnetVars /\ Progress(c))
    /\ \A g \in Sessions : WF_ManagerVars(FetchInit /\ UNCHANGED magnetVars /\ Loop(g))
    /\ \A f \in Fetchers : WF_ManagerVars(Init /\ UNCHANGED vars /\ Fetch(f))
=============================================================================
