--------------------------- MODULE ModuleSelection ---------------------------
(* What choosing Boost modules promises, without how it is done: from the  *)
(* requested modules, one step to the smallest set that contains them and  *)
(* is closed under Needs, where Needs[m] are the modules that cannot be    *)
(* left out when m is built.                                               *)
CONSTANTS
    Available,  \* the modules there are
    Needs       \* Needs[m], a subset of Available for every module m

VARIABLES requested, selected, settled

vars == <<requested, selected, settled>>

Closed(S) == \A m \in S : Needs[m] \subseteq S

Least(R) ==
    {m \in Available :
        \A S \in SUBSET Available : R \subseteq S /\ Closed(S) => m \in S}

Init ==
    /\ requested \in SUBSET Available
    /\ selected = {}
    /\ settled = FALSE

Settle ==
    /\ ~settled
    /\ settled' = TRUE
    /\ selected' = Least(requested)
    /\ UNCHANGED requested

Spec == Init /\ [][Settle]_vars
=============================================================================
