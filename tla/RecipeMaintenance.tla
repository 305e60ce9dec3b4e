-------------------------- MODULE RecipeMaintenance --------------------------
(***************************************************************************)
(* What a maintainer expects of a script that adds new versions to the     *)
(* recipes: it works on one recipe at a time, it may be stopped or give up *)
(* at any point, and when it says that it is done every version it was to  *)
(* provide can be fetched.  Nothing changes while it does not run.         *)
(***************************************************************************)
CONSTANTS Recipes, Versions

VARIABLES
    status,   \* "idle" before the first invocation, "running", or its result
    wanted,   \* wanted[p]: the versions that the recipe p is to provide
    complete  \* complete[p]: those it offers and has sources for

vars == <<status, wanted, complete>>

PerRecipe == [Recipes -> SUBSET Versions]

Init ==
    /\ status = "idle"
    /\ wanted \in PerRecipe
    /\ complete \in PerRecipe

Begin ==
    /\ status # "running"
    /\ status' = "running"
    /\ wanted' \in PerRecipe
    /\ UNCHANGED complete

(* Any change of one recipe, for the better or, on the way, the worse; how *)
(* many versions it is to provide may turn out now.                        *)
Edit(p) ==
    /\ status = "running"
    /\ wanted' \in PerRecipe
    /\ complete' \in PerRecipe
    /\ \A q \in Recipes \ {p} :
          wanted'[q] = wanted[q] /\ complete'[q] = complete[q]
    /\ UNCHANGED status

Finish ==
    /\ status = "running"
    /\ \A p \in Recipes : wanted[p] \subseteq complete[p]
    /\ status' = "done"
    /\ UNCHANGED <<wanted, complete>>

GiveUp ==
    /\ status = "running"
    /\ status' = "stopped"
    /\ UNCHANGED <<wanted, complete>>

Next == Begin \/ Finish \/ GiveUp \/ \E p \in Recipes : Edit(p)

Spec == Init /\ [][Next]_vars
=============================================================================
