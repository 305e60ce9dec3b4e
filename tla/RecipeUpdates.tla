---------------------------- MODULE RecipeUpdates ----------------------------
(***************************************************************************)
(* The scripts that maintainers run again and again on recipes that an     *)
(* earlier invocation may have left half written.  They edit different     *)
(* recipes, and a maintainer works with one of them at a time.             *)
(***************************************************************************)
EXTENDS SuiteSparseUpdate, OneApiUpdate

VARIABLE script  \* the one that is run

updateVars == <<script, suiteSparseVars, oneApiVars>>

UpdateInit ==
    /\ script \in {"update_suitesparse.py", "update-oneapi.py"}
    /\ SuiteSparseInit
    /\ OneApiInit

UpdateNext ==
    /\ UNCHANGED script
    /\ \/ /\ script = "update_suitesparse.py"
          /\ SuiteSparseNext
          /\ UNCHANGED oneApiVars
       \/ /\ script = "update-oneapi.py"
          /\ OneApiNext
          /\ UNCHANGED suiteSparseVars

UpdateSpec == UpdateInit /\ [][UpdateNext]_updateVars
-----------------------------------------------------------------------------
(* The state of both scripts has its types. *)
UpdateTypeOK ==
    /\ script \in {"update_suitesparse.py", "update-oneapi.py"}
    /\ SuiteSparseTypeOK
    /\ OneApiTypeOK
=============================================================================
