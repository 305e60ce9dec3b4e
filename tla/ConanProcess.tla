---------------------------- MODULE ConanProcess ----------------------------
(***************************************************************************)
(* One Conan process that builds a graph of recipes with the two packages  *)
(* of python_requires whose state it keeps: conan-cuda, which the recipes  *)
(* use from requirements() to package(), and limit_build_jobs() of         *)
(* conan-utils, which some of them call in build().  One recipe is built   *)
(* after the other.                                                        *)
(***************************************************************************)
EXTENDS JobLimit, CudaInterface

ASSUME LimitedRecipesAssumption == Recipes \subseteq CudaRecipes

processVars == <<vars, cudaVars>>

ProcessInit == Init /\ CudaInit

(* Before build() Conan calls generate(), which may fail. *)
EnterBuild(r) ==
    /\ CanBuild(r)
    /\ BuildOutcome(r, TRUE) = "ok"
    /\ StartBuild(r)
    /\ UNCHANGED cudaVars

LeaveBuild(r) ==
    /\ FinishBuild(r)
    /\ BuildSucceeds(r)

Prepare ==
    /\ \/ CompleteGraph
       \/ DecideToBuild
       \/ \E r \in CudaRecipes :
             \/ CallRequirements(r)
             \/ \E reachable \in BOOLEAN : CallValidate(r, reachable)
    /\ UNCHANGED vars

Build ==
    /\ Recent = {}
    /\ \/ \E r \in CudaRecipes \ Recipes : BuildSucceeds(r)
       \/ \E r \in CudaRecipes, reachable \in BOOLEAN : BuildFails(r, reachable)
    /\ UNCHANGED vars

ProcessNext ==
    \/ Prepare
    \/ Build
    \/ \E r \in Recipes :
          \/ EnterBuild(r)
          \/ \E fit \in 0..MaxFit : LimitBuildJobs(r, fit) /\ UNCHANGED cudaVars
          \/ LeaveBuild(r)

ProcessSpec == ProcessInit /\ [][ProcessNext]_processVars
-----------------------------------------------------------------------------
(* The state of both packages has its types. *)
ProcessTypeOK == TypeOK /\ CudaTypeOK
=============================================================================
