------------------------------ MODULE JobLimit ------------------------------
(***************************************************************************)
(* limit_build_jobs() of recipes/conan-utils/all/src/limit_jobs.py: the    *)
(* cap on the parallel jobs of a build that a recipe asks for before a     *)
(* memory-hungry target, possibly several times in one build() (libtorch   *)
(* does so four times).  The python_requires module is loaded once per     *)
(* Conan process, so its global _max_jobs_original is shared by every      *)
(* recipe the process builds, while "tools.build:jobs" belongs to the      *)
(* configuration of one recipe.                                            *)
(*                                                                         *)
(* Memory is abstracted to what the code compares: fit is                  *)
(* floor(free memory / memory per job), read anew by every call.           *)
(***************************************************************************)
EXTENDS Naturals

CONSTANTS
    Recipes,        \* the recipes one Conan process builds
    ConfiguredJobs, \* what build_jobs(conanfile) returns for an untouched recipe
    MaxFit          \* bound: the largest number of jobs the memory is said to hold

ASSUME ConfiguredJobsAssumption == ConfiguredJobs \in [Recipes -> Nat \ {0}]
ASSUME MaxFitAssumption == MaxFit \in Nat

(* Python's None as the value of _max_jobs_original, which is falsy like 0. *)
NotCached == 0

VARIABLES
    maxJobsOriginal,  \* the module global _max_jobs_original
    jobs,             \* jobs[r]: "tools.build:jobs" of recipe r, or its default
    fitted,           \* fitted[r]: max_jobs of the last call made by r, 0 if none
    building,         \* recipes whose build() has been entered
    finished          \* recipes whose build() has returned

vars == <<maxJobsOriginal, jobs, fitted, building, finished>>

Recent == building \ finished

(* Mutant of MaxJobs: the floor of one job forgotten. *)
MaxJobsNoFloor(fit) == fit

(* max(math.floor(mem_free_gb / gb_mem_per_job), 1) *)
MaxJobs(fit) == IF fit < 1 THEN 1 ELSE fit

(* _max_jobs_original or int(build_jobs(conanfile)) *)
OriginalFor(r) == IF maxJobsOriginal # NotCached THEN maxJobsOriginal ELSE jobs[r]

(* Mutant of LimitedJobs: the comparison off by one. *)
LimitedJobsOffByOne(r, maxJobs) ==
    IF OriginalFor(r) > maxJobs + 1 THEN maxJobs ELSE jobs[r]

(* Mutant of LimitedJobs: defined whether or not it is a limit. *)
LimitedJobsAlways(r, maxJobs) == maxJobs

(* What "tools.build:jobs" of r becomes when at most maxJobs fit. *)
LimitedJobs(r, maxJobs) == IF OriginalFor(r) > maxJobs THEN maxJobs ELSE jobs[r]

Init ==
    /\ maxJobsOriginal = NotCached
    /\ jobs = ConfiguredJobs
    /\ fitted = [r \in Recipes |-> 0]
    /\ building = {}
    /\ finished = {}

(* Conan enters build() of one recipe at a time. *)
StartBuild(r) ==
    /\ Recent = {}
    /\ r \notin building
    /\ building' = building \cup {r}
    /\ UNCHANGED <<maxJobsOriginal, jobs, fitted, finished>>

LimitBuildJobs(r, fit) ==
    /\ r \in Recent
    /\ maxJobsOriginal' = OriginalFor(r)
    /\ jobs' = [jobs EXCEPT ![r] = LimitedJobs(r, MaxJobs(fit))]
    /\ fitted' = [fitted EXCEPT ![r] = MaxJobs(fit)]
    /\ UNCHANGED <<building, finished>>

FinishBuild(r) ==
    /\ r \in Recent
    /\ finished' = finished \cup {r}
    /\ UNCHANGED <<maxJobsOriginal, jobs, fitted, building>>

Next ==
    \E r \in Recipes :
        \/ StartBuild(r)
        \/ \E fit \in 0..MaxFit : LimitBuildJobs(r, fit)
        \/ FinishBuild(r)

Spec == Init /\ [][Next]_vars
-----------------------------------------------------------------------------
(* The state has its types; no recipe is ever told to build with 0 jobs,   *)
(* not even when _get_free_memory_gb() fails and returns 0.                *)
TypeOK ==
    /\ maxJobsOriginal \in Nat
    /\ jobs \in [Recipes -> Nat \ {0}]
    /\ fitted \in [Recipes -> Nat]
    /\ building \subseteq Recipes
    /\ finished \subseteq building

(* Every recipe of the process is configured with the same number of jobs. *)
UniformlyConfigured ==
    \A r, s \in Recipes : ConfiguredJobs[r] = ConfiguredJobs[s]

(* What the shared global means while the recipes agree: it is unset until *)
(* the first call and the common configured value from then on.            *)
OriginalIsConfigured ==
    /\ maxJobsOriginal = NotCached =>
          /\ jobs = ConfiguredJobs
          /\ \A r \in Recipes : fitted[r] = 0
    /\ maxJobsOriginal # NotCached =>
          \A r \in Recipes : maxJobsOriginal = ConfiguredJobs[r]

(* "Limit the number of build jobs based on available memory": after a     *)
(* call, and however many came before it, the recipe that made it builds   *)
(* with no more jobs than its memory held at that call.                    *)
JobsFitMemory == \A r \in Recipes : fitted[r] # 0 => jobs[r] <= fitted[r]

(* A limit only ever lowers: no sequence of calls, by this recipe or by    *)
(* those built before it, makes a recipe use more jobs than configured.    *)
NeverAboveConfigured == \A r \in Recipes : jobs[r] <= ConfiguredJobs[r]

(* Both limits hold after any sequence of calls: what one call relies on   *)
(* to keep the first must not lift the second.                             *)
LimitIsSound == JobsFitMemory /\ NeverAboveConfigured
=============================================================================
