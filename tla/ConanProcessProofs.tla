------------------------- MODULE ConanProcessProofs -------------------------
(* Proofs about one Conan process, for every graph of recipes, everything  *)
(* that NVIDIA may have published and every configuration.                 *)
EXTENDS ConanProcess, NumberLemmas

(***************************************************************************)
(* limit_build_jobs().  The two limits hold when all recipes are           *)
(* configured alike; without that assumption TLC refutes both.             *)
(***************************************************************************)

(* The inductive invariant: a limit is judged by the global, so the global *)
(* must be known to equal the configured value, and a recipe left alone    *)
(* must be known to be within it.                                          *)
LimitInv ==
    /\ TypeOK
    /\ OriginalIsConfigured
    /\ NeverAboveConfigured
    /\ JobsFitMemory

LEMMA MaxJobsPositive ==
    ASSUME NEW fit \in Nat
    PROVE  MaxJobs(fit) \in Nat \ {0}
BY DEF MaxJobs

LEMMA LimitInvInit == Init => LimitInv
BY ConfiguredJobsAssumption
DEF Init, LimitInv, TypeOK, OriginalIsConfigured, NeverAboveConfigured,
    JobsFitMemory, NotCached

(* TypeOK needs no agreement between the recipes. *)
LEMMA TypeStep == TypeOK /\ [Next]_vars => TypeOK'
<1> SUFFICES ASSUME TypeOK, [Next]_vars PROVE TypeOK'
  OBVIOUS
<1>1. ASSUME NEW r \in Recipes, StartBuild(r) PROVE TypeOK'
  BY <1>1 DEF TypeOK, StartBuild
<1>2. ASSUME NEW r \in Recipes, NEW fit \in 0..MaxFit, LimitBuildJobs(r, fit)
      PROVE  TypeOK'
  <2>1. MaxJobs(fit) \in Nat \ {0}
    BY MaxJobsPositive, MaxFitAssumption
  <2>2. OriginalFor(r) \in Nat \ {0}
    BY DEF TypeOK, OriginalFor, NotCached
  <2>3. LimitedJobs(r, MaxJobs(fit)) \in Nat \ {0}
    BY <2>1 DEF LimitedJobs, TypeOK
  <2> QED
    BY <1>2, <2>1, <2>2, <2>3 DEF TypeOK, LimitBuildJobs
<1>3. ASSUME NEW r \in Recipes, FinishBuild(r) PROVE TypeOK'
  BY <1>3 DEF TypeOK, FinishBuild, Recent
<1>4. CASE UNCHANGED vars
  BY <1>4 DEF TypeOK, vars
<1> QED
  BY <1>1, <1>2, <1>3, <1>4 DEF Next

LEMMA LimitInvStep ==
    UniformlyConfigured /\ LimitInv /\ [Next]_vars => LimitInv'
<1> SUFFICES ASSUME UniformlyConfigured, LimitInv, [Next]_vars
             PROVE  LimitInv'
  OBVIOUS
<1> USE DEF LimitInv
<1>0. TypeOK'
  BY TypeStep
<1>1. ASSUME NEW r \in Recipes, StartBuild(r) PROVE LimitInv'
  BY <1>0, <1>1 DEF StartBuild, OriginalIsConfigured, NeverAboveConfigured,
     JobsFitMemory
<1>2. ASSUME NEW r \in Recipes, NEW fit \in 0..MaxFit, LimitBuildJobs(r, fit)
      PROVE  LimitInv'
  <2> DEFINE m == MaxJobs(fit)
  <2>1. m \in Nat \ {0}
    BY MaxJobsPositive, MaxFitAssumption
  <2>2. OriginalFor(r) = ConfiguredJobs[r]
    BY DEF OriginalFor, OriginalIsConfigured
  <2>3. ConfiguredJobs[r] \in Nat \ {0} /\ jobs[r] \in Nat \ {0}
    BY ConfiguredJobsAssumption DEF TypeOK
  <2>4. LimitedJobs(r, m) <= m /\ LimitedJobs(r, m) <= ConfiguredJobs[r]
    <3> HIDE DEF m
    <3> QED
      BY <2>1, <2>2, <2>3 DEF LimitedJobs, NeverAboveConfigured
  <2>5. OriginalIsConfigured'
    <3>1. maxJobsOriginal' = ConfiguredJobs[r]
      BY <1>2, <2>2 DEF LimitBuildJobs
    <3>2. \A s \in Recipes : maxJobsOriginal' = ConfiguredJobs[s]
      BY <3>1 DEF UniformlyConfigured
    <3>3. maxJobsOriginal' # NotCached
      BY <3>1, <2>3 DEF NotCached
    <3> QED
      BY <3>2, <3>3 DEF OriginalIsConfigured
  <2>6. NeverAboveConfigured'
    BY <1>2, <2>4 DEF LimitBuildJobs, NeverAboveConfigured, TypeOK
  <2>7. JobsFitMemory'
    BY <1>2, <2>4 DEF LimitBuildJobs, JobsFitMemory, TypeOK
  <2> QED
    BY <1>0, <2>5, <2>6, <2>7
<1>3. ASSUME NEW r \in Recipes, FinishBuild(r) PROVE LimitInv'
  BY <1>0, <1>3 DEF FinishBuild, OriginalIsConfigured, NeverAboveConfigured,
     JobsFitMemory
<1>4. CASE UNCHANGED vars
  BY <1>0, <1>4 DEF vars, OriginalIsConfigured, NeverAboveConfigured,
     JobsFitMemory
<1> QED
  BY <1>1, <1>2, <1>3, <1>4 DEF Next

(* Every step of the process is one of JobLimit, or leaves it alone. *)
LEMMA ProcessLimits == [ProcessNext]_processVars => [Next]_vars
BY DEF ProcessNext, processVars, Prepare, Build, EnterBuild, LeaveBuild, Next

LEMMA LimitTypes == ProcessSpec => []TypeOK
<1>1. ProcessInit => TypeOK
  BY LimitInvInit DEF ProcessInit, LimitInv
<1> QED
  BY <1>1, TypeStep, ProcessLimits, PTL DEF ProcessSpec

(* When the recipes of a process are configured alike, a recipe builds     *)
(* with no more jobs than its last call to limit_build_jobs() found room   *)
(* for, and never with more than configured: sharing _max_jobs_original is *)
(* then harmless.                                                          *)
THEOREM UniformLimitIsSound ==
    ASSUME UniformlyConfigured
    PROVE  ProcessSpec => []LimitIsSound
<1>1. LimitInv /\ [Next]_vars => LimitInv'
  BY LimitInvStep
<1>2. LimitInv => LimitIsSound
  BY DEF LimitInv, LimitIsSound
<1>3. ProcessInit => LimitInv
  BY LimitInvInit DEF ProcessInit
<1> QED
  BY <1>1, <1>2, <1>3, ProcessLimits, PTL DEF ProcessSpec

(***************************************************************************)
(* conan-cuda                                                              *)
(***************************************************************************)

(* What an accepted call has found, which depends on the request alone.    *)
Passed(r, c) ==
    CASE c.method = "validate_package" -> PackageOutcome(r, c.package, TRUE) = "ok"
      [] c.method = "validate_settings" -> ToolchainOutcome = "ok"
      [] c.method = "check_min_cuda_architecture" -> CheckMinOutcome(c.minimum) = "ok"
      [] c.method = "require_shared_deps" ->
            c.dependencies \cap Dependencies[r] \cap request.static = {}
      [] c.method = "get_platform_id" -> PlatformId \notin {"", "invalid"}

Accepted(r) == \A i \in DOMAIN Calls(r) : Passed(r, Calls(r)[i])

(* A recipe whose Interface has been made in this process. *)
Used(p) ==
    \/ p \in expanded /\ Hooks[p].requirements # {}
    \/ verdict[p] # "" /\ Calls(p) # <<>>

(* The inductive invariant: what recipes have accepted stays so, and the   *)
(* first one that enables the private methods has done so for all.         *)
CudaInv ==
    /\ CudaTypeOK
    /\ \A r \in CudaRecipes : _public_methods \subseteq methods[r]
    /\ \A p \in Private : Used(p) =>
          \A r \in CudaRecipes : _private_methods \subseteq methods[r]
    /\ \A r \in CudaRecipes : verdict[r] # "" => r \in expanded
    /\ \A r \in CudaRecipes : verdict[r] \in {"valid", "built"} => Accepted(r)
    /\ stage = "build" => \A r \in expanded : verdict[r] \in {"valid", "built"}

LEMMA RequestFacts ==
    ASSUME CudaTypeOK
    PROVE  /\ request.roots \subseteq CudaRecipes
           /\ CudaMajor \in Nat
           /\ settings.architectures \in
                Seq([name : STRING, number : Nat, digits : BOOLEAN,
                     letter : BOOLEAN, suffix : STRING])
           /\ \A r \in CudaRecipes : Url(r) \in DOMAIN Manifests
BY CudaAssumption DEF CudaTypeOK, settings, CudaMajor, Url, Version

LEMMA HookFacts ==
    ASSUME NEW r \in CudaRecipes
    PROVE  /\ Calls(r) \in Seq([method : ValidateMethods, package : STRING,
                                minimum : Nat, dependencies : SUBSET STRING])
           /\ Hooks[r].downloads \in Seq(STRING \X STRING)
           /\ DOMAIN Calls(r) \subseteq Nat
           /\ \A i \in DOMAIN Calls(r) :
                 Calls(r)[i].method \in ValidateMethods /\ Calls(r)[i].minimum \in Nat
<1> DEFINE C == [method : ValidateMethods, package : STRING,
                 minimum : Nat, dependencies : SUBSET STRING]
<1>1. Calls(r) \in Seq(C) /\ Hooks[r].downloads \in Seq(STRING \X STRING)
  BY CudaAssumption DEF Calls
<1>2. DOMAIN Calls(r) \subseteq Nat /\ \A i \in DOMAIN Calls(r) : Calls(r)[i] \in C
  <2> HIDE DEF C
  <2> QED
    BY <1>1
<1> QED
  BY <1>1, <1>2

LEMMA MethodsType ==
    ASSUME CudaTypeOK, NEW r \in CudaRecipes
    PROVE  /\ MethodsAfter(r) \in [CudaRecipes -> SUBSET Methods]
           /\ \A q \in CudaRecipes : methods[q] \subseteq MethodsAfter(r)[q]
           /\ r \in Private => \A q \in CudaRecipes :
                 _private_methods \subseteq MethodsAfter(r)[q]
BY DEF CudaTypeOK, MethodsAfter, Methods

(* FirstOutcome() is one of the outcomes, and "ok" if all are.             *)
LEMMA FirstOutcomeIsOne ==
    ASSUME NEW outcomes, DOMAIN outcomes \subseteq Nat
    PROVE  /\ FirstOutcome(outcomes) # "ok" =>
                 \E i \in DOMAIN outcomes :
                     /\ outcomes[i] # "ok"
                     /\ FirstOutcome(outcomes) = outcomes[i]
           /\ FirstOutcome(outcomes) = "ok" =>
                 \A i \in DOMAIN outcomes : outcomes[i] = "ok"
<1> DEFINE bad == {i \in DOMAIN outcomes : outcomes[i] # "ok"}
<1>1. CASE bad = {}
  BY <1>1 DEF FirstOutcome
<1>2. CASE bad # {}
  <2> DEFINE first == CHOOSE i \in bad : \A j \in bad : i <= j
  <2>1. \E i \in bad : \A j \in bad : i <= j
    <3>1. bad \in SUBSET Nat
      OBVIOUS
    <3> HIDE DEF bad
    <3> QED
      BY <1>2, <3>1, HasMinimum
  <2>2. first \in bad
    <3> HIDE DEF bad
    <3> QED
      BY <2>1
  <2>3. FirstOutcome(outcomes) = outcomes[first]
    BY <1>2 DEF FirstOutcome
  <2> QED
    BY <2>2, <2>3
<1> QED
  BY <1>1, <1>2

(* An exchange of the cache leaves the information on a package as it is,  *)
(* if the network is there. *)
LEMMA InfoStays ==
    ASSUME request' = request, NEW r, NEW package
    PROVE  InfoOutcome(r, package, TRUE)' = InfoOutcome(r, package, TRUE)
BY DEF InfoOutcome, Url, Version, Package

LEMMA PlatformStays ==
    ASSUME request' = request
    PROVE  /\ settings' = settings
           /\ PlatformId' = PlatformId
           /\ CudaMajor' = CudaMajor
BY DEF PlatformId, CudaMajor, settings

LEMMA PackageStays ==
    ASSUME request' = request, NEW r, NEW package
    PROVE  PackageOutcome(r, package, TRUE)' = PackageOutcome(r, package, TRUE)
<1>1. Package(r, package)' = Package(r, package) /\ Version(r)' = Version(r)
  BY DEF Package, Url, Version
<1>2. Platforms(r, package)' = Platforms(r, package)
  BY <1>1 DEF Platforms
<1> QED
  BY <1>1, <1>2, InfoStays, PlatformStays DEF PackageOutcome

LEMMA ToolchainStays ==
    ASSUME request' = request
    PROVE  ToolchainOutcome' = ToolchainOutcome
<1>1. \A a : FlagOutcome(a)' = FlagOutcome(a)
  BY PlatformStays DEF FlagOutcome
<1> DEFINE outcomes == [i \in DOMAIN settings.architectures |-> FlagOutcome(settings.architectures[i])]
<1>2. outcomes' = outcomes
  BY <1>1, PlatformStays
<1>3. FirstOutcome(outcomes)' = FirstOutcome(outcomes)
  <2> HIDE DEF outcomes
  <2> QED
    BY <1>2 DEF FirstOutcome
<1> QED
  BY <1>3, PlatformStays DEF ToolchainOutcome

LEMMA CheckMinStays ==
    ASSUME request' = request, NEW n
    PROVE  CheckMinOutcome(n)' = CheckMinOutcome(n)
<1>1. \A a : MinimumOutcome(a, n)' = MinimumOutcome(a, n)
  BY PlatformStays DEF MinimumOutcome
<1> DEFINE outcomes == [i \in DOMAIN settings.architectures |-> MinimumOutcome(settings.architectures[i], n)]
<1>2. outcomes' = outcomes
  BY <1>1, PlatformStays
<1>3. FirstOutcome(outcomes)' = FirstOutcome(outcomes)
  <2> HIDE DEF outcomes
  <2> QED
    BY <1>2 DEF FirstOutcome
<1> QED
  BY <1>3, PlatformStays DEF CheckMinOutcome

(* What is accepted stays so. *)
LEMMA AcceptedStays ==
    ASSUME request' = request, NEW r, Accepted(r)
    PROVE  Accepted(r)'
<1>1. \A c : Passed(r, c)' = Passed(r, c)
  BY PackageStays, ToolchainStays, CheckMinStays, PlatformStays DEF Passed
<1> QED
  BY <1>1 DEF Accepted, Calls

(* A package that is accepted from the cache is accepted. *)
LEMMA PackageFromCache ==
    ASSUME NEW r, NEW package, NEW reachable \in BOOLEAN,
           PackageOutcome(r, package, reachable) = "ok"
    PROVE  PackageOutcome(r, package, TRUE) = "ok"
BY DEF PackageOutcome, InfoOutcome

LEMMA CallPasses ==
    ASSUME NEW r \in CudaRecipes, NEW c, c.method \in ValidateMethods,
           NEW reachable \in BOOLEAN, CallOutcome(r, c, reachable) = "ok"
    PROVE  Passed(r, c)
BY PackageFromCache DEF CallOutcome, Passed, ValidateMethods

LEMMA ValidIsAccepted ==
    ASSUME NEW r \in CudaRecipes, NEW reachable \in BOOLEAN,
           ValidateOutcome(r, reachable) = "ok"
    PROVE  Accepted(r)
<1> DEFINE outcomes == [i \in DOMAIN Calls(r) |-> CallOutcome(r, Calls(r)[i], reachable)]
<1>1. DOMAIN outcomes \subseteq Nat
  BY HookFacts
<1>2. \A i \in DOMAIN outcomes : outcomes[i] = "ok"
  <2>1. FirstOutcome(outcomes) = "ok"
    BY DEF ValidateOutcome
  <2> HIDE DEF outcomes
  <2> QED
    BY <1>1, <2>1, FirstOutcomeIsOne
<1> QED
  BY <1>2, HookFacts, CallPasses DEF Accepted

LEMMA CudaInvInit == CudaInit => CudaInv
BY CudaAssumption DEF CudaInit, CudaInv, CudaTypeOK, Methods, Used

(* What the process does with conan-cuda. *)
CudaStep ==
    \/ CompleteGraph
    \/ DecideToBuild
    \/ \E r \in CudaRecipes :
          \/ CallRequirements(r)
          \/ \E reachable \in BOOLEAN : CallValidate(r, reachable) \/ BuildFails(r, reachable)
          \/ BuildSucceeds(r)

LEMMA ProcessSteps == [ProcessNext]_processVars => CudaStep \/ UNCHANGED cudaVars
BY LimitedRecipesAssumption
DEF ProcessNext, processVars, Prepare, Build, EnterBuild, LeaveBuild, CudaStep

LEMMA CacheType ==
    ASSUME CudaTypeOK, NEW r \in CudaRecipes, NEW fetches, NEW reachable
    PROVE  CacheAfter(r, fetches, reachable) \subseteq DOMAIN Manifests
BY RequestFacts DEF CacheAfter, CudaTypeOK

(* The methods only grow, and to all private ones with a private recipe.   *)
LEMMA MethodsGrow ==
    ASSUME CudaInv, NEW r \in CudaRecipes, NEW uses \in BOOLEAN,
           methods' = (IF uses THEN MethodsAfter(r) ELSE methods),
           \A p \in CudaRecipes : Used(p)' => Used(p) \/ (p = r /\ uses)
    PROVE  /\ methods' \in [CudaRecipes -> SUBSET Methods]
           /\ \A q \in CudaRecipes : _public_methods \subseteq methods'[q]
           /\ \A p \in Private : Used(p)' =>
                 \A q \in CudaRecipes : _private_methods \subseteq methods'[q]
<1>1. methods \in [CudaRecipes -> SUBSET Methods] /\ Private \subseteq CudaRecipes
  BY CudaAssumption DEF CudaInv, CudaTypeOK
<1>2. methods' \in [CudaRecipes -> SUBSET Methods]
  BY <1>1, MethodsType DEF CudaInv
<1>3. \A q \in CudaRecipes : methods[q] \subseteq methods'[q]
  BY <1>1, MethodsType DEF CudaInv
<1>4. uses /\ r \in Private => \A q \in CudaRecipes : _private_methods \subseteq methods'[q]
  BY MethodsType DEF CudaInv
<1> QED
  BY <1>1, <1>2, <1>3, <1>4 DEF CudaInv

LEMMA RequirementsKeepInv ==
    ASSUME CudaInv, NEW r \in CudaRecipes, CallRequirements(r)
    PROVE  CudaInv'
<1> DEFINE uses == Hooks[r].requirements # {}
<1>1. \A p \in CudaRecipes : Used(p)' => Used(p) \/ (p = r /\ uses)
  BY DEF CallRequirements, Used, Calls
<1>2. methods' = (IF uses THEN MethodsAfter(r) ELSE methods)
  BY DEF CallRequirements
<1>3. /\ methods' \in [CudaRecipes -> SUBSET Methods]
      /\ \A q \in CudaRecipes : _public_methods \subseteq methods'[q]
      /\ \A p \in Private : Used(p)' =>
            \A q \in CudaRecipes : _private_methods \subseteq methods'[q]
  <2> HIDE DEF uses
  <2>1. uses \in BOOLEAN
    BY DEF uses
  <2> QED
    BY <1>1, <1>2, <2>1, MethodsGrow
<1>4. CudaTypeOK'
  BY <1>3 DEF CudaInv, CudaTypeOK, CallRequirements
<1>5. \A q \in CudaRecipes : verdict'[q] \in {"valid", "built"} => Accepted(q)'
  BY AcceptedStays DEF CudaInv, CallRequirements
<1> QED
  BY <1>3, <1>4, <1>5 DEF CudaInv, CallRequirements

LEMMA ValidateKeepsInv ==
    ASSUME CudaInv, NEW r \in CudaRecipes, NEW reachable \in BOOLEAN,
           CallValidate(r, reachable)
    PROVE  CudaInv'
<1> DEFINE uses == Calls(r) # <<>>
<1>0. /\ request' = request /\ expanded' = expanded /\ r \in expanded
      /\ stage = "validate" /\ stage' \in {"validate", "over"}
      /\ \/ verdict' = verdict
         \/ verdict' = [verdict EXCEPT ![r] = "invalid"]
         \/ verdict' = [verdict EXCEPT ![r] = "valid"] /\ ValidateOutcome(r, reachable) = "ok"
  BY DEF CallValidate, Fail
<1>1. \A p \in CudaRecipes : Used(p)' => Used(p) \/ (p = r /\ uses)
  BY <1>0 DEF Used, Calls, CudaInv, CudaTypeOK
<1>2. methods' = (IF uses THEN MethodsAfter(r) ELSE methods)
  BY DEF CallValidate
<1>3. /\ methods' \in [CudaRecipes -> SUBSET Methods]
      /\ \A q \in CudaRecipes : _public_methods \subseteq methods'[q]
      /\ \A p \in Private : Used(p)' =>
            \A q \in CudaRecipes : _private_methods \subseteq methods'[q]
  <2> HIDE DEF uses
  <2>1. uses \in BOOLEAN
    BY DEF uses
  <2> QED
    BY <1>1, <1>2, <2>1, MethodsGrow
<1>4. CudaTypeOK'
  <2>1. redistribCache' \subseteq DOMAIN Manifests
    BY CacheType DEF CallValidate, CudaInv
  <2> QED
    BY <1>0, <1>3, <2>1 DEF CudaInv, CudaTypeOK
<1>5. \A q \in CudaRecipes : verdict'[q] \in {"valid", "built"} => Accepted(q)'
  <2>1. \A q \in CudaRecipes : verdict'[q] \in {"valid", "built"} => Accepted(q)
    BY <1>0, ValidIsAccepted DEF CudaInv, CudaTypeOK
  <2> QED
    BY <1>0, <2>1, AcceptedStays
<1>6. \A q \in CudaRecipes : verdict'[q] # "" => q \in expanded'
  BY <1>0 DEF CudaInv, CudaTypeOK
<1> QED
  BY <1>0, <1>3, <1>4, <1>5, <1>6 DEF CudaInv

LEMMA BuildKeepsInv ==
    ASSUME CudaInv, NEW r \in CudaRecipes,
           BuildSucceeds(r) \/ \E reachable \in BOOLEAN : BuildFails(r, reachable)
    PROVE  CudaInv'
<1> DEFINE uses == Hooks[r].toolchain \/ Hooks[r].downloads # <<>>
<1>0. /\ request' = request /\ expanded' = expanded /\ verdict[r] = "valid"
      /\ \/ verdict' = [verdict EXCEPT ![r] = "built"] /\ stage' = stage
         \/ verdict' = verdict /\ stage' = "over"
      /\ methods' = MethodsBuilding(r)
      /\ redistribCache' \subseteq DOMAIN Manifests
  BY CacheType DEF BuildSucceeds, BuildFails, Fail, CanBuild, CudaInv, CudaTypeOK
<1>1. \A p \in CudaRecipes : Used(p)' => Used(p)
  BY <1>0 DEF Used, Calls, CudaInv, CudaTypeOK
<1>2. methods' = (IF uses THEN MethodsAfter(r) ELSE methods)
  BY <1>0 DEF MethodsBuilding
<1>3. /\ methods' \in [CudaRecipes -> SUBSET Methods]
      /\ \A q \in CudaRecipes : _public_methods \subseteq methods'[q]
      /\ \A p \in Private : Used(p)' =>
            \A q \in CudaRecipes : _private_methods \subseteq methods'[q]
  <2>1. CASE uses
    BY <1>1, <1>2, <2>1, MethodsGrow, TRUE \in BOOLEAN
  <2>2. CASE ~uses
    BY <1>1, <1>2, <2>2, MethodsGrow, FALSE \in BOOLEAN
  <2> QED
    BY <2>1, <2>2
<1>4. CudaTypeOK'
  BY <1>0, <1>3 DEF CudaInv, CudaTypeOK
<1>5. \A q \in CudaRecipes : verdict'[q] \in {"valid", "built"} => Accepted(q)'
  <2>1. \A q \in CudaRecipes : verdict'[q] \in {"valid", "built"} => Accepted(q)
    BY <1>0 DEF CudaInv, CudaTypeOK
  <2> QED
    BY <1>0, <2>1, AcceptedStays
<1>6. \A q \in CudaRecipes : verdict'[q] # "" => q \in expanded'
  BY <1>0 DEF CudaInv, CudaTypeOK
<1>7. stage' = "build" => \A q \in expanded' : verdict'[q] \in {"valid", "built"}
  BY <1>0 DEF CudaInv, CudaTypeOK
<1> QED
  BY <1>3, <1>4, <1>5, <1>6, <1>7 DEF CudaInv

LEMMA StageKeepsInv ==
    ASSUME CudaInv, CompleteGraph \/ DecideToBuild \/ UNCHANGED cudaVars
    PROVE  CudaInv'
<1>1. /\ request' = request /\ methods' = methods /\ redistribCache' = redistribCache
      /\ expanded' = expanded /\ verdict' = verdict
      /\ stage' \in {"requirements", "validate", "build", "over"}
      /\ stage' = "build" => \A r \in expanded : verdict[r] \in {"valid", "built"}
  BY DEF CompleteGraph, DecideToBuild, cudaVars, CudaInv, CudaTypeOK
<1>2. \A q \in CudaRecipes : verdict'[q] \in {"valid", "built"} => Accepted(q)'
  BY <1>1, AcceptedStays DEF CudaInv
<1>3. \A p \in CudaRecipes : Used(p)' => Used(p)
  BY <1>1 DEF Used, Calls
<1> QED
  BY <1>1, <1>2, <1>3, CudaAssumption DEF CudaInv, CudaTypeOK

LEMMA CudaInvStep == CudaInv /\ [ProcessNext]_processVars => CudaInv'
BY ProcessSteps, RequirementsKeepInv, ValidateKeepsInv, BuildKeepsInv, StageKeepsInv
DEF CudaStep

LEMMA CudaInvariance == ProcessSpec => []CudaInv
<1>1. ProcessInit => CudaInv
  BY CudaInvInit DEF ProcessInit
<1> QED
  BY <1>1, CudaInvStep, PTL DEF ProcessSpec

(* The state of the process keeps its types: no recipe is told to build    *)
(* with 0 jobs, and no set of methods or manifests holds anything else.    *)
THEOREM ProcessTypeCorrect == ProcessSpec => []ProcessTypeOK
<1>1. TypeOK /\ CudaInv => ProcessTypeOK
  BY DEF CudaInv, ProcessTypeOK
<1> QED
  BY <1>1, LimitTypes, CudaInvariance, PTL

(***************************************************************************)
(* Where exceptions come from                                              *)
(***************************************************************************)

(* A recipe that calls private methods enables them, or requires a recipe  *)
(* that does and uses its Interface before.  cudf is of the second kind.   *)
PrivateCallsAreEnabled ==
    \A r \in CudaRecipes :
        /\ (\E i \in DOMAIN Calls(r) : Calls(r)[i].method \in _private_methods) =>
              \/ r \in Private
              \/ \E q \in Requires[r] \cap Private :
                    Hooks[q].requirements # {} \/ Calls(q) # <<>>
        /\ Hooks[r].downloads # <<>> => r \in Private

LEMMA ValidateMethodsExist == ValidateMethods \subseteq _public_methods \cup _private_methods
BY DEF ValidateMethods, _public_methods, _private_methods

(* No other outcome is an AttributeError. *)
LEMMA OutcomesAreOthers ==
    ASSUME CudaTypeOK, NEW r \in CudaRecipes, NEW package, NEW platform,
           NEW n, NEW reachable \in BOOLEAN
    PROVE  /\ PackageOutcome(r, package, reachable) # "AttributeError"
           /\ DownloadOutcome(r, package, platform, reachable) # "AttributeError"
           /\ ToolchainOutcome # "AttributeError"
           /\ CheckMinOutcome(n) # "AttributeError"
<1>1. InfoOutcome(r, package, reachable) # "AttributeError"
  BY DEF InfoOutcome
<1>2. PackageOutcome(r, package, reachable) # "AttributeError"
  BY <1>1 DEF PackageOutcome
<1>3. DownloadOutcome(r, package, platform, reachable) # "AttributeError"
  BY <1>1 DEF DownloadOutcome
<1>4. DOMAIN settings.architectures \subseteq Nat
  <2> DEFINE A == [name : STRING, number : Nat, digits : BOOLEAN,
               letter : BOOLEAN, suffix : STRING]
  <2>1. settings.architectures \in Seq(A)
    BY RequestFacts
  <2> HIDE DEF A
  <2> QED
    BY <2>1
<1>5. ToolchainOutcome # "AttributeError"
  <2> DEFINE outcomes ==
        [i \in DOMAIN settings.architectures |-> FlagOutcome(settings.architectures[i])]
  <2>1. \A i \in DOMAIN outcomes : outcomes[i] # "AttributeError"
    BY DEF FlagOutcome
  <2>2. DOMAIN outcomes \subseteq Nat
    BY <1>4
  <2>3. FirstOutcome(outcomes) # "AttributeError"
    <3> HIDE DEF outcomes
    <3> QED
      BY <2>1, <2>2, FirstOutcomeIsOne
  <2> QED
    BY <2>3 DEF ToolchainOutcome
<1>6. CheckMinOutcome(n) # "AttributeError"
  <2> DEFINE outcomes ==
        [i \in DOMAIN settings.architectures |-> MinimumOutcome(settings.architectures[i], n)]
  <2>1. \A i \in DOMAIN outcomes : outcomes[i] # "AttributeError"
    BY DEF MinimumOutcome
  <2>2. DOMAIN outcomes \subseteq Nat
    BY <1>4
  <2>3. FirstOutcome(outcomes) # "AttributeError"
    <3> HIDE DEF outcomes
    <3> QED
      BY <2>1, <2>2, FirstOutcomeIsOne
  <2> QED
    BY <2>3 DEF CheckMinOutcome
<1> QED
  BY <1>2, <1>3, <1>5, <1>6

LEMMA ValidateFindsMethods ==
    ASSUME PrivateCallsAreEnabled, CudaInv, NEW r \in CudaRecipes, NEW reachable \in BOOLEAN,
           \A q \in Requires[r] : verdict[q] # ""
    PROVE  ValidateOutcome(r, reachable) # "AttributeError"
<1>1. ASSUME NEW i \in DOMAIN Calls(r)
      PROVE  Calls(r)[i].method \in MethodsAfter(r)[r]
  <2>1. Calls(r)[i].method \in _public_methods \cup _private_methods
    BY HookFacts, ValidateMethodsExist
  <2>2. CASE Calls(r)[i].method \in _public_methods
    BY <2>2, MethodsType DEF CudaInv
  <2>3. CASE Calls(r)[i].method \in _private_methods /\ r \in Private
    BY <2>3, MethodsType DEF CudaInv
  <2>4. CASE Calls(r)[i].method \in _private_methods /\ r \notin Private
    <3>1. PICK q \in Requires[r] \cap Private :
              Hooks[q].requirements # {} \/ Calls(q) # <<>>
      BY <2>4, <1>1 DEF PrivateCallsAreEnabled
    <3>2. verdict[q] # "" /\ q \in CudaRecipes /\ q \in expanded
      BY <3>1, CudaAssumption DEF CudaInv
    <3>3. Used(q)
      BY <3>1, <3>2 DEF Used
    <3>4. _private_methods \subseteq methods[r]
      BY <3>1, <3>3 DEF CudaInv
    <3> QED
      BY <2>4, <3>4, MethodsType DEF CudaInv
  <2> QED
    BY <2>1, <2>2, <2>3, <2>4
<1> DEFINE outcomes == [i \in DOMAIN Calls(r) |-> CallOutcome(r, Calls(r)[i], reachable)]
<1>2. \A i \in DOMAIN outcomes : outcomes[i] # "AttributeError"
  <2> SUFFICES ASSUME NEW i \in DOMAIN Calls(r)
               PROVE  CallOutcome(r, Calls(r)[i], reachable) # "AttributeError"
    OBVIOUS
  <2>1. Calls(r)[i].method \in ValidateMethods
    BY HookFacts
  <2> QED
    BY <1>1, <2>1, OutcomesAreOthers DEF CallOutcome, ValidateMethods, CudaInv
<1>3. DOMAIN outcomes \subseteq Nat
  BY HookFacts
<1>4. FirstOutcome(outcomes) # "AttributeError"
  <2> HIDE DEF outcomes
  <2> QED
    BY <1>2, <1>3, FirstOutcomeIsOne
<1> QED
  BY <1>4 DEF ValidateOutcome

LEMMA BuildFindsMethods ==
    ASSUME PrivateCallsAreEnabled, CudaInv, NEW r \in CudaRecipes, NEW reachable \in BOOLEAN
    PROVE  BuildOutcome(r, reachable) # "AttributeError"
<1> DEFINE downloads == Hooks[r].downloads
<1> DEFINE outcomes ==
        [i \in DOMAIN downloads |->
             DownloadOutcome(r, downloads[i][1], downloads[i][2], reachable)]
<1>1. \A i \in DOMAIN outcomes : outcomes[i] # "AttributeError"
  BY OutcomesAreOthers DEF CudaInv
<1>2. DOMAIN outcomes \subseteq Nat
  <2> DEFINE D == STRING \X STRING
  <2>1. downloads \in Seq(D)
    BY HookFacts
  <2>2. DOMAIN downloads \subseteq Nat
    <3> HIDE DEF D, downloads
    <3> QED
      BY <2>1
  <2> QED
    BY <2>2
<1>3. FirstOutcome(outcomes) # "AttributeError"
  <2> HIDE DEF outcomes
  <2> QED
    BY <1>1, <1>2, FirstOutcomeIsOne
<1>4. downloads # <<>> => "download_package" \in MethodsAfter(r)[r]
  BY MethodsType DEF PrivateCallsAreEnabled, CudaInv, _private_methods
<1> QED
  BY <1>3, <1>4, OutcomesAreOthers DEF BuildOutcome, CudaInv

(* Sharing one set of methods between all Interfaces, which makes private  *)
(* methods public, is what no recipe misses any for: whatever the graph    *)
(* and the settings, no recipe asks self.cuda for a method that it lacks.  *)
THEOREM MethodsAreThereAlways ==
    ASSUME PrivateCallsAreEnabled
    PROVE  ProcessSpec => []MethodsAreThere
<1>1. ProcessInit => MethodsAreThere
  <2>1. NoFailure.error # "AttributeError"
    BY DEF NoFailure
  <2> QED
    BY <2>1 DEF ProcessInit, CudaInit, MethodsAreThere
<1>2. CudaInv /\ MethodsAreThere /\ [ProcessNext]_processVars => MethodsAreThere'
  <2> SUFFICES ASSUME CudaInv, MethodsAreThere, CudaStep \/ UNCHANGED cudaVars
               PROVE  MethodsAreThere'
    BY ProcessSteps
  <2>1. CASE CompleteGraph \/ DecideToBuild \/ UNCHANGED cudaVars
    BY <2>1 DEF CompleteGraph, DecideToBuild, cudaVars, MethodsAreThere
  <2>2. ASSUME NEW r \in CudaRecipes, CallRequirements(r) \/ BuildSucceeds(r)
        PROVE  MethodsAreThere'
    BY <2>2 DEF CallRequirements, BuildSucceeds, MethodsAreThere
  <2>3. ASSUME NEW r \in CudaRecipes, NEW reachable \in BOOLEAN, CallValidate(r, reachable)
        PROVE  MethodsAreThere'
    <3>1. ValidateOutcome(r, reachable) # "AttributeError"
      BY <2>3, ValidateFindsMethods DEF CallValidate
    <3>2. \/ failure' = failure
          \/ failure' = [recipe |-> r, at |-> stage, error |-> ValidateOutcome(r, reachable)]
      BY <2>3 DEF CallValidate, Fail
    <3> QED
      BY <3>1, <3>2 DEF MethodsAreThere
  <2>4. ASSUME NEW r \in CudaRecipes, NEW reachable \in BOOLEAN, BuildFails(r, reachable)
        PROVE  MethodsAreThere'
    <3>1. failure' = [recipe |-> r, at |-> stage, error |-> BuildOutcome(r, reachable)]
      BY <2>4 DEF BuildFails, Fail
    <3> QED
      BY <3>1, BuildFindsMethods DEF MethodsAreThere
  <2> QED
    BY <2>1, <2>2, <2>3, <2>4 DEF CudaStep
<1> QED
  BY <1>1, <1>2, CudaInvariance, PTL DEF ProcessSpec

LEMMA RangeType ==
    ASSUME NEW major \in DOMAIN SupportedRange
    PROVE  SupportedRange[major][1] \in Nat /\ SupportedRange[major][2] \in Nat
BY DEF SupportedRange, NoLimit

LEMMA ArchitecturesAreChecked ==
    ASSUME CudaTypeOK, NEW a \in Numbers
    PROVE  /\ a.number \in Nat
           /\ \E i \in DOMAIN settings.architectures : settings.architectures[i] = a
           /\ a.name \notin Words
           /\ DOMAIN settings.architectures \subseteq Nat
<1> DEFINE A == [name : STRING, number : Nat, digits : BOOLEAN,
               letter : BOOLEAN, suffix : STRING]
<1>1. settings.architectures \in Seq(A)
  BY RequestFacts
<1>2. /\ DOMAIN settings.architectures \subseteq Nat
      /\ \A i \in DOMAIN settings.architectures : settings.architectures[i] \in A
  <2> HIDE DEF A
  <2> QED
    BY <1>1
<1> QED
  BY <1>2 DEF Numbers

(* What CudaToolchain accepts is supported. *)
LEMMA ToolchainFits ==
    ASSUME CudaTypeOK, ToolchainOutcome = "ok", NEW a \in Numbers
    PROVE  /\ ~a.letter
           /\ SupportedRange[CudaMajor][1] <= a.number
           /\ a.number <= SupportedRange[CudaMajor][2]
<1> DEFINE outcomes ==
        [i \in DOMAIN settings.architectures |-> FlagOutcome(settings.architectures[i])]
<1>1. PICK i \in DOMAIN settings.architectures : settings.architectures[i] = a
  BY ArchitecturesAreChecked
<1>2. CudaMajor \in DOMAIN SupportedRange /\ FirstOutcome(outcomes) = "ok"
  BY <1>1 DEF ToolchainOutcome
<1>3. FlagOutcome(a) = "ok"
  <2>1. outcomes[i] = "ok"
    <3>1. DOMAIN outcomes \subseteq Nat /\ i \in DOMAIN outcomes
      BY <1>1, ArchitecturesAreChecked
    <3> HIDE DEF outcomes
    <3> QED
      BY <1>2, <3>1, FirstOutcomeIsOne
  <2> QED
    BY <1>1, <2>1
<1>4. a.name \notin Words /\ a.number \in Nat
  BY ArchitecturesAreChecked
<1>5. ~a.letter
  BY <1>3, <1>4, Zenon DEF FlagOutcome
<1>6. ~(a.number < SupportedRange[CudaMajor][1] \/ a.number > SupportedRange[CudaMajor][2])
  BY <1>3, <1>4, <1>5 DEF FlagOutcome
<1> QED
  BY <1>2, <1>4, <1>5, <1>6, RangeType

LEMMA MinimumFits ==
    ASSUME CudaTypeOK, NEW n \in Nat, CheckMinOutcome(n) = "ok", NEW a \in Numbers
    PROVE  ~a.letter /\ a.number >= n
<1> DEFINE outcomes ==
        [i \in DOMAIN settings.architectures |-> MinimumOutcome(settings.architectures[i], n)]
<1>1. PICK i \in DOMAIN settings.architectures : settings.architectures[i] = a
  BY ArchitecturesAreChecked
<1>2. FirstOutcome(outcomes) = "ok"
  BY <1>1 DEF CheckMinOutcome
<1>3. MinimumOutcome(a, n) = "ok"
  <2>1. outcomes[i] = "ok"
    <3>1. DOMAIN outcomes \subseteq Nat /\ i \in DOMAIN outcomes
      BY <1>1, ArchitecturesAreChecked
    <3> HIDE DEF outcomes
    <3> QED
      BY <1>2, <3>1, FirstOutcomeIsOne
  <2> QED
    BY <1>1, <2>1
<1> QED
  BY <1>3, ArchitecturesAreChecked DEF MinimumOutcome, Words

LEMMA PassedFits ==
    ASSUME CudaTypeOK, NEW r \in CudaRecipes, NEW i \in DOMAIN Calls(r),
           Passed(r, Calls(r)[i])
    PROVE  CallFits(r, Calls(r)[i])
<1> DEFINE c == Calls(r)[i]
<1>0. c.method \in ValidateMethods /\ c.minimum \in Nat
  BY HookFacts
<1>1. CASE c.method = "validate_package"
  <2>1. PackageOutcome(r, c.package, TRUE) = "ok"
    BY <1>1 DEF Passed
  <2>2. PackageFits(r, c.package)
    BY <2>1 DEF PackageOutcome, PackageFits, InfoOutcome
  <2> QED
    BY <1>1, <2>2 DEF CallFits
<1>2. CASE c.method = "validate_settings"
  <2>1. ToolchainOutcome = "ok"
    BY <1>2 DEF Passed
  <2> QED
    BY <1>2, <2>1, ToolchainFits DEF CallFits
<1>3. CASE c.method = "check_min_cuda_architecture"
  <2>1. CheckMinOutcome(c.minimum) = "ok"
    BY <1>3 DEF Passed
  <2> QED
    BY <1>0, <1>3, <2>1, MinimumFits DEF CallFits
<1>4. CASE c.method = "require_shared_deps"
  BY <1>4 DEF Passed, CallFits
<1>5. CASE c.method = "get_platform_id"
  BY <1>5 DEF Passed, CallFits
<1> QED
  BY <1>0, <1>1, <1>2, <1>3, <1>4, <1>5 DEF ValidateMethods

(* No recipe is built whose checks do not hold of the settings, in a       *)
(* process that shares methods and manifests between recipes.              *)
THEOREM BuiltFitsAlways == ProcessSpec => []BuiltFitsSettings
<1>1. CudaInv => BuiltFitsSettings
  BY PassedFits DEF CudaInv, CudaTypeOK, BuiltFitsSettings, Accepted
<1> QED
  BY <1>1, CudaInvariance, PTL

(***************************************************************************)
(* What is accepted can be built                                           *)
(***************************************************************************)

(* The exceptions of AcceptedCanBeBuilt, which depend on the request.      *)
Excused(r) ==
    \/ Hooks[r].toolchain /\ ~SettingsAreChecked(r)
    \/ ~PackageIsChecked(r) \/ VariantIsMissing(r)

LEMMA ExcuseStays ==
    ASSUME request' = request, NEW r, Excused(r) PROVE Excused(r)'
<1>1. \A package : Package(r, package)' = Package(r, package)
  BY DEF Package, Url, Version
<1>2. PlatformId' = PlatformId /\ CudaMajor' = CudaMajor
  BY PlatformStays
<1>3. VariantIsMissing(r) => VariantIsMissing(r)'
  BY <1>1, <1>2 DEF VariantIsMissing
<1>4. SettingsAreChecked(r)' = SettingsAreChecked(r) /\ PackageIsChecked(r)' = PackageIsChecked(r)
  BY DEF SettingsAreChecked, PackageIsChecked, Calls
<1> QED
  BY <1>3, <1>4 DEF Excused

LEMMA PairIsItsParts ==
    ASSUME NEW pair \in STRING \X Nat
    PROVE  pair = <<pair[1], pair[2]>>
OBVIOUS

(* A package that was accepted for its platform fails only for want of the *)
(* network, unless it lacks the variant. *)
LEMMA DownloadFailsUnreached ==
    ASSUME CudaInv, NEW r \in CudaRecipes, NEW reachable \in BOOLEAN,
           ~VariantIsMissing(r), NEW i \in DOMAIN Hooks[r].downloads,
           Hooks[r].downloads[i][2] = "",
           PackageOutcome(r, Hooks[r].downloads[i][1], TRUE) = "ok"
    PROVE  DownloadOutcome(r, Hooks[r].downloads[i][1], "", reachable)
               \in {"ok", "ConanException"}
<1> DEFINE package == Hooks[r].downloads[i][1]
<1>1. /\ InfoOutcome(r, package, TRUE) = "ok"
      /\ PlatformId \notin {"", "invalid"}
      /\ PlatformId \in Platforms(r, package)
      /\ Package(r, package).variants # {} => CudaMajor \in Package(r, package).variants
  BY DEF PackageOutcome
<1>2. InfoOutcome(r, package, reachable) \in {"ok", "ConanException"}
  BY <1>1 DEF InfoOutcome
<1>3. package \in DOMAIN Manifests[Url(r)] /\ Url(r) \in DOMAIN Manifests
  BY <1>1, RequestFacts DEF InfoOutcome, CudaInv
<1>4. PICK a \in Package(r, package).archives : a[1] = PlatformId
  BY <1>1 DEF Platforms
<1>5. <<PlatformId, IF Package(r, package).variants = {} THEN 0 ELSE CudaMajor>>
          \in Package(r, package).archives
  <2>1. CASE Package(r, package).variants = {}
    <3> DEFINE p == Manifests[Url(r)][package]
    <3>0. p.archives \subseteq STRING \X Nat /\ (p.variants = {} => \A b \in p.archives : b[2] = 0)
      BY <1>3, CudaAssumption
    <3>1. a \in STRING \X Nat /\ a[2] = 0
      BY <1>4, <2>1, <3>0 DEF Package
    <3>2. a = <<PlatformId, 0>>
      <4>1. a = <<a[1], a[2]>>
        BY <3>1, PairIsItsParts
      <4> QED
        BY <1>4, <3>1, <4>1
    <3> QED
      BY <1>4, <2>1, <3>2
  <2>2. CASE Package(r, package).variants # {}
    BY <1>1, <2>2 DEF VariantIsMissing
  <2> QED
    BY <2>1, <2>2
<1> QED
  BY <1>1, <1>2, <1>5 DEF DownloadOutcome

LEMMA BuildIsExcused ==
    ASSUME PrivateCallsAreEnabled, CudaInv, NEW r \in CudaRecipes, NEW reachable \in BOOLEAN,
           Accepted(r), ~Excused(r)
    PROVE  BuildOutcome(r, reachable) \in {"ok", "ConanException"}
<1> DEFINE downloads == Hooks[r].downloads
<1> DEFINE outcomes ==
        [i \in DOMAIN downloads |->
             DownloadOutcome(r, downloads[i][1], downloads[i][2], reachable)]
<1>1. Hooks[r].toolchain => ToolchainOutcome = "ok"
  BY DEF Excused, SettingsAreChecked, Accepted, Passed
<1>2. \A i \in DOMAIN outcomes : outcomes[i] \in {"ok", "ConanException"}
  <2> SUFFICES ASSUME NEW i \in DOMAIN downloads
               PROVE  DownloadOutcome(r, downloads[i][1], downloads[i][2], reachable)
                          \in {"ok", "ConanException"}
    OBVIOUS
  <2>1. PICK j \in DOMAIN Calls(r) : /\ Calls(r)[j].method = "validate_package"
                                    /\ Calls(r)[j].package = downloads[i][1]
    BY DEF Excused, PackageIsChecked
  <2>2. PackageOutcome(r, downloads[i][1], TRUE) = "ok"
    BY <2>1 DEF Accepted, Passed
  <2>3. downloads[i][2] = "" /\ ~VariantIsMissing(r)
    BY DEF Excused, PackageIsChecked
  <2> QED
    BY <2>2, <2>3, DownloadFailsUnreached
<1>3. DOMAIN outcomes \subseteq Nat
  <2> DEFINE D == STRING \X STRING
  <2>1. downloads \in Seq(D)
    BY HookFacts
  <2>2. DOMAIN downloads \subseteq Nat
    <3> HIDE DEF D, downloads
    <3> QED
      BY <2>1
  <2> QED
    BY <2>2
<1>4. FirstOutcome(outcomes) \in {"ok", "ConanException"}
  <2> HIDE DEF outcomes
  <2> QED
    BY <1>2, <1>3, FirstOutcomeIsOne
<1>5. downloads # <<>> => "download_package" \in MethodsAfter(r)[r]
  BY MethodsType DEF PrivateCallsAreEnabled, CudaInv, _private_methods
<1> QED
  BY <1>1, <1>4, <1>5 DEF BuildOutcome

(* What the recipes accept fails to build only for want of the network,    *)
(* where they check what they use.                                         *)
THEOREM AcceptedCanBeBuiltAlways ==
    ASSUME PrivateCallsAreEnabled
    PROVE  ProcessSpec => []AcceptedCanBeBuilt
<1> DEFINE I == failure.at = "build" =>
                    failure.error = "ConanException" \/ Excused(failure.recipe)
<1>1. ProcessInit => I
  <2>1. NoFailure.at # "build"
    BY DEF NoFailure
  <2> QED
    BY <2>1 DEF ProcessInit, CudaInit
<1>2. CudaInv /\ I /\ [ProcessNext]_processVars => I'
  <2> SUFFICES ASSUME CudaInv, I, CudaStep \/ UNCHANGED cudaVars
               PROVE  I'
    BY ProcessSteps
  <2>1. ASSUME request' = request, failure' = failure PROVE I'
    BY <2>1, ExcuseStays
  <2>2. CASE CompleteGraph \/ DecideToBuild \/ UNCHANGED cudaVars
    BY <2>1, <2>2 DEF CompleteGraph, DecideToBuild, cudaVars
  <2>3. ASSUME NEW r \in CudaRecipes, CallRequirements(r) \/ BuildSucceeds(r)
        PROVE  I'
    BY <2>1, <2>3 DEF CallRequirements, BuildSucceeds
  <2>4. ASSUME NEW r \in CudaRecipes, NEW reachable \in BOOLEAN, CallValidate(r, reachable)
        PROVE  I'
    <3>1. /\ request' = request
          /\ \/ failure' = failure
             \/ failure' = [recipe |-> r, at |-> stage, error |-> ValidateOutcome(r, reachable)]
      BY <2>4 DEF CallValidate, Fail
    <3>2. stage = "validate"
      BY <2>4 DEF CallValidate
    <3>3. failure' = failure \/ failure'.at = "validate"
      BY <3>1, <3>2
    <3> QED
      BY <2>1, <3>1, <3>3
  <2>5. ASSUME NEW r \in CudaRecipes, NEW reachable \in BOOLEAN, BuildFails(r, reachable)
        PROVE  I'
    <3>1. /\ failure' = [recipe |-> r, at |-> stage, error |-> BuildOutcome(r, reachable)]
          /\ BuildOutcome(r, reachable) # "ok" /\ request' = request
          /\ verdict[r] = "valid"
      BY <2>5 DEF BuildFails, Fail, CanBuild
    <3>2. Accepted(r)
      BY <3>1 DEF CudaInv
    <3>3. BuildOutcome(r, reachable) = "ConanException" \/ Excused(r)
      BY <3>1, <3>2, BuildIsExcused
    <3>4. Excused(r) => Excused(r)'
      BY <3>1, ExcuseStays
    <3>5. failure'.recipe = r /\ failure'.error = BuildOutcome(r, reachable)
      BY <3>1
    <3> QED
      BY <3>3, <3>4, <3>5
  <2> QED
    BY <2>2, <2>3, <2>4, <2>5 DEF CudaStep
<1>3. I => AcceptedCanBeBuilt
  BY DEF AcceptedCanBeBuilt, Excused
<1> QED
  BY <1>1, <1>2, <1>3, CudaInvariance, PTL DEF ProcessSpec
=============================================================================
