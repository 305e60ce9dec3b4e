---------------------------- MODULE CudaInterface ----------------------------
(***************************************************************************)
(* recipes/conan-cuda, the python_requires package of every recipe that    *)
(* uses CUDA, over one Conan process: its classes and its cache are loaded *)
(* once and shared by all recipes of the graph.  Conan calls requirements()*)
(* of a recipe when another one has required it, then validate() of all,   *)
(* requirements first, and builds only when all are valid.                 *)
(*                                                                         *)
(* A version is a number whose last digit is the minor version.  Platform  *)
(* names are those of NVIDIA's manifests.  Builds are native.              *)
(***************************************************************************)
EXTENDS Naturals, Sequences

CONSTANTS
    CudaRecipes,  \* the recipes that use conan-cuda
    Requires,     \* Requires[r]: what r requires of them
    Dependencies, \* Dependencies[r]: with what those require in turn
    Private,      \* those that make their Interface with enable_private
    Hooks,        \* Hooks[r]: what the methods of r do with self.cuda
    Sources,      \* Sources[r][v]: the url in conandata.yml of version v
    Manifests,    \* Manifests[url][package]: what NVIDIA has published
    Requests      \* the graphs, settings and versions that are considered

_public_methods ==
    {"CudaToolchain", "check_min_cuda_architecture", "get_version_range",
     "requires", "tool_requires", "validate_settings"}

_private_methods ==
    {"download_package", "get_package_info", "get_package_versions",
     "get_platform_id", "get_redistrib_info", "require_shared_deps",
     "validate_package"}

Methods == _public_methods \cup _private_methods

(* Names of Conan packages ... *)
FollowMinorVersion ==
    {"cublas", "cuda-crt", "cuda-driver-stubs", "cuda-gdb", "cuda-opencl",
     "cuda-profiler-api", "cuda-sanitizer-api", "cuda-tileiras", "cudart", "cudla",
     "culibos", "cupti", "nvcc", "nvfatbin", "nvml-stubs", "nvptxcompiler",
     "nvrtc", "nvvm"}
FollowMajorVersion ==
    {"cuda-samples", "npp", "nvjitlink", "nvjpeg", "nvidia-video-codec-sdk"}

(* cuda_supported_arch_ranges; NoLimit stands for None. *)
NoLimit == 999
SupportedRange ==
    [major \in 9..13 |->
        CASE major = 9 -> <<30, 70>> [] major = 10 -> <<30, 75>>
          [] major = 11 -> <<35, 90>> [] major = 12 -> <<50, 121>>
          [] major = 13 -> <<75, NoLimit>>]

(* The methods that validate() of the recipes calls. *)
ValidateMethods ==
    {"check_min_cuda_architecture", "get_platform_id", "require_shared_deps",
     "validate_package", "validate_settings"}

ASSUME CudaAssumption ==
    /\ Private \subseteq CudaRecipes
    /\ Requires \in [CudaRecipes -> SUBSET CudaRecipes]
    /\ \A r \in CudaRecipes :
          /\ Hooks[r].validate \in Seq([method : ValidateMethods, package : STRING,
                                      minimum : Nat, dependencies : SUBSET STRING])
          /\ Hooks[r].downloads \in Seq(STRING \X STRING)
    /\ \A q \in Requests :
          /\ q.roots \subseteq CudaRecipes
          /\ q.settings.cuda \in Nat
          /\ q.settings.architectures \in
                Seq([name : STRING, number : Nat, digits : BOOLEAN,
                     letter : BOOLEAN, suffix : STRING])
          /\ \A r \in CudaRecipes : Sources[r][q.versions[r]] \in DOMAIN Manifests
    /\ \A url \in DOMAIN Manifests : \A package \in DOMAIN Manifests[url] :
          LET p == Manifests[url][package] IN
          /\ p.archives \subseteq STRING \X Nat
          /\ p.variants = {} => \A a \in p.archives : a[2] = 0

VARIABLES
    request,        \* what the user asks for
    methods,        \* methods[r]: what __getattr__() of r's Interface finds
    redistribCache, \* the urls in _redistrib_info_cache
    expanded,       \* the recipes whose requirements() has been called
    verdict,        \* verdict[r]: "", "valid", "invalid" or "built"
    stage,          \* "requirements", "validate", "build", "over"
    failure         \* the exception that ended the process, if one did

cudaVars ==
    <<request, methods, redistribCache, expanded, verdict, stage, failure>>

settings == request.settings
CudaMajor == settings.cuda
Version(r) == request.versions[r]
Major(v) == v \div 10
Url(r) == Sources[r][Version(r)]
NoFailure == [recipe |-> "", at |-> "", error |-> ""]
-----------------------------------------------------------------------------
(* A mutant: the recipe that enables the private methods has its own set.  *)
OwnMethods(r) ==
    IF r \in Private THEN [methods EXCEPT ![r] = @ \cup _private_methods] ELSE methods

(* Interface.__init__(): self._methods of every recipe is the one set of   *)
(* the class, and |= changes that set in place. *)
MethodsAfter(r) ==
    IF r \in Private THEN [q \in CudaRecipes |-> methods[q] \cup _private_methods]
    ELSE methods

(* get_platform_id(), with "invalid" where it raises and "" for None. *)
PlatformId ==
    LET arm == settings.arch = "armv8" IN
    CASE arm /\ settings.os = "Linux" /\ CudaMajor >= 13 -> "linux-sbsa"
      [] settings.sbsa /\ ~(arm /\ settings.os = "Linux") -> "invalid"
      [] settings.sbsa /\ arm /\ settings.os = "Linux" -> "linux-sbsa"
      [] settings.os = "Linux" /\ settings.arch = "x86_64" -> "linux-x86_64"
      [] settings.os = "Linux" /\ arm -> "linux-aarch64"
      [] settings.os = "Linux" /\ settings.arch = "ppc64le" -> "linux-ppc64le"
      [] settings.os = "Windows" /\ ~settings.sbsa /\ arm -> "windows-arm64"
      [] settings.os = "Windows" /\ ~settings.sbsa /\ settings.arch = "x86_64" ->
            "windows-x86_64"
      [] OTHER -> ""

(* The first of a sequence of outcomes that is not "ok", and "ok" without. *)
FirstOutcome(outcomes) ==
    LET bad == {i \in DOMAIN outcomes : outcomes[i] # "ok"} IN
    IF bad = {} THEN "ok"
    ELSE outcomes[CHOOSE i \in bad : \A j \in bad : i <= j]

Package(r, package) == Manifests[Url(r)][package]
Platforms(r, package) == {a[1] : a \in Package(r, package).archives}

(* get_package_info() with get_redistrib_info(): a manifest that is not in *)
(* the cache is downloaded if it can be reached. *)
InfoOutcome(r, package, reachable) ==
    IF Url(r) \notin redistribCache /\ ~reachable THEN "ConanException"
    ELSE IF package \notin DOMAIN Manifests[Url(r)] THEN "KeyError"
    ELSE IF ~Hooks[r].ignoreVersion /\ Package(r, package).version # Version(r)
         THEN "AssertionError"
    ELSE "ok"

(* A mutant: the manifest is not asked for the platform.                   *)
PackageOutcomeAnywhere(r, package, reachable) ==
    IF PlatformId \in {"", "invalid"} THEN "invalid"
    ELSE IF InfoOutcome(r, package, reachable) # "ok"
         THEN InfoOutcome(r, package, reachable)
    ELSE IF /\ Package(r, package).variants # {}
            /\ CudaMajor \notin Package(r, package).variants THEN "invalid"
    ELSE "ok"

(* validate_package().  FollowMajorVersion is compared with the name of    *)
(* the package in the manifest, which is never one of a Conan package. *)
PackageOutcome(r, package, reachable) ==
    IF PlatformId \in {"", "invalid"} THEN "invalid"
    ELSE IF InfoOutcome(r, package, reachable) # "ok"
         THEN InfoOutcome(r, package, reachable)
    ELSE IF \/ /\ Package(r, package).variants # {}
               /\ CudaMajor \notin Package(r, package).variants
            \/ /\ r \in FollowMinorVersion \/ package \in FollowMajorVersion
               /\ Major(Version(r)) # CudaMajor
            \/ PlatformId \notin Platforms(r, package) THEN "invalid"
    ELSE "ok"

(* download_package(): platform "" is that of the settings, and archives   *)
(* has <<platform, 0>> where there is no cuda_variant. *)
DownloadOutcome(r, package, platform, reachable) ==
    LET from == IF platform = "" THEN PlatformId ELSE platform
        variant == IF Package(r, package).variants = {} THEN 0 ELSE CudaMajor
    IN  IF InfoOutcome(r, package, reachable) # "ok"
        THEN InfoOutcome(r, package, reachable)
        ELSE IF from = "invalid" THEN "invalid"
        ELSE IF <<from, variant>> \notin Package(r, package).archives THEN "KeyError"
        ELSE IF ~reachable THEN "ConanException"
        ELSE "ok"
-----------------------------------------------------------------------------
(* An architecture is a record: one of the words that nvcc knows, or a     *)
(* number, with a suffix or none.  It has digits if it begins with two of  *)
(* them ("80", "90a", but not " 80" or "x"), and a letter if int() refuses *)
(* it ("90a", "x").                                                        *)
Words == {"native", "all", "all-major"}

(* A mutant: an architecture that is too old is not refused.               *)
FlagOutcomeAnyOld(a) ==
    IF a.name \in Words THEN "ok"
    ELSE IF a.suffix \notin {"", "real", "virtual"} THEN "invalid"
    ELSE IF ~a.digits THEN "AssertionError"
    ELSE IF a.letter THEN "ValueError"
    ELSE IF a.number > SupportedRange[CudaMajor][2] THEN "invalid"
    ELSE "ok"

(* The loop of arch_flags.  The letter passes the assertion, not int(). *)
FlagOutcome(a) ==
    IF a.name \in Words THEN "ok"
    ELSE IF a.suffix \notin {"", "real", "virtual"} THEN "invalid"
    ELSE IF ~a.digits THEN "AssertionError"
    ELSE IF a.letter THEN "ValueError"
    ELSE IF \/ a.number < SupportedRange[CudaMajor][1]
            \/ a.number > SupportedRange[CudaMajor][2] THEN "invalid"
    ELSE "ok"

(* CudaToolchain.__init__(), which is all of validate_settings(). *)
ToolchainOutcome ==
    IF settings.architectures = <<>> THEN "ok"
    ELSE IF CudaMajor \notin DOMAIN SupportedRange THEN "KeyError"
    ELSE FirstOutcome([i \in DOMAIN settings.architectures |->
                           FlagOutcome(settings.architectures[i])])

(* The loop of check_min_cuda_architecture(): "all" that covers nothing    *)
(* below the minimum goes on to int("all"). *)
MinimumOutcome(a, minimum) ==
    IF a.name = "native" THEN "ok"
    ELSE IF a.name \in Words
         THEN IF CudaMajor \notin DOMAIN SupportedRange THEN "KeyError"
              ELSE IF minimum > SupportedRange[CudaMajor][1] THEN "invalid"
              ELSE "ValueError"
    ELSE IF a.letter THEN "ValueError"
    ELSE IF a.number < minimum THEN "invalid"
    ELSE "ok"

CheckMinOutcome(minimum) ==
    IF settings.architectures = <<>> THEN "invalid"
    ELSE FirstOutcome([i \in DOMAIN settings.architectures |->
                           MinimumOutcome(settings.architectures[i], minimum)])

(* What a call c of r's self.cuda comes to. *)
CallOutcome(r, c, reachable) ==
    IF c.method \notin MethodsAfter(r)[r] THEN "AttributeError"
    ELSE CASE c.method = "validate_package" -> PackageOutcome(r, c.package, reachable)
           [] c.method = "validate_settings" -> ToolchainOutcome
           [] c.method = "check_min_cuda_architecture" -> CheckMinOutcome(c.minimum)
           [] c.method = "require_shared_deps" ->
                 IF c.dependencies \cap Dependencies[r] \cap request.static = {}
                 THEN "ok" ELSE "invalid"
           [] c.method = "get_platform_id" ->
                 IF PlatformId \in {"", "invalid"} THEN "invalid" ELSE "ok"

Calls(r) == Hooks[r].validate

ValidateOutcome(r, reachable) ==
    FirstOutcome([i \in DOMAIN Calls(r) |-> CallOutcome(r, Calls(r)[i], reachable)])

(* generate() makes a CudaToolchain if r compiles CUDA, then build() and   *)
(* package() download what r packages. *)
BuildOutcome(r, reachable) ==
    LET downloads == Hooks[r].downloads IN
    IF Hooks[r].toolchain /\ ToolchainOutcome # "ok" THEN ToolchainOutcome
    ELSE IF downloads # <<>> /\ "download_package" \notin MethodsAfter(r)[r]
         THEN "AttributeError"
    ELSE FirstOutcome([i \in DOMAIN downloads |->
             DownloadOutcome(r, downloads[i][1], downloads[i][2], reachable)])

(* The recipe needs its manifest in validate(): what is called before that *)
(* is accepted. *)
Fetches(r, calls) ==
    \E i \in DOMAIN calls :
        /\ calls[i].method = "validate_package"
        /\ PlatformId \notin {"", "invalid"}
        /\ \A j \in 1..(i - 1) : CallOutcome(r, calls[j], TRUE) = "ok"

CacheAfter(r, fetches, reachable) ==
    IF fetches /\ reachable THEN redistribCache \cup {Url(r)} ELSE redistribCache
-----------------------------------------------------------------------------
CudaInit ==
    /\ request \in Requests
    /\ methods = [r \in CudaRecipes |-> _public_methods]
    /\ redistribCache = {}
    /\ expanded = {}
    /\ verdict = [r \in CudaRecipes |-> ""]
    /\ stage = "requirements"
    /\ failure = NoFailure

(* An exception that Conan does not expect ends the process. *)
Fail(r, error) ==
    /\ failure' = [recipe |-> r, at |-> stage, error |-> error]
    /\ stage' = "over"
    /\ UNCHANGED <<request, expanded, verdict>>

Required == request.roots \cup UNION {Requires[r] : r \in expanded}

(* requirements() of a recipe that the user or another recipe requires.    *)
(* Recipes call public methods here, or none. *)
CallRequirements(r) ==
    /\ stage = "requirements"
    /\ r \in Required \ expanded
    /\ expanded' = expanded \cup {r}
    /\ methods' = IF Hooks[r].requirements = {} THEN methods ELSE MethodsAfter(r)
    /\ UNCHANGED <<request, redistribCache, verdict, stage, failure>>

CompleteGraph ==
    /\ stage = "requirements"
    /\ Required \subseteq expanded
    /\ stage' = "validate"
    /\ UNCHANGED <<request, methods, redistribCache, expanded, verdict, failure>>

(* validate(): ConanInvalidConfiguration is remembered for the recipe, any *)
(* other exception ends the process. *)
CallValidate(r, reachable) ==
    /\ stage = "validate"
    /\ r \in expanded
    /\ verdict[r] = ""
    /\ \A q \in Requires[r] : verdict[q] # ""
    /\ methods' = IF Calls(r) = <<>> THEN methods ELSE MethodsAfter(r)
    /\ redistribCache' = CacheAfter(r, Fetches(r, Calls(r)), reachable)
    /\ CASE ValidateOutcome(r, reachable) = "ok" ->
              /\ verdict' = [verdict EXCEPT ![r] = "valid"]
              /\ UNCHANGED <<request, expanded, stage, failure>>
         [] ValidateOutcome(r, reachable) = "invalid" ->
              /\ verdict' = [verdict EXCEPT ![r] = "invalid"]
              /\ UNCHANGED <<request, expanded, stage, failure>>
         [] OTHER -> Fail(r, ValidateOutcome(r, reachable))

(* Nothing is built if a recipe is invalid. *)
DecideToBuild ==
    /\ stage = "validate"
    /\ \A r \in expanded : verdict[r] # ""
    /\ stage' = IF \E r \in expanded : verdict[r] = "invalid" THEN "over" ELSE "build"
    /\ UNCHANGED <<request, methods, redistribCache, expanded, verdict, failure>>

CanBuild(r) ==
    /\ stage = "build"
    /\ verdict[r] = "valid"
    /\ \A q \in Requires[r] : verdict[q] = "built"

MethodsBuilding(r) ==
    IF Hooks[r].toolchain \/ Hooks[r].downloads # <<>> THEN MethodsAfter(r) ELSE methods

BuildSucceeds(r) ==
    /\ CanBuild(r)
    /\ BuildOutcome(r, TRUE) = "ok"
    /\ verdict' = [verdict EXCEPT ![r] = "built"]
    /\ methods' = MethodsBuilding(r)
    /\ redistribCache' = CacheAfter(r, Hooks[r].downloads # <<>>, TRUE)
    /\ UNCHANGED <<request, expanded, stage, failure>>

BuildFails(r, reachable) ==
    /\ CanBuild(r)
    /\ BuildOutcome(r, reachable) # "ok"
    /\ Fail(r, BuildOutcome(r, reachable))
    /\ methods' = MethodsBuilding(r)
    /\ UNCHANGED redistribCache
-----------------------------------------------------------------------------
CudaTypeOK ==
    /\ request \in Requests
    /\ methods \in [CudaRecipes -> SUBSET Methods]
    /\ redistribCache \subseteq DOMAIN Manifests
    /\ expanded \subseteq CudaRecipes
    /\ verdict \in [CudaRecipes -> {"", "valid", "invalid", "built"}]
    /\ stage \in {"requirements", "validate", "build", "over"}

(* No recipe misses a method of self.cuda: neither those that enable the   *)
(* private ones nor cudf, which calls require_shared_deps() and enables    *)
(* none.  What it calls is there because a requirement of it has been      *)
(* asked before, and changed the set of the class.                         *)
MethodsAreThere == failure.error # "AttributeError"

SettingsAreChecked(r) ==
    \E i \in DOMAIN Calls(r) : Calls(r)[i].method = "validate_settings"

(* What download_package() takes, for the platform of the settings, is     *)
(* what validate_package() has looked at.                                  *)
PackageIsChecked(r) ==
    \A i \in DOMAIN Hooks[r].downloads :
        /\ Hooks[r].downloads[i][2] = ""
        /\ \E j \in DOMAIN Calls(r) :
              /\ Calls(r)[j].method = "validate_package"
              /\ Calls(r)[j].package = Hooks[r].downloads[i][1]

(* The manifest has archives of the package for the platform, but none for *)
(* the major version, although it lists that as a variant.                 *)
VariantIsMissing(r) ==
    \E i \in DOMAIN Hooks[r].downloads :
        LET p == Package(r, Hooks[r].downloads[i][1]) IN
        CudaMajor \in p.variants /\ <<PlatformId, CudaMajor>> \notin p.archives

(* A build that the recipes have accepted fails for want of the network    *)
(* and for nothing that was known before: a recipe that validates the      *)
(* package finds its archive, and one that validates the settings gets its *)
(* flags.  nvcc validates the platform alone, and libtorch no settings.    *)
AcceptedCanBeBuilt ==
    failure.at = "build" =>
        LET r == failure.recipe IN
        \/ failure.error = "ConanException"
        \/ Hooks[r].toolchain /\ ~SettingsAreChecked(r)
        \/ ~PackageIsChecked(r) \/ VariantIsMissing(r)

(* What is built fits the settings: every architecture that the recipes    *)
(* check is one that this CUDA supports, none is below their minimum, and  *)
(* every package that is checked exists for the platform, in the version   *)
(* of the recipe, with shared dependencies where they must be, and for     *)
(* this CUDA if it follows its minor version.  Packages that follow the    *)
(* major version alone are not checked for it.                             *)
Numbers ==
    {settings.architectures[i] : i \in {j \in DOMAIN settings.architectures :
                                            settings.architectures[j].name \notin Words}}

PackageFits(r, package) ==
    /\ PlatformId \in Platforms(r, package)
    /\ Hooks[r].ignoreVersion \/ Package(r, package).version = Version(r)
    /\ Package(r, package).variants # {} => CudaMajor \in Package(r, package).variants
    /\ r \in FollowMinorVersion => Major(Version(r)) = CudaMajor

CallFits(r, c) ==
    CASE c.method = "validate_package" -> PackageFits(r, c.package)
      [] c.method = "validate_settings" ->
            \A a \in Numbers : /\ ~a.letter
                              /\ SupportedRange[CudaMajor][1] <= a.number
                              /\ a.number <= SupportedRange[CudaMajor][2]
      [] c.method = "check_min_cuda_architecture" ->
            \A a \in Numbers : ~a.letter /\ a.number >= c.minimum
      [] c.method = "require_shared_deps" ->
            \A d \in c.dependencies \cap Dependencies[r] : d \notin request.static
      [] c.method = "get_platform_id" -> PlatformId # ""

BuiltFitsSettings ==
    stage = "build" =>
        \A r \in expanded : \A i \in DOMAIN Calls(r) : CallFits(r, Calls(r)[i])
=============================================================================
