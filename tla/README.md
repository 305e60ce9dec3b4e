# Formal models of the RoboConan recipe collection

RoboConan is a collection of about 2300 Conan 2 recipes for C++ packages. Nearly all of them are
declarative: metadata, requirements, and calls of a build system. What can go wrong in ways that a
test of one package hardly shows sits in a few places:

- python-requires packages, whose modules are loaded once per process and shared by all recipes;
- the large recipes (Boost, Qt, OpenCV), which choose among dozens of modules with dependencies;
- maintenance scripts, which rewrite recipe data from upstream indexes, some of them with threads.

This directory models that logic in TLA+, checks it with TLC on small instances and proves the main
results with TLAPS for all values of the constants. `PROJECT.json` lists components, runs, mutants,
theorems, findings, hazards, and for every definition the lines it stands for.

## 1. Inventory

| component | state | operations | interacts with | what is hard |
|---|---|---|---|---|
| **conan-utils: limit_jobs.py** | a module global; `tools.build:jobs` per recipe; peak memory and an event between two threads | `limit_build_jobs`, `monitor_memory_usage` | the build() of libtorch, colmap and others | state shared by all recipes of a process; two threads, a machine that changes between their steps, and readings that fail |
| **Boost: options** | some 50 tri-state options, options that vanish | `config_options`, `configure` | the dependency file of each version | a closure computed while iterating, modules ruled out and brought back |
| **Boost: package** | the requirements, the components | `requirements`, `validate`, `package_info` | Boost options, Conan's graph | four methods read the same options at different times and must agree |
| **Boost: rebuild-dependencies.py** | a dependency tree | `detect_cycles`, `_fix_dependencies` | writes the files that Boost options reads | cycles that are cut by hand |
| **Qt 6: modules** | 40 options `auto`/`True`/`False`, in two contexts | `configure`, `build_requirements`, `validate` | the module file of each version; a second Qt for the tools in a cross build | the second Qt gets options derived from the first one's result |
| **Qt 6: components** | the ordered map of components | `package_info` | Qt 6 modules | some 150 components that may only require earlier ones |
| **NVIDIA updater** | futures, results, two files per package | fetch, audit, select, write | server, recipes of 50 packages | order of completion, failures in the middle, torn files |
| **SuiteSparse updater** | two files for each of 18 recipes | `update_config_yml`, `update_conandata_yml`, `update_url_only` | the archive of a release, the recipes | a stop between two files and what the next invocation makes of it |
| **oneAPI updater** | files of sources, two index files per package | select, remove, write, write | PyPI, APT index | removal before replacement; an upstream that publishes between two requests |
| **conan-cuda** | one set of method names and one cache of manifests for all recipes of a process | `requires`, `validate_package`, `require_shared_deps`, `download_package`, `CudaToolchain` | the requirements(), validate() and build() of every CUDA recipe | a set changed in place for all recipes; what validate() accepts is fetched and built much later |
| **OpenCV 4** | some 130 options of modules and packages, options that vanish | `config_options`, `configure`, `requirements`, `validate`, `package_info` | Conan's graph | needs are followed through 69 modules, then options are removed, then build_all enables modules again |
| **Qt 5, OpenCV 5** | options of modules | as Qt 6, OpenCV 4 | | other tables; OpenCV 5 takes build_all first |
| **conan-fortran, conan-gnu-triplet** | none | checks and tables | recipes | nothing that a table of cases misses |
| **googleapis, grpc-proto, VTK, google-cloud-cpp parsers** | state of a line parser | parse | upstream build files | text |
| **CMake, Arm, Rust updaters; Qt add_version.py** | one or two files | download, write | servers | skipped versions, a truncated file |
| **deb.py, python_venv.py, meson_msvc.py** | none | file operations | tar, venv | nothing kept between calls |
| other recipes, package templates | none of their own | | | |

What makes each of the modelled components correct:

- *limit_jobs*: a recipe builds with no more jobs than its memory holds, nor than it was configured
  with; the reported peak is final, and real unless a sample failed, and the `with` block is always left.
- *conan-cuda*: a recipe finds the methods it calls on `self.cuda`, whatever else is in the graph; what
  was accepted can be fetched and built; what is built fits the settings it was validated against.
- *Boost*: what is built is the least set that holds what was asked for and is closed under the
  dependencies; what the settings rule out stays out; every component requires what exists, no
  removed option is read, and no requirement is left unused.
- *OpenCV 4*: what enabled modules need is enabled, and nothing else changes; only modules that the
  version has on the system are built; components resolve, and what is required is used.
- *Qt 6*: the answers of the user are what is built; the Qt for the tools has the tools that are
  needed, is not refused or invalid for reasons of its own; every component requires earlier ones.
- *NVIDIA updater*: the selection does not depend on the order of completion; nothing is written
  before everything is known; at most one package is torn when the script fails.
- *SuiteSparse and oneAPI updaters*: config.yml and conandata.yml agree; what an invocation that is done
  promises holds whatever earlier ones left; what a stop tore is healed.

`PROJECT.json` lists under `hazards` where each of them bites.

## 2. Modules

| module | models | extends |
|---|---|---|
| JobLimit | `limit_build_jobs()` over the recipes of one process | |
| CudaInterface | conan-cuda over one process: the Interface, nvidia_packages.py, the checks of architectures | |
| ConanProcess | both in one process: graphs of recipes that use the one and the other | JobLimit, CudaInterface |
| MemoryMonitor | `monitor_memory_usage()`: builder, sampling thread, machine | |
| ModuleSelection | abstract: one step from a request to the least closed set | |
| BoostOptions | `config_options()` and `configure()` of Boost; implements ModuleSelection | |
| BoostPackage | `requirements()`, `validate()` and `package_info()` | BoostOptions |
| OpenCVModules | the tables of OpenCV 4: options, availability, defaults, needs, requirements | |
| OpenCVOptions | the methods of the recipe, from the answers to the components | OpenCVModules |
| QtComponents | the table of components of `package_info()` | |
| QtModules | the selection, the tools, `validate()`, the components of Qt 6 | QtComponents |
| NvidiaUpdate | update-nvidia-packages.py | |
| RecipeMaintenance | abstract: one recipe at a time, a stop anywhere, done means complete | |
| SuiteSparseUpdate | update_suitesparse.py; implements RecipeMaintenance | |
| OneApiUpdate | update-oneapi.py; implements RecipeMaintenance | |
| RecipeUpdates | the two scripts, one of them at a time | SuiteSparseUpdate, OneApiUpdate |
| MC*X* | instances of *X* for TLC (MCOpenCV: OpenCVOptions) | *X* |
| *X*Proofs | theorems about *X*; BoostProofs about BoostOptions and BoostPackage | *X*, TLAPS |
| NumberLemmas | minima and maxima of sets and sequences of naturals, by a least counterexample | TLAPS |

### JobLimit

`maxJobsOriginal` is the global `_max_jobs_original` (None is 0, as both are falsy), `jobs[r]` is what
`build_jobs(conanfile)` returns for recipe r, `fitted[r]` remembers what r's memory held at its last
call. `LimitBuildJobs(r, fit)` is the whole function; `fit` is the quotient of free memory and memory
per job, any number at each call. Conan builds one recipe after the other, so calls of two builds are
not interleaved. The probes of `_get_free_memory_gb` are abstracted to their value.

### CudaInterface, ConanProcess

`request` is what one invocation of Conan is given: the recipes asked for, the settings, the versions
that were chosen, and which requirements are static. `methods[r]` is what `self.cuda` of r has once its
Interface was made; `enable_private` extends the class's one set, so that `MethodsBuilding` depends on who
was made before. `redistribCache` is the cache of manifests, keyed by URL. A recipe goes through `expanded`
(Conan has called requirements()) and `verdict` ("valid", "invalid", "built"),
and `failure` is the exception that ends the process. `ValidateOutcome` and `BuildOutcome` are the
hooks of the recipes as sequences of calls, each with the value "ok", "invalid" (ConanInvalidConfiguration) or
the name of the exception it raises. Conan's order - a requirement's requirements() after that of the
recipe that requires it, validate() of requirements first, builds only when all are valid - is external.
Whether the server answers is `reachable`, a choice at each call that needs the network; what the cache has needs none.

`EnterBuild` and `LeaveBuild` couple the two components: between them libtorch and colmap call
`limit_build_jobs()` as often as they like, and Conan builds nothing else.

### MemoryMonitor

One action per step of each thread that reads or writes what another can change: baseline, start,
body, `stop_event.set()`, `join()` on one side; test, sample, update, threshold, wait on the other.
`MemoryChanges` is every process of the machine. `_get_free_memory_gb()` turns every failure into a
number, 0 or a sum that lacks some keys, so that a reading (`FreeMemoryReadings`) is any number up to the true one, for the
baseline as for the samples. `entry`, `lowest` and `misread` are history: the memory that was free on entry, the least that was
free since, and whether a sample was less than that. `sys.exit(1)` ends the thread it is called in and no other.

### BoostOptions, BoostPackage, ModuleSelection

`pc` follows config_options(), Conan's application of what the user asked for, and configure():
header_only, the defaults, `disable()`, the assignments without `.value`, the closure one
dependency at a time in any order, the coupling of math and random, the removal of options. `with[m]` is
`with_m`, `asked[m]` what the user gave, `present` the options that still exist. The dependency file
is the constant `Deps`. `AllSuperModules` is the least set the `while` loop of `_all_super_modules` can
stop with. BoostPackage adds the three methods Conan calls later, requirements() first: Conan builds the graph before it
validates any recipe, so a configuration that validate() will reject is asked for its requirements too. Reading a removed option is
`stage = "error"`. zlib stands for the four compression libraries.

`ImplementsSelection` is the refinement: `Selection == INSTANCE ModuleSelection WITH ...` maps the
enabled modules of the last state to the selected set, and all steps of configure() but the last to stutters.

### OpenCVModules, OpenCVOptions

`pc` follows config_options(), the answers that Conan applies, and the parts of configure() in their order: the
search for what enabled modules need, its application, the removal of options that nothing uses, and
build_all. `opts[o]` is the value of an option that exists. `pending` and `required` are the two
sets of `_mandatory_disabled_options()`, which follows one option at a time, in any order. `Mandatory`,
`Uses`, `Names`, `Optional`, `TargetsOf` and `CoreThroughOthers` are the entries of `_opencv_modules()` with their conditions.
The condition under which an option brings a package is written twice in the recipe and twice here: `RequiredFor` and
`RequiredWith` are what requirements() declares, `NamedFor` and `Names` what the helpers and entries of the table name. `world` makes one component of nearly all modules. Options that none of these methods reads are left out.

### NvidiaUpdate

`task[t]` is the future of index page or manifest t, `answer[m]` what its thread wrote to `url_dates`
and `hashes` and returned, `taken` the order in which `as_completed()` gave the manifests. The main
thread goes through `phase`: listing, fetching, writing. An exception of a future leaves the `with`
block of the pool, which waits for all tasks (`raising`). `Group`, `IsNewest`, `Sources`,
`NewestUrl`, `LastGroup` are `_select_versions()`; Python's dicts keep the order of insertion, which is
`Positions`. A version is a number: 912 is 9.1.2. `sorted()` of dates and None is `SelectionRaises`.

### QtComponents, QtModules

`options[c][m]` is the option of module m in context c, host or build; "auto" is neither True nor False.
`Enabled` is `_enabled_modules` with its single level of dependencies. `BuildRequirements` makes the
second Qt with `ToolOption` and `ToolFeatures`, after which `Configure("build")` is the same code. GraphComplete is
Conan's order: a graph is complete before it is validated, valid before anything is built, and tools
are built first. `Missing` is the assertion in `_get_corrected_reqs`. The table lists the components in the order of
`package_info()` with the condition and requirements of each; components that nothing needs and that
need no more than a listed neighbour are left out. "opengl" stands for the values desktop and dynamic of that option, "dynamic"
tells them apart. Requirements appended to a component directly
(lines 1235 and 1675) escape the assertion and are not in the table.

### SuiteSparseUpdate, OneApiUpdate, RecipeUpdates, RecipeMaintenance

`configYml[p]` and `conandataYml[p]` are the files as texts whose entries are added at the top; of two
entries with one key YAML keeps the last, which is what `NewestIsUnique` must exclude. A file is emptied
when it is opened for writing, and `text` is what the script has read and will write. `step` and `at` are the
statement and the package the script is at. `StopSuiteSparse` is possible at every step: an interrupt, an
exception. `InvokeSuiteSparse` starts an invocation for any release, older ones included.

In OneApiUpdate `Publish` lets upstream grow between two requests of one invocation: `now` is an index of
`Upstream`. `Namesakes` are the packages of the APT index whose names begin with that of a recipe's root: the script takes
their versions for versions of the root. `answers` holds what PyPI has said of the parts of a package, `selected` the
versions to write, `rest` those whose files are still to be written. `files[p][v]` is the
file of sources of a version by platform, `Torn` when it was emptied.

Both implement `RecipeMaintenance`: `status`, `wanted` (what an invocation has to provide) and `complete` (what is
listed and has sources) are state functions of the details. For SuiteSparse the refinement leaves
GraphBLAS out, see section 5.

## 3. Runs

| run | what it shows | distinct states |
|---|---|---|
| conan_process | graphs of recipes in one process: methods are there, what is accepted can be built and fits, jobs stay within memory and configuration | 9 940 |
| joblimit_perpackage | *violated*: with settings per package the first recipe's number decides for the second | |
| monitor | all interleavings, with readings that fail: the peak is final, and real unless a sample failed, never more than what was free; the watch is given up only for low memory or a failed sample; the block is left | 42 781 |
| monitor_terminate | *violated*: the build goes on after "Terminating the build" | |
| boost_blocked | *violated*: Boost 1.88, random brings math back | |
| boost_package | Boost 1.88: selection, and agreement of requirements(), validate() and package_info() | 83 578 |
| opencv | three versions, seven systems: what modules need is found and enabled for a reason, and the methods agree | 63 798 |
| recipe_updates | three invocations of each script, stopped anywhere: files agree, done means updated, torn files heal | 201 509 |
| nvidia_update | every order of completion and failure: selection, orderly writing | 56 912 |
| nvidia_newest | *violated*: the URL need not be the newest | |
| qt_modules | Qt 6.11: answers, tools, refusals, components | 48 936 |
| qt_present | *violated*: a valid configuration reaches a component whose requirement is missing | |

Five runs are findings: each quotes the line of the repository that says otherwise.

What the names of the properties say is in the comment above each definition. Where one name stands for
several facts they are parts of one promise: `LimitIsSound` is memory and configuration, `WatchIsSound` the peak and the end of the
watch, `SelectionIsSound` every line and every URL, `WritesAreOrderly` audit and torn packages,
`MethodsAgree` what is built, described, required and used, `FilesAgree` the two files of a SuiteSparse
recipe, `RecipesAreSound` what an invocation of the oneAPI script is past and what it writes,
`ToolsFollowModules` what the second Qt has and when it is refused.

**Bounds, and why they are enough.** ConanProcess has two recipes that limit their jobs, because the global
couples pairs, and `MaxFit` = 4 around the 3 configured; ten recipes with
both kinds of Interface, six machines, CUDA 12, 13 and one that is unknown, eleven lists of architectures, one
for each way the checks can disagree, manifests with and without variants, and versions that a user chose against the
range. joblimit_perpackage has different numbers for two recipes. MemoryMonitor has 3 GB and a threshold of
1, so memory can be at, below and above it, and above the baseline, and a reading can be each number up to the true one. Boost uses parts of the real
dependency files that keep every module the recipe names, and users who decide on two modules: every rule of
configure() mentions at most two. The profiles cover each way the `disable()` calls go. OpenCV has the
minor versions 5, 9 and 14, which differ in every table, seven settings, every single answer after the
defaults, after nothing and after everything on Linux, elsewhere the options that systems and versions disagree about,
and pairs of the modules that require each other conditionally. RecipeUpdates has `MaxInvocations` = `MaxRuns` = 3: one
invocation tears, one heals, one relies on it; SuiteSparse has a plain package, GraphBLAS and one with patches, and a
release that brings a package without a recipe; oneAPI has a set of parts that must be complete, one that need not, an
APT package with a namesake that is a release ahead in the end, and an upstream of four states in which parts appear one after the other. NvidiaUpdate has
two base URLs with two manifests each and two threads: an order needs two results, a precedence of
names two names, a torn package a second one; answers contain a missing component, an unknown one, a
missing date, and one version for two CUDA versions. Qt uses the real file of 6.11 without modules
that no rule mentions and that list qtbase alone, or qtdeclarative with it (qt5compat and qtquicktimeline), and users who answer for
two modules: a gap in the dependencies needs one, a component two. Users on Windows, Android and FreeBSD, and some who want
dynamic OpenGL, reach the rules for these systems. Symmetry is not used: the elements differ.

**Fairness.** MemoryMonitor assumes that the scheduler runs both threads and that the time of
`wait(0.1)` passes; nothing forces the body to leave, so `BlockIsLeft` starts at `finally`. Boost's
configure() and the methods of OpenCV, which Conan calls in sequence, are one thread that nothing interrupts; `PackageIsSettled`
then says that the search for what modules need ends. ConanProcess and RecipeUpdates state no fairness: a build may hang, a maintainer
need not come back. NvidiaUpdate assumes that
every request comes to an end, although `requests.get()` is called without a timeout; without the
assumption `ScriptEnds` fails. Deadlock is not checked where a run ends: the build is over, the package
described, the script done, an exception has ended the process, no invocation is left.

## 4. Theorems

All proofs are for arbitrary constants under the named assumptions.

- **ConanProcessProofs.** `ProcessTypeCorrect` (jobs are never 0). `UniformLimitIsSound`: under
  `UniformlyConfigured`, `LimitIsSound`. It is not inductive: the comparison uses the global, so the invariant
  adds what the global is. `MethodsAreThereAlways`, `BuiltFitsAlways`, `AcceptedCanBeBuiltAlways` from `CudaInv`: the public
  methods are always there; the first recipe that was made with private ones has enabled them for all that follow;
  what was accepted stays accepted, since every check reads the request alone; and in the build stage everything that was expanded is
  valid or built. The hypothesis `PrivateCallsAreEnabled` says that who calls a private method enables them
  or requires directly a recipe that does, which the recipes in the repository satisfy.
- **MemoryMonitorProofs.** `MonitorTypeCorrect`; `PeakIsSound` (property WatchIsSound): whatever the readings return, the peak is never
  more than what was free on entry; unless a sample failed, it was in use and the watch ends early only for low memory. The invariant bounds the
  baseline by `entry` and, while nothing was misread, the local sample and the peak by `lowest`. `ReportedOnce`, an action property:
  the block is left only after the thread ended.
- **BoostProofs.** `OptionsTypeCorrect`. `DisabledModulesStayOff` (property BlockedOnlyByCoupling): between `disable()` and the
  coupling no ruled-out module is enabled, because the ruled-out set is closed upwards
  (`BlockedProgress`). `ConfigureSelectsLeast`: every behaviour implements ModuleSelection; the invariant
  `Progress` says that what is enabled lies between the request and the least closed set.
  `CouplingAssumption` is what all dependency files satisfy and what the coupling after the closure needs.
  `PackageTypeCorrect`, `RemovedIsNeverRead` and `MethodsAgreeAlways` for the three methods that follow: `Removal` says which
  options configure() removes, `PackageInv` what requirements() has asked for, and `Enabled` is closed by then.
  The last one needs `UsualFile` - the modules package_info() filters out are leaves without an option, true of all 15 dependency
  files - and that Python comes from Conan. `EnablingEnds`: every step leads to a later part of configure() or a later
  method, or lowers `NotEnabled`, the number of modules that could still be enabled.
- **OpenCVOptionsProofs.** `CvTypeCorrect`, `MandatoryIsSolvedAlways`, `ChangedForAReasonAlways`, `OnlySupportedModulesAlways`, `ComponentsResolveAlways`,
  `RequirementsAreUsedAlways`. `CvInv` says what the two sets of the search are on the way: `Present` (they name options that
  exist), `Following` (what an option seen so far needs is enabled, found, or pending), `SolvedUnlessBuildAll`. `Justified` bounds them from above by
  what enabled modules need, `Supported` and `UnusedIsGone` say which options are left, `Validated` and `DescribedInv` what
  validate() and package_info() may rely on. No assumption on the users but their types. `ComponentsAcyclicAlways`: the components that
  package_info() connects have no cycle. `Level` numbers the modules so that every entry of the tables, conditional or not, leads to a
  lower one (LevelOfBase and the lemmas next to it); with the targets of other packages below and `world` on top this gives every graph of
  components a `rank` (`Ranked`, the invariant). `RanksPeel`: of a ranked graph with N components, N rounds of taking away those
  that require nothing that is left leave none, which is how the property defines a graph without a cycle. `SearchAdvances`: every step
  leads to a later part of the recipe or lowers `Unexplored`, what the search has yet to find plus what it has yet to follow
  (`FollowingExplores`), so it would also end if the tables referred to each other in a circle.
- **NvidiaUpdateProofs.** `NvidiaTypeCorrect` (with the bound on running tasks); `WritingIsOrderly`, from
  TakenRecorded (what was taken was answered), WritingIsAudited (writing means all was taken and
  audited) and TornIsUpdating; `SelectionIsSoundAlways`: whatever the order of arrival, a line has its newest version and a version
  a source that offers it. It rests on `SelectionIsWritten`, on the maxima of NumberLemmas, and on
  lemmas about each of the loops of `_select_versions()`. `ScriptGoesOn`: every step leads to a later phase, or lowers the
  number of steps that the tasks have before them, moves on to the next package, or lowers the number of its folders that are left.
- **RecipeUpdatesProofs.** `UpdateTypeCorrect`, `FilesAgreeAlways`, `UrlsAreKept`, `DoneIsDone`, `ProcessedIsWholeAlways`, `RecipesAreSoundAlways`, and the
  refinements `SuiteSparseImplementsMaintenance` and `OneApiImplementsMaintenance`. `SuiteSparseInv` relates the text that was read,
  the file that was emptied and the other file at each step, `DoneInv` what the packages before `at` have; `OneApiInv` and
  `CompleteInv` say the same of files of sources that are torn, written or still to be removed. The
  hypotheses are about the files before the first invocation: `PatchesCoverNewest` (where any version has patches the
  newest has) and `OldSourcesAreComplete`. `NothingReleasedIsMissedAlways`: when an invocation of the oneAPI script is done, each line
  has the version that was its newest when the invocation began, or a newer one. `OfferInv` carries this through requests that upstream answers at different
  times: an answer is of a state not older than the beginning, and what is selected for a package, and then what it lists, is as new as that
  offer. The hypothesis `UpstreamGrows` is that nothing is taken down and that nothing is published for the
  platforms where a part is excluded; TLC evaluates it on the instance.
- **QtModulesProofs.** `QtTypeCorrect`, `UsersDecide`, `ToolsFollowAlways` from `QtInv`, which adds what the options of
  the host and of the tools are in each stage (HostOptions, ToolsAsked). `ClosedRequestIsNeverRefused`: whatever
  the module file, no cross build is refused over its tools if what the user asks for, with what these modules list, leaves out nothing that one of
  them depends on (`RequestIsClosed`). With the four files in `qtmodules/` that excludes only requests of qtspeech and qtgraphs without qtshadertools, which
  the MC module states for 6.11.0 as an assumption that TLC evaluates (`MCGaps`). `ValidToolsAlways`
  (ValidToolsForValidQt) from `ToolsInv`: the tools have gui, widgets and bluez as `ToolFeatures` says, and build nothing but modules
  with tools of the host and what these list; the hypothesis `ToolsListNoGui` is that a module with tools for which gui is not
  asked lists none that is refused without it. `MissingOnlyUnlistedAlways` goes through the table: `DescribedInv` says that what is
  described was valid and is closed under one level of dependencies, `ValidIsSensible` what follows for the facts (`Sensible`),
  and for each part of the table one lemma says where it lies, one which components it provides, and one that each of its components
  has what it requires. The hypothesis `NeedsAreListed` is about the five modules whose components need one of another module that the
  facts do not imply. TLC evaluates both hypotheses on the instance; they hold of the four files in `qtmodules/` from 6.8.3 to 6.11.0.

**Only model-checked**: liveness (`BlockIsLeft`, `PackageIsDecided`, `PackageIsSettled`, `ScriptEnds`), which is out of reach of the
prover. Of the last three, `EnablingEnds`, `SearchAdvances` and `ScriptGoesOn` prove what does not depend on fairness: no
behaviour takes steps for ever. That an action is enabled until the end is left to TLC, as is the fairness that it is then taken. Every invariant and every action property of the runs that pass is a theorem. The runs that end in a violation show one
behaviour; what holds instead is a theorem where one is known (`ToolsFollowAlways` and `MissingOnlyUnlistedAlways` next to `RequiredArePresent`,
`UniformLimitIsSound` next to the limit per package, `SelectionIsSoundAlways` next to the newest version).

## 5. Observations that no run checks

- `limit_build_jobs`: the comment on line 13 speaks of restoring the original number; a later call with
  more memory leaves an earlier, lower limit in place.
- `monitor_memory_usage`: where `_get_free_memory_gb()` fails it returns 0, or too small a sum (81, 111-113). A failed sample counts as
  all the memory of the entry in use, for good, so that the reported peak can be too high; with a threshold it ends the watch while memory is ample, and
  the message on line 50 is then untrue of the memory as well. On macOS without psutil none of the keys of lines 89-94 exists.
  `WatchIsSound` says what holds in spite of that.
- conan-cuda: cudf calls the private `require_shared_deps` with the public interface only; it works because
  cudart and nvcomp, which it requires, have extended the set of the class. Architectures "all" and "all-major" always end
  in the ValueError of `int()` in `check_min_cuda_architecture` (utils.py:66-67 has no `continue`), although the
  docstring promises ConanInvalidConfiguration; "90a" passes the assertion of cuda_toolchain.py:96 and ends the same way; what does not begin with digits ends in
  that assertion.
  `validate_package` looks up NVIDIA's name ("libnpp") in `packages_following_ctk_major_version`, which has
  Conan's names (line 83), so that the major versions of npp, nvjitlink and nvjpeg are never checked. nvcc and
  cuda-profiler-api do not validate that the platform has an archive and fail with KeyError in package(); cuda-sanitizer-api
  validates the host's platform and downloads that of linux-x86_64. No check looks at a variant per platform.
  libtorch and some 27 other recipes use CudaToolchain in generate() without validate_settings; mathdx and cupqc
  use `self.cuda` without the python_requires.
- Boost: an explicit `with_json=True` is overwritten with an old standard (lines 363-368); header_only
  stays False when every module is switched off (320); the component of python loses `_libboost` and
  cpython (1806); `user.cpython:python` leaves `numpy::numpy` without a requirement (569), the case that
  `MethodsAgree` excepts; `without_coroutine` (404) is no option; package_id() deletes `system_use_utf8`
  that is still a flag (610).
- OpenCV 4: with_cublas and with_cufft without cudaarithm or dnn, and with_framebuffer without highgui, are
  required and used by no component, which `CvRequirementsAreUsed` excepts. build_all_base switches videoio on
  (554-558) after configure() has removed with_ffmpeg because it was off, although the comment on 406-408
  has ffmpeg enabled by default wherever it is supported; before 4.8 it is rejected for want of with_protobuf, unless that is given. build_all_contrib brings superres and barcode
  back where config_options() deleted them, and always ends rejected because of viz.
- Qt 6: `options.update()` (294) gives options back that config_options() removed; `with_egl` is not
  handed to the tools, which qtwayland needs from 6.10 (416); qtgraphs without qtshadertools is accepted
  natively and refused for the tools of a cross build (269), which `RefusedOnlyByGap`, a part of `ToolsFollowModules`, confines.
- SuiteSparse: a stop between config.yml and conandata.yml leaves a version without sources. The next invocation raises
  for every package (line 126) but GraphBLAS, which it skips and then reports done. `update_url_only` copies no patches.
- oneAPI: later invocations heal what a stop left. The filter for complete sets compares with `==`: a version
  would be dropped if Linux ever got the part that is excluded there. onemkl may select a version of which not all parts
  are uploaded yet. `build_apt_sources` takes every package whose name begins with that of the root for the root (301): if one of them is
  a release ahead of it, the script asks for a version that the root does not have, and raises, after it has removed the files of older versions.

## 6. Not modelled

OpenCV 5 and Qt 5 are the recipes of OpenCV 4 and Qt 6 with other tables. The parsers, conan-fortran and
conan-gnu-triplet are pure functions of text or settings. deb.py, python_venv.py and meson_msvc.py are
file operations through libraries. Of Boost, `package_id()`, `build()` and the compiler flags are left
out; of Qt, sources, patches, generate(), package() and the checks of compilers and other packages; of
OpenCV 4, generate(), source(), build() and package(), system libraries and frameworks; of conan-cuda the table of
`get_version_range()`, `version` and `major`, what CudaToolchain writes, and archives for the build or target machine of
a cross build. What Conan does is modelled from how the recipes use it, and marked external. The rest of the
collection, some 2300 recipes, is declarative, and no model of a single one would say more than its text does.

## 7. Plan

Written so far, in this order: JobLimit, MemoryMonitor, BoostOptions with ModuleSelection, BoostPackage, NvidiaUpdate,
QtComponents and QtModules; RecipeMaintenance with SuiteSparseUpdate, OneApiUpdate and RecipeUpdates; OpenCVModules and
OpenCVOptions; CudaInterface and ConanProcess; and proofs about all of them. What is left, in order of its worth:

1. **DependencyTree**: detect_cycles() against a definition of cycles, and the cuts of `_fix_dependencies`,
   from which `CouplingAssumption` and `UsualFile` should follow.
2. package_id() of Boost: builds that share a package do not differ in their flags.
3. OpenCV 5 and Qt 5 as further instances of the tables, with build_all before the search for what modules need.
