---------------------------- MODULE OneApiUpdate -----------------------------
(***************************************************************************)
(* recipes/conan-utils/all/scripts/update-oneapi.py: a maintainer runs it, *)
(* and it regenerates the recipes of Intel's packages from what PyPI and   *)
(* an APT repository offer at the time of each of its requests.  Per       *)
(* package it removes files of sources, writes one file per version, then  *)
(* config.yml, then conandata.yml.  A file is emptied when it is opened    *)
(* for writing, and an invocation may be stopped between any two steps and *)
(* followed by another one.                                                *)
(***************************************************************************)
EXTENDS Naturals, Sequences

CONSTANTS
    PypiPackages,    \* PACKAGES and
    AptPackages,     \* APT_PACKAGES, each the sequence of its Conan packages
    Parts,           \* Parts[p]: the upstream packages of p, its root first
    Namesakes,       \* Namesakes[p]: the packages in the APT repository whose
                     \* names begin with that of the root of p
    OptionalParts,   \* those that build_apt_sources() may leave out
    MinVersion,      \* MinVersion[p]: MIN_VERSIONS and APT_MIN_VERSIONS
    Excluded,        \* COMPLETE_PACKAGE_SETS: Excluded[p][platform]
    Upstream,        \* what is on offer, as it grows
    OldFiles,        \* the sources before the first invocation
    MaxRuns          \* a bound on the number of invocations

Platforms == {"Linux", "Windows"}
OneApiPackages == PypiPackages \o AptPackages
OneApiRecipes == {OneApiPackages[i] : i \in DOMAIN OneApiPackages}
PypiRecipes == {PypiPackages[i] : i \in DOMAIN PypiPackages}
CompleteSets == DOMAIN Excluded
PartsOf(p) == {Parts[p][i] : i \in DOMAIN Parts[p]}
Root(p) == Parts[p][1]
Architectures == <<"amd64", "all">>

(* A version is a number whose last digit is the patch level. *)
Line(v) == v \div 10

(* A file after it was opened for writing. *)
Torn == <<>>

ASSUME OneApiAssumption ==
    /\ PypiPackages \in Seq(PypiRecipes)
    /\ AptPackages \in Seq(OneApiRecipes)
    /\ \A i, j \in DOMAIN OneApiPackages :
          OneApiPackages[i] = OneApiPackages[j] => i = j
    /\ Len(AptPackages) > 0
    /\ \A p \in OneApiRecipes :
          /\ Parts[p] \in Seq(PartsOf(p)) /\ Len(Parts[p]) > 0
          /\ MinVersion[p] \in Nat
    /\ \A p \in OneApiRecipes \ PypiRecipes : Root(p) \in Namesakes[p]
    /\ CompleteSets \subseteq PypiRecipes
    /\ DOMAIN Upstream = 1..Len(Upstream) /\ Len(Upstream) > 0
    /\ \A t \in DOMAIN Upstream, p \in PypiRecipes : \A part \in PartsOf(p) :
          DOMAIN Upstream[t].pypi[part] \subseteq Nat
    /\ \A t \in DOMAIN Upstream, i \in DOMAIN Architectures :
          \A e \in Upstream[t].apt[Architectures[i]] : e[2] \in Nat
    /\ DOMAIN OldFiles = OneApiRecipes
    /\ \A p \in OneApiRecipes : DOMAIN OldFiles[p] \subseteq Nat
    /\ MaxRuns \in Nat

(* What is published stays, and what is excluded from a platform is never  *)
(* published for it.                                                       *)
UpstreamGrows ==
    /\ \A t, u \in DOMAIN Upstream : t <= u =>
          /\ \A p \in PypiRecipes : \A part \in PartsOf(p) :
                \A v \in DOMAIN Upstream[t].pypi[part] :
                    /\ v \in DOMAIN Upstream[u].pypi[part]
                    /\ Upstream[t].pypi[part][v] \subseteq Upstream[u].pypi[part][v]
          /\ \A i \in DOMAIN Architectures :
                Upstream[t].apt[Architectures[i]] \subseteq Upstream[u].apt[Architectures[i]]
    /\ \A p \in CompleteSets : \A platform \in Platforms \cap DOMAIN Excluded[p] :
          \A part \in PartsOf(p) \cap Excluded[p][platform], u \in DOMAIN Upstream :
              \A v \in DOMAIN Upstream[u].pypi[part] :
                  platform \notin Upstream[u].pypi[part][v]

VARIABLES
    now,       \* the latest of Upstream
    phase,     \* what the script is doing, "idle" between invocations
    turn,      \* the place in OneApiPackages
    answers,   \* per request for this package, what was on offer then
    selected,  \* selected_versions
    rest,      \* those whose file is still to be written
    files,     \* files[p][v]: the sources of v
    config,    \* config[p] and
    conandata, \* conandata[p]: the versions listed
    outcome,   \* how the latest invocation ended
    begun,     \* what was on offer when it began
    runs       \* the number of invocations

oneApiVars ==
    <<now, phase, turn, answers, selected, rest, files, config, conandata,
      outcome, begun, runs>>

Recipe == OneApiPackages[turn]
IsApt(p) == p \notin PypiRecipes

(* What the answers say of part i and of the root package of a PyPI recipe. *)
Published(p, i) == Upstream[answers[i + 1]].pypi[Parts[p][i]]
RootVersions(p) == DOMAIN Upstream[answers[1]].pypi[Root(p)]

AptIndex == UNION {Upstream[answers[i]].apt[Architectures[i]] : i \in DOMAIN Architectures}
AptVersions(part) == {e[2] : e \in {f \in AptIndex : f[1] = part}}

PypiSources(p, v) ==
    [platform \in Platforms |->
        {Parts[p][i] : i \in {j \in DOMAIN Parts[p] :
            v \in DOMAIN Published(p, j) /\ platform \in Published(p, j)[v]}}]

(* An optional part may come from another patch level. *)
AptPart(part, v) ==
    IF part \in OptionalParts
    THEN \E w \in AptVersions(part) : Line(w) = Line(v)
    ELSE v \in AptVersions(part)

AptSources(p, v) ==
    [platform \in {"Linux"} |-> {part \in PartsOf(p) : AptPart(part, v)}]

SourcesOf(p, v) == IF IsApt(p) THEN AptSources(p, v) ELSE PypiSources(p, v)

(* A mutant: what is published is taken to be complete.                    *)
AlwaysComplete(p, v) == p \in PypiRecipes

(* A set that must be complete has all parts on each platform but the ones *)
(* that are excluded there.                                                *)
IsCompleteSet(p, v) ==
    p \in CompleteSets =>
        \A platform \in Platforms :
            PypiSources(p, v)[platform] =
                PartsOf(p) \ (IF platform \in DOMAIN Excluded[p]
                              THEN Excluded[p][platform] ELSE {})

(* root_versions: a package whose name only begins like the root's counts  *)
(* as a version of it.                                                     *)
AptCandidates(p) == UNION {AptVersions(part) : part \in Namesakes[p]}

Candidates(p) ==
    IF IsApt(p) THEN AptCandidates(p)
    ELSE {v \in RootVersions(p) : IsCompleteSet(p, v)}

(* A mutant: the comparison of two versions of a line is reversed.         *)
SelectOldest(p) ==
    {v \in Candidates(p) :
        /\ v >= MinVersion[p]
        /\ \A w \in Candidates(p) : w >= MinVersion[p] /\ Line(w) = Line(v) => v <= w}

(* select_versions(): the newest version of every line. *)
SelectVersions(p) ==
    {v \in Candidates(p) :
        /\ v >= MinVersion[p]
        /\ \A w \in Candidates(p) : Line(w) = Line(v) => w <= v}

Requests(p) == IF IsApt(p) THEN Len(Architectures) ELSE 1 + Len(Parts[p])
Answered == Len(answers) = Requests(Recipe)

Without(f, v) == [w \in DOMAIN f \ {v} |-> f[w]]
With(f, v, s) == [w \in DOMAIN f \cup {v} |-> IF w = v THEN s ELSE f[w]]
-----------------------------------------------------------------------------
OneApiInit ==
    /\ now = 1
    /\ phase = "idle"
    /\ turn = 1
    /\ answers = <<>>
    /\ selected = {}
    /\ rest = {}
    /\ files = OldFiles
    /\ config = [p \in OneApiRecipes |-> DOMAIN OldFiles[p]]
    /\ conandata = [p \in OneApiRecipes |-> DOMAIN OldFiles[p]]
    /\ outcome = "none"
    /\ begun = 1
    /\ runs = 0

(* Intel publishes something. *)
Publish ==
    /\ now < Len(Upstream)
    /\ now' = now + 1
    /\ UNCHANGED <<phase, turn, answers, selected, rest, files, config,
                   conandata, outcome, begun, runs>>

InvokeOneApi ==
    /\ phase = "idle"
    /\ runs < MaxRuns
    /\ runs' = runs + 1
    /\ phase' = "list"
    /\ turn' = 1
    /\ begun' = now
    /\ UNCHANGED <<now, answers, selected, rest, files, config, conandata, outcome>>

EndsOneApi(how) ==
    /\ phase' = "idle"
    /\ outcome' = how
    /\ answers' = <<>>
    /\ selected' = {}
    /\ rest' = {}
    /\ turn' = 1
    /\ UNCHANGED <<now, files, config, conandata, begun, runs>>

(* list_all_intel_packages() and check_for_new_onemkl_packages(). *)
ListPackages ==
    /\ phase = "list"
    /\ ~Upstream[now].newMkl
    /\ phase' = "fetch"
    /\ UNCHANGED <<now, turn, answers, selected, rest, files, config, conandata,
                   outcome, begun, runs>>

NewMklRaises ==
    /\ phase = "list"
    /\ Upstream[now].newMkl
    /\ EndsOneApi("failed")

(* load_pypi_json() for the root and for each part, or load_apt_index(). *)
Request ==
    /\ phase = "fetch"
    /\ ~Answered
    /\ answers' = Append(answers, now)
    /\ UNCHANGED <<now, phase, turn, selected, rest, files, config, conandata,
                   outcome, begun, runs>>

RequestFails ==
    /\ phase = "list" \/ (phase = "fetch" /\ ~Answered)
    /\ EndsOneApi("failed")

Select ==
    /\ phase = "fetch"
    /\ Answered
    /\ selected' = SelectVersions(Recipe)
    /\ rest' = SelectVersions(Recipe)
    /\ phase' = "remove"
    /\ UNCHANGED <<now, turn, answers, files, config, conandata, outcome, begun, runs>>

OldSources == DOMAIN files[Recipe] \ selected

(* One step of the loop of remove_old_sources(). *)
Unlink(v) ==
    /\ phase = "remove"
    /\ v \in OldSources
    /\ files' = [files EXCEPT ![Recipe] = Without(@, v)]
    /\ UNCHANGED <<now, phase, turn, answers, selected, rest, config, conandata,
                   outcome, begun, runs>>

Removed ==
    /\ phase = "remove"
    /\ OldSources = {}
    /\ phase' = "write"
    /\ UNCHANGED <<now, turn, answers, selected, rest, files, config, conandata,
                   outcome, begun, runs>>

(* The version whose file is next. *)
Current == CHOOSE v \in rest : \A w \in rest : v <= w

(* build_apt_sources() raises for a part that is not optional. *)
PartMissing(p, v) ==
    IsApt(p) /\ \E part \in PartsOf(p) \ OptionalParts : ~AptPart(part, v)

BuildRaises ==
    /\ phase = "write"
    /\ rest # {}
    /\ PartMissing(Recipe, Current)
    /\ EndsOneApi("failed")

(* A mutant: a file that is there is not written again.                    *)
OpenNewFile ==
    /\ phase = "write"
    /\ rest # {}
    /\ ~PartMissing(Recipe, Current)
    /\ IF Current \in DOMAIN files[Recipe]
       THEN rest' = rest \ {Current} /\ UNCHANGED <<files, phase>>
       ELSE /\ files' = [files EXCEPT ![Recipe] = With(@, Current, Torn)]
            /\ phase' = "dump"
            /\ UNCHANGED rest
    /\ UNCHANGED <<now, turn, answers, selected, config, conandata, outcome,
                   begun, runs>>

(* write_yaml() opens the file. *)
OpenFile ==
    /\ phase = "write"
    /\ rest # {}
    /\ ~PartMissing(Recipe, Current)
    /\ files' = [files EXCEPT ![Recipe] = With(@, Current, Torn)]
    /\ phase' = "dump"
    /\ UNCHANGED <<now, turn, answers, selected, rest, config, conandata,
                   outcome, begun, runs>>

DumpFile ==
    /\ phase = "dump"
    /\ files' = [files EXCEPT ![Recipe] = With(@, Current, SourcesOf(Recipe, Current))]
    /\ rest' = rest \ {Current}
    /\ phase' = "write"
    /\ UNCHANGED <<now, turn, answers, selected, config, conandata, outcome,
                   begun, runs>>

OpenConfigYml ==
    /\ phase = "write"
    /\ rest = {}
    /\ config' = [config EXCEPT ![Recipe] = {}]
    /\ phase' = "config"
    /\ UNCHANGED <<now, turn, answers, selected, rest, files, conandata, outcome,
                   begun, runs>>

(* A mutant: the versions that are there stay listed.                      *)
WriteConfigAppends ==
    /\ phase = "config"
    /\ config' = [config EXCEPT ![Recipe] = selected \cup conandata[Recipe]]
    /\ phase' = "open"
    /\ UNCHANGED <<now, turn, answers, selected, rest, files, conandata, outcome,
                   begun, runs>>

WriteConfigYml ==
    /\ phase = "config"
    /\ config' = [config EXCEPT ![Recipe] = selected]
    /\ phase' = "open"
    /\ UNCHANGED <<now, turn, answers, selected, rest, files, conandata, outcome,
                   begun, runs>>

OpenConandataYml ==
    /\ phase = "open"
    /\ conandata' = [conandata EXCEPT ![Recipe] = {}]
    /\ phase' = "conandata"
    /\ UNCHANGED <<now, turn, answers, selected, rest, files, config, outcome,
                   begun, runs>>

NextIsApt == turn < Len(OneApiPackages) /\ IsApt(OneApiPackages[turn + 1])

(* A mutant: the last package is left out.                                 *)
WriteConandataEndsEarly ==
    /\ phase = "conandata"
    /\ conandata' = [conandata EXCEPT ![Recipe] = selected]
    /\ turn' = turn + 1
    /\ answers' = IF IsApt(Recipe) /\ NextIsApt THEN answers ELSE <<>>
    /\ selected' = {}
    /\ phase' = IF turn + 1 = Len(OneApiPackages) THEN "end" ELSE "fetch"
    /\ UNCHANGED <<now, rest, files, config, outcome, begun, runs>>

(* The last write, and the end of the loop's body: the APT index is kept   *)
(* for all packages that need it.                                          *)
WriteConandataYml ==
    /\ phase = "conandata"
    /\ conandata' = [conandata EXCEPT ![Recipe] = selected]
    /\ turn' = turn + 1
    /\ answers' = IF IsApt(Recipe) /\ NextIsApt THEN answers ELSE <<>>
    /\ selected' = {}
    /\ phase' = IF turn = Len(OneApiPackages) THEN "end" ELSE "fetch"
    /\ UNCHANGED <<now, rest, files, config, outcome, begun, runs>>

FinishOneApi == phase = "end" /\ EndsOneApi("done")

(* The maintainer, or the machine, stops the script. *)
StopOneApi == phase # "idle" /\ EndsOneApi("stopped")

OneApiNext ==
    \/ Publish
    \/ InvokeOneApi
    \/ ListPackages \/ NewMklRaises
    \/ Request \/ RequestFails
    \/ Select
    \/ (phase = "remove" /\ \E v \in OldSources : Unlink(v))
    \/ Removed
    \/ BuildRaises \/ OpenFile \/ DumpFile
    \/ OpenConfigYml \/ WriteConfigYml
    \/ OpenConandataYml \/ WriteConandataYml
    \/ FinishOneApi \/ StopOneApi

OneApiSpec == OneApiInit /\ [][OneApiNext]_oneApiVars
-----------------------------------------------------------------------------
(* The state has its types. *)
OneApiTypeOK ==
    /\ now \in DOMAIN Upstream
    /\ phase \in {"idle", "list", "fetch", "remove", "write", "dump", "config",
                  "open", "conandata", "end"}
    /\ turn \in 1..(Len(OneApiPackages) + 1)
    /\ (turn > Len(OneApiPackages)) <=> (phase = "end")
    /\ answers \in Seq(1..now)
    /\ selected \subseteq Nat
    /\ rest \subseteq selected
    /\ phase = "dump" => rest # {}
    /\ \A p \in OneApiRecipes : DOMAIN files[p] \subseteq Nat
    /\ config \in [OneApiRecipes -> SUBSET Nat]
    /\ conandata \in [OneApiRecipes -> SUBSET Nat]
    /\ outcome \in {"none", "done", "failed", "stopped"}
    /\ begun \in 1..now
    /\ runs \in 0..MaxRuns

(* What Conan needs of a recipe: both files list the same versions, each   *)
(* of them has a file of sources, and no other file is there.              *)
IsWhole(p) ==
    /\ config[p] = DOMAIN files[p]
    /\ conandata[p] = DOMAIN files[p]
    /\ \A v \in DOMAIN files[p] : files[p][v] # Torn

Processed ==
    {OneApiPackages[i] : i \in
        {j \in DOMAIN OneApiPackages :
            IF phase = "idle" THEN outcome = "done" ELSE j < turn}}

(* Whatever earlier invocations have left, every recipe that this one is   *)
(* past is whole, and all are when it is done: the script heals what a     *)
(* stop has torn.                                                          *)
ProcessedIsWhole == \A p \in Processed : IsWhole(p)

(* A file of sources that is not torn has all parts that the recipe needs, *)
(* although every part is asked for separately while Intel uploads them.   *)
SourcesAreComplete ==
    \A p \in OneApiRecipes : \A v \in DOMAIN files[p] : files[p][v] # Torn =>
        /\ IsApt(p) => PartsOf(p) \ OptionalParts \subseteq files[p][v]["Linux"]
        /\ p \in CompleteSets => \A platform \in Platforms :
              files[p][v][platform] =
                  PartsOf(p) \ (IF platform \in DOMAIN Excluded[p]
                                THEN Excluded[p][platform] ELSE {})

(* What an invocation leaves behind is whole and complete. *)
RecipesAreSound == ProcessedIsWhole /\ SourcesAreComplete

(* What was on offer, in all its parts, when the invocation began. *)
Offered(p) ==
    IF IsApt(p)
    THEN {e[2] : e \in {f \in UNION {Upstream[begun].apt[Architectures[i]] :
                                        i \in DOMAIN Architectures} : f[1] = Root(p)}}
    ELSE {v \in DOMAIN Upstream[begun].pypi[Root(p)] :
            p \in CompleteSets => \A platform \in Platforms :
                {part \in PartsOf(p) :
                    /\ v \in DOMAIN Upstream[begun].pypi[part]
                    /\ platform \in Upstream[begun].pypi[part][v]} =
                PartsOf(p) \ (IF platform \in DOMAIN Excluded[p]
                              THEN Excluded[p][platform] ELSE {})}

(* When the script is done, the recipes offer, for every line, the version *)
(* that was the newest one at its start or a newer one, whatever was       *)
(* published between two requests.                                         *)
NothingReleasedIsMissed ==
    phase = "idle" /\ outcome = "done" =>
        \A p \in OneApiRecipes : \A v \in Offered(p) :
            v >= MinVersion[p] =>
                \E w \in config[p] : Line(w) = Line(v) /\ w >= v

(* The script is what a maintainer expects, for every version it offers.   *)
OneApiMaintenance ==
    INSTANCE RecipeMaintenance WITH
        Recipes <- OneApiRecipes,
        Versions <- Nat,
        status <- IF phase # "idle" THEN "running"
                  ELSE CASE outcome = "none" -> "idle"
                         [] outcome = "done" -> "done"
                         [] OTHER -> "stopped",
        wanted <- config,
        complete <- [p \in OneApiRecipes |->
            {v \in config[p] \cap conandata[p] \cap DOMAIN files[p] :
                files[p][v] # Torn}]

OneApiIsMaintenance == OneApiMaintenance!Spec
=============================================================================
