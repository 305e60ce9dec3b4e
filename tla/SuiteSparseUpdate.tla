-------------------------- MODULE SuiteSparseUpdate --------------------------
(***************************************************************************)
(* recipes/suitesparse-config/update_suitesparse.py: a maintainer runs it  *)
(* for a release of SuiteSparse.  It reads the versions of the             *)
(* sub-packages from the archive and edits config.yml and conandata.yml of *)
(* one recipe after the other as texts: a new entry goes to the top, and   *)
(* what YAML reads of entries with the same key is the last one.  A file   *)
(* is emptied when it is opened for writing, and an invocation may be      *)
(* stopped between any two steps and followed by another one.              *)
(***************************************************************************)
EXTENDS Naturals, Sequences

CONSTANTS
    SuiteSparseRecipes, \* the sub-packages that have a recipe
    GraphBLAS,          \* the one that has an archive of its own
    Releases,           \* the releases of SuiteSparse
    Members,            \* Members[r]: the archive's <<package, version>>
    OldConfigYml,       \* the files before the first invocation
    OldConandataYml,
    MaxInvocations      \* a bound on the number of invocations

(* The archive of a sub-package itself, and a file without any text. *)
Own == 0
EmptyConfig == <<>>
EmptyConandata == [sources |-> <<>>, patches |-> {}]

PackagesOf(r) == {Members[r][i][1] : i \in DOMAIN Members[r]}
SubPackages == SuiteSparseRecipes \cup UNION {PackagesOf(r) : r \in Releases}

(* What is written in files f of package p, read without their order. *)
Listed(f, p) == {f[p][i] : i \in DOMAIN f[p]}
Entries(f, p, v) == {i \in DOMAIN f[p].sources : f[p].sources[i][1] = v}

ASSUME SuiteSparseAssumption ==
    /\ GraphBLAS \in SuiteSparseRecipes
    /\ Releases \subseteq Nat \ {Own} /\ Releases # {}
    /\ \A r \in Releases :
          /\ Members[r] \in Seq(SubPackages \X Nat)
          /\ GraphBLAS \in PackagesOf(r)
          /\ \A i, j \in DOMAIN Members[r] :
                Members[r][i][1] = Members[r][j][1] => i = j
    /\ OldConfigYml \in [SuiteSparseRecipes -> Seq(Nat) \ {EmptyConfig}]
    /\ OldConandataYml \in
          [SuiteSparseRecipes ->
              [sources : Seq(Nat \X (Releases \cup {Own})), patches : SUBSET Nat]]
    /\ \A p \in SuiteSparseRecipes :
          /\ \A i, j \in DOMAIN OldConfigYml[p] :
                OldConfigYml[p][i] = OldConfigYml[p][j] => i = j
          /\ \A v \in Listed(OldConfigYml, p) :
                \E i \in DOMAIN OldConandataYml[p].sources :
                    Entries(OldConandataYml, p, v) = {i}
          /\ \A i \in DOMAIN OldConandataYml[p].sources :
                OldConandataYml[p].sources[i][1] \in Listed(OldConfigYml, p)
          /\ \A v \in OldConandataYml[p].patches : v \in Listed(OldConfigYml, p)
    /\ MaxInvocations \in Nat

VARIABLES
    configYml,       \* configYml[p]: the versions listed, from the top
    conandataYml,    \* conandataYml[p]: <<version, url>>, versions with patches
    step,            \* what the script is doing, "idle" between invocations
    release,         \* the release of the latest invocation
    at,              \* the place in Members[release]
    graphblasSource, \* whether main() has fetched an archive of GraphBLAS
    text,            \* what has been edited and is to be written
    result,          \* how the latest invocation ended
    invocations      \* their number

suiteSparseVars ==
    <<configYml, conandataYml, step, release, at, graphblasSource, text,
      result, invocations>>

Package == Members[release][at][1]
NewVersion == Members[release][at][2]

VersionIn(r, p) ==
    LET i == CHOOSE j \in DOMAIN Members[r] : Members[r][j][1] = p
    IN  Members[r][i][2]

(* current_version() cannot open the file or finds no versions in it. *)
Unreadable(p) == p \in SuiteSparseRecipes => configYml[p] = EmptyConfig

CurrentVersion(p) ==
    CHOOSE v \in Listed(configYml, p) : \A w \in Listed(configYml, p) : w <= v

Ends(how) == step' = "idle" /\ result' = how
-----------------------------------------------------------------------------
SuiteSparseInit ==
    /\ configYml = OldConfigYml
    /\ conandataYml = OldConandataYml
    /\ step = "idle"
    /\ release = CHOOSE r \in Releases : TRUE
    /\ at = 1
    /\ graphblasSource = FALSE
    /\ text = EmptyConfig
    /\ result = "none"
    /\ invocations = 0

InvokeSuiteSparse(r) ==
    /\ step = "idle"
    /\ invocations < MaxInvocations
    /\ invocations' = invocations + 1
    /\ step' = "download"
    /\ release' = r
    /\ UNCHANGED <<configYml, conandataYml, at, graphblasSource, text, result>>

(* A request that raises. *)
DownloadFails ==
    /\ step = "download"
    /\ Ends("failed")
    /\ UNCHANGED <<configYml, conandataYml, release, at, graphblasSource, text,
                   invocations>>

(* A mutant: the archive is fetched only for a version that grows, which   *)
(* leaves none for a release older than the recipe.                        *)
DownloadNewer ==
    /\ step = "download"
    /\ graphblasSource' =
          (~Unreadable(GraphBLAS) /\ CurrentVersion(GraphBLAS) < VersionIn(release, GraphBLAS))
    /\ at' = 1
    /\ IF Unreadable(GraphBLAS)
       THEN Ends("failed")
       ELSE step' = "update" /\ UNCHANGED result
    /\ UNCHANGED <<configYml, conandataYml, release, text, invocations>>

(* A mutant: the loop begins one too early.                                *)
DownloadFromZero ==
    /\ step = "download"
    /\ graphblasSource' =
          (~Unreadable(GraphBLAS) /\ CurrentVersion(GraphBLAS) # VersionIn(release, GraphBLAS))
    /\ at' = 0
    /\ IF Unreadable(GraphBLAS)
       THEN Ends("failed")
       ELSE step' = "update" /\ UNCHANGED result
    /\ UNCHANGED <<configYml, conandataYml, release, text, invocations>>

(* The archive, load_versions(), and the archive of GraphBLAS if its       *)
(* version is not the newest that its recipe lists.                        *)
Download ==
    /\ step = "download"
    /\ graphblasSource' =
          (~Unreadable(GraphBLAS) /\ CurrentVersion(GraphBLAS) # VersionIn(release, GraphBLAS))
    /\ at' = 1
    /\ IF Unreadable(GraphBLAS)
       THEN Ends("failed")
       ELSE step' = "update" /\ UNCHANGED result
    /\ UNCHANGED <<configYml, conandataYml, release, text, invocations>>

Updating == step = "update" /\ at \in DOMAIN Members[release]

(* update_config_yml() raises in current_version(). *)
UpdateRaises ==
    /\ Updating
    /\ Unreadable(Package)
    /\ Ends("failed")
    /\ UNCHANGED <<configYml, conandataYml, release, at, graphblasSource, text,
                   invocations>>

(* update_config_yml() returns False. *)
AlreadyUpToDate ==
    /\ Updating
    /\ ~Unreadable(Package)
    /\ CurrentVersion(Package) = NewVersion
    /\ IF Package = GraphBLAS
       THEN at' = at + 1 /\ UNCHANGED step
       ELSE step' = "url" /\ UNCHANGED at
    /\ UNCHANGED <<configYml, conandataYml, release, graphblasSource, text,
                   result, invocations>>

(* A mutant: a version is inserted although it is there.                   *)
OpenConfigAlways ==
    /\ Updating
    /\ ~Unreadable(Package)
    /\ text' = <<NewVersion>> \o configYml[Package]
    /\ configYml' = [configYml EXCEPT ![Package] = EmptyConfig]
    /\ step' = "config"
    /\ UNCHANGED <<conandataYml, release, at, graphblasSource, result, invocations>>

(* A mutant: the new version takes the place of the others.                *)
OpenConfigReplaces ==
    /\ Updating
    /\ ~Unreadable(Package)
    /\ CurrentVersion(Package) # NewVersion
    /\ text' = <<NewVersion>>
    /\ configYml' = [configYml EXCEPT ![Package] = EmptyConfig]
    /\ step' = "config"
    /\ UNCHANGED <<conandataYml, release, at, graphblasSource, result, invocations>>

(* update_config_yml() inserts the version and opens the file. *)
OpenConfig ==
    /\ Updating
    /\ ~Unreadable(Package)
    /\ CurrentVersion(Package) # NewVersion
    /\ text' = <<NewVersion>> \o configYml[Package]
    /\ configYml' = [configYml EXCEPT ![Package] = EmptyConfig]
    /\ step' = "config"
    /\ UNCHANGED <<conandataYml, release, at, graphblasSource, result, invocations>>

WriteConfig ==
    /\ step = "config"
    /\ configYml' = [configYml EXCEPT ![Package] = text]
    /\ step' = "conandata"
    /\ UNCHANGED <<conandataYml, release, at, graphblasSource, text, result,
                   invocations>>

(* "graphblas_url, graphblas_hash = graphblas_source" fails on None, and   *)
(* update_conandata_yml() on a text without "sources:".                    *)
NothingToUnpack == Package = GraphBLAS /\ ~graphblasSource

ConandataRaises ==
    /\ step = "conandata"
    /\ NothingToUnpack \/ conandataYml[Package] = EmptyConandata
    /\ Ends("failed")
    /\ UNCHANGED <<configYml, conandataYml, release, at, graphblasSource, text,
                   invocations>>

(* A mutant: the patches are left to the maintainer.                       *)
WithNewSourceOnly(files, url) ==
    [sources |-> <<<<NewVersion, url>>>> \o files.sources,
     patches |-> files.patches]

(* A mutant: the new version goes to the bottom.                           *)
WithNewSourceLast(files, url) ==
    [sources |-> files.sources \o <<<<NewVersion, url>>>>,
     patches |-> IF files.patches = {} THEN {}
                 ELSE files.patches \cup {NewVersion}]

(* The text of conandata.yml with the new version, and with a copy of the  *)
(* newest patches if there are any.                                        *)
WithNewVersion(files, url) ==
    [sources |-> <<<<NewVersion, url>>>> \o files.sources,
     patches |-> IF files.patches = {} THEN {}
                 ELSE files.patches \cup {NewVersion}]

OpenConandata ==
    /\ step = "conandata"
    /\ ~NothingToUnpack
    /\ conandataYml[Package] # EmptyConandata
    /\ text' = WithNewVersion(conandataYml[Package],
                              IF Package = GraphBLAS THEN Own ELSE release)
    /\ conandataYml' = [conandataYml EXCEPT ![Package] = EmptyConandata]
    /\ step' = "write"
    /\ UNCHANGED <<configYml, release, at, graphblasSource, result, invocations>>

(* A mutant: no entry is as good as one.                                   *)
UpdateUrlLenient ==
    /\ step = "url"
    /\ text' = [conandataYml[Package] EXCEPT !.sources =
          [i \in DOMAIN @ |->
              IF @[i][1] = NewVersion THEN <<NewVersion, release>> ELSE @[i]]]
    /\ conandataYml' = [conandataYml EXCEPT ![Package] = EmptyConandata]
    /\ step' = "write"
    /\ UNCHANGED <<configYml, release, at, graphblasSource, result, invocations>>

(* update_url_only() replaces the URL of exactly one entry. *)
UpdateUrl ==
    /\ step = "url"
    /\ \E i \in DOMAIN conandataYml[Package].sources :
          /\ Entries(conandataYml, Package, NewVersion) = {i}
          /\ text' = [conandataYml[Package] EXCEPT
                         !.sources[i] = <<NewVersion, release>>]
    /\ conandataYml' = [conandataYml EXCEPT ![Package] = EmptyConandata]
    /\ step' = "write"
    /\ UNCHANGED <<configYml, release, at, graphblasSource, result, invocations>>

UpdateUrlRaises ==
    /\ step = "url"
    /\ \A i \in DOMAIN conandataYml[Package].sources :
          Entries(conandataYml, Package, NewVersion) # {i}
    /\ Ends("failed")
    /\ UNCHANGED <<configYml, conandataYml, release, at, graphblasSource, text,
                   invocations>>

WriteConandata ==
    /\ step = "write"
    /\ conandataYml' = [conandataYml EXCEPT ![Package] = text]
    /\ at' = at + 1
    /\ step' = "update"
    /\ UNCHANGED <<configYml, release, graphblasSource, text, result, invocations>>

FinishSuiteSparse ==
    /\ step = "update"
    /\ at \notin DOMAIN Members[release]
    /\ Ends("done")
    /\ UNCHANGED <<configYml, conandataYml, release, at, graphblasSource, text,
                   invocations>>

(* The maintainer, or the machine, stops the script. *)
StopSuiteSparse ==
    /\ step # "idle"
    /\ Ends("stopped")
    /\ UNCHANGED <<configYml, conandataYml, release, at, graphblasSource, text,
                   invocations>>

SuiteSparseNext ==
    \/ \E r \in Releases : InvokeSuiteSparse(r)
    \/ Download \/ DownloadFails
    \/ UpdateRaises \/ AlreadyUpToDate
    \/ OpenConfig \/ WriteConfig
    \/ ConandataRaises \/ OpenConandata
    \/ UpdateUrl \/ UpdateUrlRaises
    \/ WriteConandata
    \/ FinishSuiteSparse \/ StopSuiteSparse

SuiteSparseSpec == SuiteSparseInit /\ [][SuiteSparseNext]_suiteSparseVars
-----------------------------------------------------------------------------
(* The state has its types. *)
Config == Seq(Nat)
Conandata == [sources : Seq(Nat \X (Releases \cup {Own})), patches : SUBSET Nat]

SuiteSparseTypeOK ==
    /\ configYml \in [SuiteSparseRecipes -> Config]
    /\ conandataYml \in [SuiteSparseRecipes -> Conandata]
    /\ step \in {"idle", "download", "update", "config", "conandata", "url", "write"}
    /\ release \in Releases
    /\ at \in Nat \ {0}
    /\ graphblasSource \in BOOLEAN
    /\ step = "config" => text \in Config
    /\ step = "write" => text \in Conandata
    /\ result \in {"none", "done", "failed", "stopped"}
    /\ invocations \in 0..MaxInvocations

(* The newest version is in config.yml once and in conandata.yml at most   *)
(* once, whatever was stopped and run again: what update_config_yml()      *)
(* reads and what update_url_only() looks for agree.                       *)
NewestIsUnique ==
    \A p \in SuiteSparseRecipes : configYml[p] # EmptyConfig =>
        /\ \A i, j \in DOMAIN configYml[p] :
              configYml[p][i] = CurrentVersion(p) /\ configYml[p][j] = CurrentVersion(p)
                  => i = j
        /\ \A i, j \in Entries(conandataYml, p, CurrentVersion(p)) : i = j

(* A version gets sources and patches only after config.yml lists it. *)
SourcesAreListed ==
    \A p \in SuiteSparseRecipes : configYml[p] # EmptyConfig =>
        /\ \A i \in DOMAIN conandataYml[p].sources :
              conandataYml[p].sources[i][1] \in Listed(configYml, p)
        /\ conandataYml[p].patches \subseteq Listed(configYml, p)

(* The archive of GraphBLAS is there whenever main() unpacks it, although  *)
(* the version is compared once before the loop and once in it.            *)
NoneIsNeverUnpacked == step = "conandata" => ~NothingToUnpack

(* What any invocation finds in the two files, that it can work with them: *)
(* the functions that read one file and edit the other agree on versions.  *)
FilesAgree == NewestIsUnique /\ SourcesAreListed /\ NoneIsNeverUnpacked

(* A version that is listed and has sources, and patches if there are any. *)
HasSources(p, v) ==
    /\ p \in SuiteSparseRecipes
    /\ v \in Listed(configYml, p)
    /\ Entries(conandataYml, p, v) # {}
    /\ conandataYml[p].patches # {} => v \in conandataYml[p].patches

(* An invocation that is done leaves every sub-package of the release with *)
(* the sources of its version, and where this is the newest version of the *)
(* recipe they are the archive of the release.  GraphBLAS is left out: a   *)
(* newest version that is listed is skipped, with or without sources.      *)
DoneMeansUpdated ==
    result = "done" /\ step = "idle" =>
        \A p \in PackagesOf(release) \ {GraphBLAS} :
            LET v == VersionIn(release, p) IN
            /\ HasSources(p, v)
            /\ CurrentVersion(p) = v =>
                  \A i \in Entries(conandataYml, p, v) :
                      conandataYml[p].sources[i] = <<v, release>>

(* What Conan reads of two entries with the same key: the last one. *)
UrlRead(sources, v) ==
    LET i == CHOOSE k \in DOMAIN sources :
                 /\ sources[k][1] = v
                 /\ \A l \in DOMAIN sources : sources[l][1] = v => l <= k
    IN  sources[i][2]

(* What is written to conandata.yml keeps the URL that is read for every   *)
(* version but the newest one, even when the script is run for an older    *)
(* release and inserts a version again.                                    *)
OlderUrlsAreKept ==
    [][step # "write" /\ step' = "write" =>
          \A v \in Listed(configYml, Package) :
              v < CurrentVersion(Package) /\ Entries(conandataYml, Package, v) # {} =>
                  UrlRead(text'.sources, v) =
                      UrlRead(conandataYml[Package].sources, v)]_suiteSparseVars

(* The script is what a maintainer expects, for all packages of a release  *)
(* but GraphBLAS.                                                          *)
SuiteSparseMaintenance ==
    INSTANCE RecipeMaintenance WITH
        Recipes <- SubPackages,
        Versions <- Nat,
        status <- IF step # "idle" THEN "running"
                  ELSE CASE result = "none" -> "idle"
                         [] result = "done" -> "done"
                         [] OTHER -> "stopped",
        wanted <- [p \in SubPackages |->
            IF p \in PackagesOf(release) \ {GraphBLAS} THEN {VersionIn(release, p)}
            ELSE {}],
        complete <- [p \in SubPackages |->
            IF p \notin SuiteSparseRecipes THEN {}
            ELSE {v \in Listed(configYml, p) : HasSources(p, v)}]

SuiteSparseIsMaintenance == SuiteSparseMaintenance!Spec
=============================================================================
