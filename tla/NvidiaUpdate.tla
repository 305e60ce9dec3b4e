---------------------------- MODULE NvidiaUpdate ----------------------------
(***************************************************************************)
(* recipes/conan-cuda/all/scripts/update-nvidia-packages.py: two pools of  *)
(* threads fetch first the index pages of the NVIDIA redistributables,     *)
(* then all manifests (redistrib_*.json); the main thread takes the        *)
(* results in the order in which they complete, audits the names of all    *)
(* components, selects the versions that each recipe offers, and rewrites  *)
(* conandata.yml and config.yml of one recipe after the other.             *)
(*                                                                         *)
(* A version is a number of which the last digit is the patch and the one  *)
(* before it the minor part: 912 is 9.1.2.  The rename of cutensornet's    *)
(* versions is taken to be part of the manifest.                           *)
(***************************************************************************)
EXTENDS Naturals, Sequences, FiniteSets

CONSTANTS
    Bases,       \* the base URLs found in the recipes' conandata.yml
    Manifests,   \* the URLs of the manifests
    BaseOf,      \* BaseOf[m]: the base URL whose index page lists m
    UrlRank,     \* UrlRank[m]: the place of m when URLs are sorted
    Answers,     \* Answers[m]: what the server may answer for m
    Packages,    \* the names of the Conan packages, sorted
    NvPackages,  \* NvPackages[p]: names of its component, preferred first
    Urls,        \* Urls[p]: the base URLs in the sources of p
    Ignored,     \* the components that have no recipe on purpose
    Folders,     \* Folders[p]: the folders of p that hold a conanfile.py
    VersionRange,\* VersionRange[f]: lower and, exclusive, upper bound
    Policy,      \* Policy[f]: "latest", "latest_major" or "latest_minor"
    OldConandata,\* the files before the script runs
    OldConfig,
    Workers      \* the number of threads of a pool

(* A manifest without "release_date" gives None. *)
NoDate == 0

NoAnswer == [date |-> NoDate, components |-> <<>>]

PackageSet == {Packages[i] : i \in DOMAIN Packages}
AllFolders == UNION {Folders[p] : p \in PackageSet}
NvNames(p) == {NvPackages[p][i] : i \in DOMAIN NvPackages[p]}
Tasks == Bases \cup Manifests

ASSUME NvidiaAssumption ==
    /\ IsFiniteSet(Bases) /\ IsFiniteSet(Manifests)
    /\ Bases \cap Manifests = {}
    /\ BaseOf \in [Manifests -> Bases]
    /\ UrlRank \in [Manifests -> Nat]
    /\ \A m \in Manifests : \A a \in Answers[m] :
          /\ a.date \in Nat
          /\ \A nv \in DOMAIN a.components :
                a.components[nv] \in [version : Nat, variants : Seq(Nat)]
    /\ \A i, j \in DOMAIN Packages : Packages[i] = Packages[j] => i = j
    /\ \A p \in PackageSet :
          /\ Urls[p] \subseteq Bases
          /\ Len(NvPackages[p]) \in Nat
          /\ DOMAIN NvPackages[p] = 1..Len(NvPackages[p])
    /\ \A p, q \in PackageSet : p # q => Folders[p] \cap Folders[q] = {}
    /\ IsFiniteSet(AllFolders)
    /\ OldConandata \in [AllFolders -> SUBSET (Nat \X Manifests)]
    /\ \A p \in PackageSet :
          OldConfig[p] = UNION {{<<s[1], f>> : s \in OldConandata[f]} : f \in Folders[p]}
    /\ DOMAIN OldConfig = PackageSet
    /\ Packages \in Seq(PackageSet)
    /\ Workers \in Nat \ {0}

VARIABLES
    args,      \* the packages given on the command line, and --audit-only
    phase,     \* what the main thread is doing
    task,      \* task[t]: the state of the future of t
    answer,    \* what a thread fetched: url_dates, hashes and the result
    taken,     \* the manifests whose results were taken, in that order
    at,        \* the place in Packages of the package that is updated
    rewritten, \* the folders whose conandata.yml has been rewritten
    conandata, \* conandata[f]: the sources in conandata.yml, <<version, url>>
    config     \* config[p]: the versions in config.yml, <<version, folder>>

vars == <<args, phase, task, answer, taken, at, rewritten, conandata, config>>

Taken == {taken[i] : i \in DOMAIN taken}
-----------------------------------------------------------------------------
(* What one manifest offers for a package. *)

(* _process_base_url: the components that a package with this base names. *)
Relevant(m) ==
    UNION {NvNames(p) : p \in {q \in PackageSet : BaseOf[m] \in Urls[q]}}

Offering(m, p) == NvNames(p) \cap DOMAIN answer[m].components \cap Relevant(m)

(* "to allow earlier names to take precedence". *)
Offer(m, p) ==
    LET first == CHOOSE i \in DOMAIN NvPackages[p] :
                     /\ NvPackages[p][i] \in Offering(m, p)
                     /\ \A j \in 1..(i - 1) : NvPackages[p][j] \notin Offering(m, p)
    IN  answer[m].components[NvPackages[p][first]]

(* "cuda_versions or [0]" *)
Variants(m, p) ==
    IF Offer(m, p).variants = <<>> THEN <<0>> ELSE Offer(m, p).variants

Majors(m, p) == {Variants(m, p)[j] : j \in DOMAIN Variants(m, p)}

Offerers(S, p) == {m \in S : Offering(m, p) # {}}
-----------------------------------------------------------------------------
(* _select_versions(), for folder f of package p and the results of S.     *)

Key(f, v) ==
    CASE Policy[f] = "latest" -> 0
      [] Policy[f] = "latest_major" -> v \div 100
      [] Policy[f] = "latest_minor" -> v \div 10

InRange(f, v) == VersionRange[f][1] <= v /\ v < VersionRange[f][2]

(* A mutant: one group per line, for all CUDA major versions together.     *)
GroupOfAllCuda(S, p, f, c, key) ==
    {m \in Offerers(S, p) :
        /\ InRange(f, Offer(m, p).version)
        /\ Key(f, Offer(m, p).version) = key}

(* The manifests from which a group of a CUDA major version c and a key is *)
(* made.                                                                   *)
Group(S, p, f, c, key) ==
    {m \in Offerers(S, p) :
        /\ InRange(f, Offer(m, p).version)
        /\ c \in Majors(m, p)
        /\ Key(f, Offer(m, p).version) = key}

IsNewest(S, p, f, c, m) ==
    /\ InRange(f, Offer(m, p).version)
    /\ c \in Majors(m, p)
    /\ \A n \in Group(S, p, f, c, Key(f, Offer(m, p).version)) :
          Offer(n, p).version <= Offer(m, p).version

(* The groups that select version v, named by their CUDA major version.    *)
SelectedFor(S, p, f, v) ==
    UNION {{c \in Majors(m, p) : IsNewest(S, p, f, c, m)} :
              m \in {x \in Offerers(S, p) : Offer(x, p).version = v}}

SelectedVersions(S, p, f) ==
    {v \in {Offer(m, p).version : m \in Offerers(S, p)} :
        SelectedFor(S, p, f, v) # {}}

(* A mutant: all that is known for CUDA c. *)
SourcesOfCuda(S, p, v, c) == {m \in Offerers(S, p) : c \in Majors(m, p)}

(* The manifests that offer v for CUDA c. *)
Sources(S, p, v, c) ==
    {m \in Offerers(S, p) : Offer(m, p).version = v /\ c \in Majors(m, p)}

(* sorted(info) cannot compare a date with None. *)
Incomparable(p, f) ==
    \E v \in SelectedVersions(Taken, p, f) :
        \E c \in SelectedFor(Taken, p, f, v) :
            \E m, n \in Sources(Taken, p, v, c) :
                answer[m].date = NoDate /\ answer[n].date # NoDate

Later(m, n) ==
    \/ answer[m].date > answer[n].date
    \/ answer[m].date = answer[n].date /\ UrlRank[m] >= UrlRank[n]

NewestUrl(p, v, c) ==
    CHOOSE m \in Sources(Taken, p, v, c) :
        \A n \in Sources(Taken, p, v, c) : Later(m, n)

(* The dict of groups keeps the order of insertion: versions in the order  *)
(* in which they were first met, and the instances of a version in order.  *)
FirstMet(p, v) ==
    CHOOSE i \in DOMAIN taken :
        /\ Offering(taken[i], p) # {} /\ Offer(taken[i], p).version = v
        /\ \A j \in 1..(i - 1) :
              Offering(taken[j], p) # {} => Offer(taken[j], p).version # v

Positions(p, f, c, v) ==
    UNION {{<<FirstMet(p, Offer(taken[i], p).version), i, j>> :
              j \in {k \in DOMAIN Variants(taken[i], p) :
                        Variants(taken[i], p)[k] = c}} :
              i \in {k \in DOMAIN taken : taken[k] \in Group(Taken, p, f, c, Key(f, v))}}

Precedes(a, b) ==
    \/ a[1] < b[1]
    \/ a[1] = b[1] /\ a[2] < b[2]
    \/ a[1] = b[1] /\ a[2] = b[2] /\ a[3] < b[3]

(* The group inserted last: it is the one whose URL selected[ver] keeps.   *)
LastGroup(p, f, v) ==
    CHOOSE c \in SelectedFor(Taken, p, f, v) :
        \A d \in SelectedFor(Taken, p, f, v) \ {c} :
            \E a \in Positions(p, f, d, v) :
                \A b \in Positions(p, f, c, v) : Precedes(a, b)

Selected(p, f) ==
    {<<v, NewestUrl(p, v, LastGroup(p, f, v))>> :
        v \in SelectedVersions(Taken, p, f)}
-----------------------------------------------------------------------------
Init ==
    /\ args \in [packages : SUBSET PackageSet, auditOnly : BOOLEAN]
    /\ phase = "listing"
    /\ task = [t \in Tasks |-> IF t \in Bases THEN "waiting" ELSE "unsubmitted"]
    /\ answer = [m \in Manifests |-> NoAnswer]
    /\ taken = <<>>
    /\ at = 1
    /\ rewritten = {}
    /\ conandata = OldConandata
    /\ config = OldConfig

Running == {t \in Tasks : task[t] = "running"}

(* A mutant: every task has a thread of its own. *)
StartTaskUnbounded(t) ==
    /\ task[t] = "waiting"
    /\ task' = [task EXCEPT ![t] = "running"]
    /\ UNCHANGED <<args, phase, answer, taken, at, rewritten, conandata, config>>

(* A thread of the pool takes up a task.  The queue of the pool is first   *)
(* in, first out; its order, which depends on the index pages, is left     *)
(* open.                                                                   *)
StartTask(t) ==
    /\ task[t] = "waiting"
    /\ Cardinality(Running) < Workers
    /\ task' = [task EXCEPT ![t] = "running"]
    /\ UNCHANGED <<args, phase, answer, taken, at, rewritten, conandata, config>>

(* _process_base_url returns. *)
IndexFetched(b) ==
    /\ task[b] = "running"
    /\ task' = [task EXCEPT ![b] = "finished"]
    /\ UNCHANGED <<args, phase, answer, taken, at, rewritten, conandata, config>>

(* _fetch_and_process_redist_file returns, after it has written hashes and *)
(* url_dates.                                                              *)
ManifestFetched(m) ==
    /\ task[m] = "running"
    /\ task' = [task EXCEPT ![m] = "finished"]
    /\ \E a \in Answers[m] : answer' = [answer EXCEPT ![m] = a]
    /\ UNCHANGED <<args, phase, taken, at, rewritten, conandata, config>>

(* requests.get or raise_for_status raises. *)
FetchFails(t) ==
    /\ task[t] = "running"
    /\ task' = [task EXCEPT ![t] = "raised"]
    /\ UNCHANGED <<args, phase, answer, taken, at, rewritten, conandata, config>>

(* for future in as_completed(futures): future.result() *)
TakeIndex(b) ==
    /\ phase = "listing"
    /\ task[b] = "finished"
    /\ task' = [task EXCEPT ![b] = "taken"]
    /\ UNCHANGED <<args, phase, answer, taken, at, rewritten, conandata, config>>

TakeManifest(m) ==
    /\ phase = "fetching"
    /\ task[m] = "finished"
    /\ task' = [task EXCEPT ![m] = "taken"]
    /\ taken' = Append(taken, m)
    /\ UNCHANGED <<args, phase, answer, at, rewritten, conandata, config>>

(* A mutant: the exception is logged and the result skipped. *)
ResultRaisesIgnored(t) ==
    /\ phase \in {"listing", "fetching"}
    /\ task[t] = "raised"
    /\ task' = [task EXCEPT ![t] = "taken"]
    /\ UNCHANGED <<args, phase, answer, taken, at, rewritten, conandata, config>>

ResultRaises(t) ==
    /\ phase \in {"listing", "fetching"}
    /\ task[t] = "raised"
    /\ phase' = "raising"
    /\ UNCHANGED <<args, task, answer, taken, at, rewritten, conandata, config>>

(* A mutant: the pool waits for a future that raised. *)
PoolShutDownStrict ==
    /\ phase = "raising"
    /\ \A t \in Tasks : task[t] \notin {"waiting", "running", "raised"}
    /\ phase' = "failed"
    /\ UNCHANGED <<args, task, answer, taken, at, rewritten, conandata, config>>

(* The exception leaves the with statement of the pool, which waits for    *)
(* all tasks it was given.                                                 *)
PoolShutDown ==
    /\ phase = "raising"
    /\ \A t \in Tasks : task[t] \notin {"waiting", "running"}
    /\ phase' = "failed"
    /\ UNCHANGED <<args, task, answer, taken, at, rewritten, conandata, config>>

SubmitManifests ==
    /\ phase = "listing"
    /\ \A b \in Bases : task[b] = "taken"
    /\ phase' = "fetching"
    /\ task' = [t \in Tasks |-> IF t \in Manifests THEN "waiting" ELSE task[t]]
    /\ UNCHANGED <<args, answer, taken, at, rewritten, conandata, config>>

Unmapped ==
    (UNION {DOMAIN answer[m].components : m \in Taken})
        \ ((UNION {NvNames(p) : p \in PackageSet}) \cup Ignored)

AllVersions == {p \in PackageSet : Offerers(Taken, p) # {}}

(* all_versions, or what the command line leaves of it. *)
ToUpdate == IF args.packages = {} THEN AllVersions ELSE args.packages

(* validate_manifest_components(), --audit-only and all_versions[pkg]. *)
Audit ==
    /\ phase = "fetching"
    /\ \A m \in Manifests : task[m] = "taken"
    /\ phase' = IF Unmapped # {} THEN "failed"
                ELSE IF args.auditOnly THEN "done"
                ELSE IF ToUpdate \subseteq AllVersions THEN "writing"
                ELSE "failed"
    /\ UNCHANGED <<args, task, answer, taken, at, rewritten, conandata, config>>

Updating(p) ==
    /\ phase = "writing"
    /\ at \in DOMAIN Packages /\ Packages[at] = p
    /\ p \in ToUpdate

(* One conanfile.py of the package; rglob gives them in any order. *)
UpdateConandata(p, f) ==
    /\ Updating(p)
    /\ f \in Folders[p] \ rewritten
    /\ ~Incomparable(p, f)
    /\ conandata' = [conandata EXCEPT ![f] = Selected(p, f)]
    /\ rewritten' = rewritten \cup {f}
    /\ UNCHANGED <<args, phase, task, answer, taken, at, config>>

SelectionRaises(p, f) ==
    /\ Updating(p)
    /\ f \in Folders[p] \ rewritten
    /\ Incomparable(p, f)
    /\ phase' = "failed"
    /\ UNCHANGED <<args, task, answer, taken, at, rewritten, conandata, config>>

(* The versions that config.yml is to list, each with its folder. *)
Listed(p) == UNION {{<<s[1], f>> : s \in conandata[f]} : f \in Folders[p]}

(* A mutant: the versions listed before are kept. *)
UpdateConfigAppends(p) ==
    /\ Updating(p)
    /\ Folders[p] \subseteq rewritten
    /\ config' = [config EXCEPT ![p] = @ \cup Listed(p)]
    /\ at' = at + 1
    /\ UNCHANGED <<args, phase, task, answer, taken, rewritten, conandata>>

UpdateConfig(p) ==
    /\ Updating(p)
    /\ Folders[p] \subseteq rewritten
    /\ config' = [config EXCEPT ![p] = Listed(p)]
    /\ at' = at + 1
    /\ UNCHANGED <<args, phase, task, answer, taken, rewritten, conandata>>

(* The next package of sorted(all_versions.items()), or its end. *)
NextPackage ==
    /\ phase = "writing"
    /\ \/ /\ at \in DOMAIN Packages /\ Packages[at] \notin ToUpdate
          /\ at' = at + 1
          /\ UNCHANGED phase
       \/ /\ at \notin DOMAIN Packages
          /\ phase' = "done"
          /\ UNCHANGED at
    /\ UNCHANGED <<args, task, answer, taken, rewritten, conandata, config>>

Next ==
    \/ \E t \in Tasks : StartTask(t) \/ FetchFails(t) \/ ResultRaises(t)
    \/ \E b \in Bases : IndexFetched(b) \/ TakeIndex(b)
    \/ \E m \in Manifests : ManifestFetched(m) \/ TakeManifest(m)
    \/ PoolShutDown
    \/ SubmitManifests
    \/ Audit
    \/ \E p \in PackageSet :
          \/ \E f \in Folders[p] : UpdateConandata(p, f) \/ SelectionRaises(p, f)
          \/ UpdateConfig(p)
    \/ NextPackage

Spec == Init /\ [][Next]_vars

(* The script is not suspended, and every request comes to an end.         *)
FairSpec == Spec /\ WF_vars(Next)
-----------------------------------------------------------------------------
Updated(p) == phase = "done" /\ ~args.auditOnly /\ p \in ToUpdate

(* The state has its types. *)
TypeOK ==
    /\ args \in [packages : SUBSET PackageSet, auditOnly : BOOLEAN]
    /\ phase \in {"listing", "fetching", "writing", "raising", "done", "failed"}
    /\ task \in [Tasks -> {"unsubmitted", "waiting", "running", "finished",
                           "raised", "taken"}]
    /\ Cardinality(Running) <= Workers
    /\ answer \in [Manifests -> (UNION {Answers[m] : m \in Manifests}) \cup {NoAnswer}]
    /\ taken \in Seq(Manifests)
    /\ at \in Nat
    /\ rewritten \subseteq AllFolders
    /\ DOMAIN conandata = AllFolders
    /\ DOMAIN config = PackageSet
    /\ \A p \in PackageSet : \A entry \in config[p] : entry[2] \in Folders[p]

(* No file is touched before every manifest has been fetched and its       *)
(* result taken, and never if a request failed or a component is unmapped. *)
NothingWrittenEarly ==
    conandata # OldConandata \/ config # OldConfig =>
        /\ \A m \in Manifests : task[m] = "taken" /\ m \in Taken
        /\ Unmapped = {}
        /\ ~args.auditOnly

(* Whatever the order in which the manifests arrived: for every CUDA major *)
(* version, what a manifest offers is in the recipe or superseded there by *)
(* a newer version of the same line for the same CUDA, and the recipe has  *)
(* no version that is superseded for every CUDA it supports.               *)
NewestOfEveryLine ==
    \A p \in PackageSet : Updated(p) => \A f \in Folders[p] :
        LET offered == {m \in Offerers(Manifests, p) : InRange(f, Offer(m, p).version)}
            written == {s[1] : s \in conandata[f]}
            For(v, c) == \E m \in offered : Offer(m, p).version = v /\ c \in Majors(m, p)
            Line(v) == {w \in written : Key(f, w) = Key(f, v)}
        IN  /\ \A m \in offered : \A c \in Majors(m, p) :
                  \E w \in Line(Offer(m, p).version) :
                      w >= Offer(m, p).version /\ For(w, c)
            /\ \A v \in written : \E c \in UNION {Majors(m, p) : m \in offered} :
                  For(v, c) /\ \A w \in Line(v) : For(w, c) => w <= v

(* Every source of a rewritten conandata.yml names a manifest that has the *)
(* version for the package, and whose hash is known.                       *)
UrlOffersVersion ==
    \A p \in PackageSet : Updated(p) =>
        \A f \in Folders[p] : \A s \in conandata[f] :
            /\ s[2] \in Taken
            /\ Offering(s[2], p) # {}
            /\ Offer(s[2], p).version = s[1]

(* What is written is right in both respects, although it is gathered in   *)
(* dicts whose order is that in which the manifests arrived.               *)
SelectionIsSound == NewestOfEveryLine /\ UrlOffersVersion

(* The two files of a package are rewritten one after the other and the    *)
(* script may fail in between: at most the package it was at is torn, all  *)
(* others list in config.yml exactly the versions that have sources.       *)
OnlyCurrentPackageTorn ==
    \A p \in PackageSet :
        config[p] # Listed(p) => at \in DOMAIN Packages /\ p = Packages[at]

(* The files change late and in order.                                     *)
WritesAreOrderly == NothingWrittenEarly /\ OnlyCurrentPackageTorn

(* "Select the newest URL if the same version exists in multiple".         *)
NewestUrlIsSelected ==
    \A p \in PackageSet : Updated(p) =>
        \A f \in Folders[p] : \A s \in conandata[f] :
            \A m \in Offerers(Manifests, p) :
                Offer(m, p).version = s[1] => answer[m].date <= answer[s[2]].date

(* The script ends. *)
ScriptEnds == <>(phase \in {"done", "failed"})
=============================================================================
