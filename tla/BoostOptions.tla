---------------------------- MODULE BoostOptions ----------------------------
(***************************************************************************)
(* How recipes/boost/all/conanfile.py turns what the user asked for into   *)
(* the set of Boost modules that is built: config_options(), the options   *)
(* Conan then applies, and configure() with its default values, its        *)
(* disable() calls, the closure under the dependencies listed in           *)
(* dependencies/dependencies-<version>.yml, and the options it removes.    *)
(*                                                                         *)
(* Options have three values because None, the default, means "decide for  *)
(* me".  A module of the dependency file need not have an option (numpy,   *)
(* fiber_numa, stacktrace_basic, ...).                                     *)
(***************************************************************************)
EXTENDS Naturals, FiniteSets

CONSTANTS
    Minor,          \* the version of Boost is 1.Minor.0
    Modules,        \* the keys of "dependencies" in the dependency file
    Available,      \* its "configure_options": the modules with an option
    Deps,           \* Deps[m]: the modules m is listed to depend on
    SettingsChoices,\* the settings of the profiles that are considered
    ModuleChoices,  \* the with_* values that users may ask for
    OtherChoices    \* the other options that users may ask for

Tri == {"None", "True", "False"}

(* C++98 is 3: only the order of the standards matters. *)
Standards == {3, 11, 14, 17, 20}

Systems == {"Linux", "Macos", "Windows", "iOS"}

(* newCompiler: the compiler has the version that C++20 coroutines and     *)
(* Boost.nowide ask for.                                                   *)
Settings ==
    [os : Systems, arm : BOOLEAN, msvc : BOOLEAN, staticRuntime : BOOLEAN,
     cppstd : Standards, newCompiler : BOOLEAN]

Iconv == {"libc", "libiconv", "off"}

(* iconv is None when the user leaves the default of config_options();     *)
(* addr2line_location is TRUE for an absolute path; zlib stands for the    *)
(* four compression libraries, which the recipe treats alike.              *)
Others ==
    [header_only : BOOLEAN, build_all : BOOLEAN, shared : BOOLEAN,
     multithreading : BOOLEAN, i18n_backend_icu : BOOLEAN,
     i18n_backend_iconv : Iconv \cup {"None"}, numpy : BOOLEAN,
     numa : BOOLEAN, zlib : BOOLEAN, with_stacktrace_backtrace : BOOLEAN,
     addr2line_location : BOOLEAN]

(* The options configure() may remove, besides the with_* ones. *)
Removable ==
    {"i18n_backend_iconv", "i18n_backend_icu", "numpy", "python_buildid",
     "addr2line_location", "with_stacktrace_backtrace", "numa"}

(* The modules the recipe names: their options exist in every version      *)
(* whose dependency file lists them.                                       *)
Named == {"math", "random", "locale", "python", "stacktrace", "fiber"}

ASSUME GraphAssumption ==
    /\ IsFiniteSet(Modules)
    /\ Minor \in Nat
    /\ Available \subseteq Modules
    /\ Named \subseteq Available
    /\ Deps \in [Modules -> SUBSET Modules]
    /\ \A m \in Available : Deps[m] \subseteq Available

(* What every dependency file guarantees about the two modules whose       *)
(* mutual dependency rebuild-dependencies.py cuts: neither brings in a     *)
(* module that the other does not bring in as well.                        *)
ASSUME CouplingAssumption ==
    /\ Deps["random"] \subseteq {"math"} \cup Deps["math"]
    /\ "math" \in Deps["random"] \/ Deps["math"] \subseteq {"random"} \cup Deps["random"]

ASSUME ChoicesAssumption ==
    /\ SettingsChoices \subseteq Settings
    /\ ModuleChoices \subseteq [Available -> Tri]
    /\ OtherChoices \subseteq Others

VARIABLES
    pc,        \* the part of config_options() and configure() reached
    settings,  \* the settings of the package
    asked,     \* what the user gave for the with_* options
    with,      \* with[m]: the value of option with_m
    other,     \* the values of the other options
    present    \* the removable options that still exist

vars == <<pc, settings, asked, with, other, present>>

Enabled == {m \in Available : with[m] = "True"}

(* set(d for the modules that, directly or not, depend on one of them), and *)
(* name itself: the least set the loop of _all_super_modules can stop with. *)
UpwardClosed(S) == \A m \in Modules : Deps[m] \cap S # {} => m \in S

AllSuperModules(name) ==
    {m \in Modules \cup {name} :
        \A S \in SUBSET (Modules \cup {name}) :
            name \in S /\ UpwardClosed(S) => m \in S}
-----------------------------------------------------------------------------
(* The modules whose names _configure_binary_modules() gives to disable(). *)

HasCoroutine(s) == s.cppstd >= 20 /\ s.newCompiler

DisableCalls(s) ==
    (IF s.cppstd < 11
     THEN {"fiber", "nowide", "json", "url", "math"}
          \cup (IF Minor >= 79 THEN {"wave"} ELSE {})
          \cup (IF Minor >= 81 THEN {"locale"} ELSE {})
     ELSE {})
    \cup (IF Minor >= 84 /\ ~HasCoroutine(s) THEN {"cobalt"} ELSE {})
    \cup (IF Minor >= 84 /\ s.msvc THEN {"fiber"} ELSE {})
    \cup (IF Minor >= 85 /\ s.cppstd < 14 THEN {"math"} ELSE {})
    \cup (IF Minor >= 86 /\ s.cppstd < 14 THEN {"graph"} ELSE {})
    \cup (IF Minor = 86 /\ s.msvc THEN {"process"} ELSE {})

Callable ==
    {"fiber", "nowide", "json", "url", "math", "wave", "locale", "cobalt",
     "graph", "process"}

(* A mutant: the modules that need the named one are forgotten. *)
DisabledByNameOnly == [name \in Callable |-> {name} \cap Available]

(* Computed once: which options a call of disable(name) sets to False. *)
DisabledBy == [name \in Callable |-> AllSuperModules(name) \cap Available]

Blocked(s) == UNION {DisabledBy[name] : name \in DisableCalls(s)}

(* Python- and MPI-specific modules are not built by default. *)
Excluded == {"python", "numpy", "mpi", "mpi_python", "graph_parallel"}

(* A mutant: a value that the option does not have. *)
IconvDefaultUnknown(s) == IF s.os = "Windows" THEN "none" ELSE "libc"

(* default_options, for the options config_options() does not touch. *)
IconvDefault(s) ==
    CASE s.os = "Windows" -> "off"
      [] s.os \in {"Macos", "iOS"} -> "libiconv"
      [] OTHER -> "libc"
-----------------------------------------------------------------------------
Init ==
    /\ pc = "config_options"
    /\ settings \in SettingsChoices
    /\ asked \in ModuleChoices
    /\ other \in OtherChoices
    /\ with = [m \in Available |-> "None"]
    /\ present = Removable

ConfigOptions ==
    /\ pc = "config_options"
    /\ pc' = "apply"
    /\ present' = IF settings.os = "Windows"
                  THEN present \ {"with_stacktrace_backtrace"} ELSE present
    /\ UNCHANGED <<settings, asked, with, other>>

(* Conan gives the options the values the user asked for, which leaves the *)
(* defaults of config_options() where nothing was asked.                   *)
ApplyUserOptions ==
    /\ pc = "apply"
    /\ pc' = "configure"
    /\ with' = asked
    /\ other' = [other EXCEPT !.i18n_backend_iconv =
                    IF @ = "None" THEN IconvDefault(settings) ELSE @]
    /\ UNCHANGED <<settings, asked, present>>

(* An explicitly enabled module switches header_only off. *)
HeaderOnly ==
    IF Enabled # {} THEN FALSE
    ELSE IF ~other.build_all THEN TRUE ELSE other.header_only

DecideHeaderOnly ==
    /\ pc = "configure"
    /\ pc' = IF HeaderOnly THEN "header_only" ELSE "defaults"
    /\ other' = [other EXCEPT !.header_only = HeaderOnly]
    /\ UNCHANGED <<settings, asked, with, present>>

ForceDisableBinaryModules ==
    /\ pc = "header_only"
    /\ pc' = "configured"
    /\ with' = [m \in Available |-> "False"]
    /\ other' = [other EXCEPT !.shared = FALSE, !.i18n_backend_icu = FALSE,
                    !.zlib = FALSE, !.with_stacktrace_backtrace = FALSE]
    /\ UNCHANGED <<settings, asked, present>>

DefaultValue(m) ==
    IF other.build_all /\ m \notin Excluded THEN "True" ELSE "False"

FillDefaults ==
    /\ pc = "defaults"
    /\ pc' = "disable"
    /\ with' = [m \in Available |->
                  IF with[m] = "None" THEN DefaultValue(m) ELSE with[m]]
    /\ UNCHANGED <<settings, asked, other, present>>

DisableUnsupported ==
    /\ pc = "disable"
    /\ pc' = "assign"
    /\ with' = [m \in Available |->
                  IF m \in Blocked(settings) THEN "False" ELSE with[m]]
    /\ UNCHANGED <<settings, asked, other, present>>

(* self.options.with_process = False on iOS, without ".value": Conan       *)
(* refuses such an assignment in configure() when it changes a value.      *)
AssignmentRefused ==
    /\ Minor >= 86
    /\ settings.os = "iOS"
    /\ "process" \in Enabled

(* self.options.without_coroutine = True: there is no option of that name. *)
AssignmentUnknown ==
    /\ Minor = 90
    /\ settings.os = "Windows"
    /\ settings.arm

AssignWithoutValue ==
    /\ pc = "assign"
    /\ pc' = IF AssignmentRefused \/ AssignmentUnknown THEN "failed" ELSE "enable"
    /\ UNCHANGED <<settings, asked, with, other, present>>

(* A mutant: the value is computed and lost, made_changes is set. *)
EnableDependencyLost(m, d) ==
    /\ pc = "enable"
    /\ m \in Enabled
    /\ d \in Deps[m] \ Enabled
    /\ UNCHANGED vars

(* One "Enabling 'd' for 'm'" of _enable_transitive_dependencies().  The   *)
(* order in which its loops meet the pairs is left open.                   *)
EnableDependency(m, d) ==
    /\ pc = "enable"
    /\ m \in Enabled
    /\ d \in Deps[m] \ Enabled
    /\ with' = [with EXCEPT ![d] = "True"]
    /\ UNCHANGED <<pc, settings, asked, other, present>>

(* A mutant: one pass over the file, and no more. *)
NothingToEnableOnePass ==
    /\ pc = "enable"
    /\ pc' = "couple"
    /\ UNCHANGED <<settings, asked, with, other, present>>

(* A whole pass of the loop without a change. *)
NothingToEnable ==
    /\ pc = "enable"
    /\ \A m \in Enabled : Deps[m] \subseteq Enabled
    /\ pc' = "couple"
    /\ UNCHANGED <<settings, asked, with, other, present>>

CoupleMathAndRandom ==
    /\ pc = "couple"
    /\ pc' = "remove"
    /\ with' = IF "math" \in Enabled THEN [with EXCEPT !["random"] = "True"]
               ELSE IF "random" \in Enabled THEN [with EXCEPT !["math"] = "True"]
               ELSE with
    /\ UNCHANGED <<settings, asked, other, present>>

Addr2lineAvailable ==
    /\ settings.os # "iOS"
    /\ "stacktrace" \in Enabled
    /\ settings.os # "Windows"

(* A mutant: the user's answers decide, not the final selection. *)
RemovedByAnswers ==
    IF asked["locale"] # "True"
    THEN {"i18n_backend_iconv", "i18n_backend_icu"} ELSE {}

Removed ==
    (IF "locale" \notin Enabled
     THEN {"i18n_backend_iconv", "i18n_backend_icu"} ELSE {})
    \cup (IF "python" \notin Enabled THEN {"numpy", "python_buildid"} ELSE {})
    \cup (IF ~Addr2lineAvailable THEN {"addr2line_location"} ELSE {})
    \cup (IF "stacktrace" \notin Enabled
          THEN {"with_stacktrace_backtrace"} ELSE {})
    \cup (IF "fiber" \notin Enabled THEN {"numa"} ELSE {})

RemoveUnusedOptions ==
    /\ pc = "remove"
    /\ pc' = "configured"
    /\ present' = present \ Removed
    /\ UNCHANGED <<settings, asked, with, other>>

Next ==
    \/ ConfigOptions
    \/ ApplyUserOptions
    \/ DecideHeaderOnly
    \/ ForceDisableBinaryModules
    \/ FillDefaults
    \/ DisableUnsupported
    \/ AssignWithoutValue
    \/ \E m \in Available, d \in Available : EnableDependency(m, d)
    \/ NothingToEnable
    \/ CoupleMathAndRandom
    \/ RemoveUnusedOptions

Spec == Init /\ [][Next]_vars
-----------------------------------------------------------------------------
(* The state has its types. *)
TypeOK ==
    /\ pc \in {"config_options", "apply", "configure", "header_only",
               "defaults", "disable", "assign", "enable", "couple", "remove",
               "configured", "failed"}
    /\ settings \in Settings
    /\ asked \in [Available -> Tri]
    /\ with \in [Available -> Tri]
    /\ other \in Others
    /\ present \subseteq Removable

(* What the user's answers ask to be built, before any dependency: nothing *)
(* if they mean header_only, otherwise the explicitly enabled modules and  *)
(* the defaults, less the modules the settings rule out.                   *)
AskedHeaderOnly ==
    IF \E m \in Available : asked[m] = "True" THEN FALSE
    ELSE IF ~other.build_all THEN TRUE ELSE other.header_only

Requested ==
    IF AskedHeaderOnly THEN {}
    ELSE {m \in Available \ Blocked(settings) :
            \/ asked[m] = "True"
            \/ asked[m] = "None" /\ DefaultValue(m) = "True"}

(* The dependencies of the file, and the cut one between math and random.  *)
Needs ==
    [m \in Available |->
        Deps[m] \cup (IF m = "math" THEN {"random"} ELSE {})
                \cup (IF m = "random" THEN {"math"} ELSE {})]

Selection == INSTANCE ModuleSelection
    WITH requested <- Requested,
         selected <- IF pc = "configured" THEN Enabled ELSE {},
         settled <- pc = "configured"

(* configure() selects exactly the smallest closed set: each requested     *)
(* module is built with all it needs, math never without random, and no    *)
(* module is built that was neither requested nor needed, whatever the     *)
(* order in which dependencies are found.                                  *)
ImplementsSelection == Selection!Spec

(* A module the settings rule out is not smuggled in again by a dependent  *)
(* module: only the coupling of math and random can do that.               *)
BlockedOnlyByCoupling ==
    pc = "configured" =>
        \A m \in Blocked(settings) \cap Enabled : m \in {"math", "random"}

(* The coupling excepts nothing: "change default to not build on compiler  *)
(* with too old default c++ standard".                                     *)
BlockedStaysDisabled ==
    pc = "configured" => Blocked(settings) \cap Enabled = {}
=============================================================================
