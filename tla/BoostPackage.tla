---------------------------- MODULE BoostPackage ----------------------------
(***************************************************************************)
(* What recipes/boost/all/conanfile.py makes of the options that           *)
(* BoostOptions describes: requirements(), validate(), and package_info(), *)
(* which declares one component per built module.  The four methods read   *)
(* the same options at different times and must agree: an option removed   *)
(* by configure() may not be read, a component may only require components *)
(* that exist, and a required package must be used by a component.         *)
(***************************************************************************)
EXTENDS BoostOptions

CONSTANTS
    Requirements, \* "requirements" of the dependency file: what m looks for
    PythonConf    \* whether user.cpython:python names a Python to use

ASSUME PackageAssumption ==
    /\ Requirements \in [Available -> SUBSET {"zlib", "icu", "iconv", "python"}]
    /\ PythonConf \in BOOLEAN

(* zlib-ng stands for the four compression libraries; "numpy" is a         *)
(* component as well.                                                      *)
Packages ==
    {"zlib-ng", "icu", "libiconv", "cpython", "libbacktrace", "numpy::numpy"}

VARIABLES
    stage,      \* the method Conan called last, or how the call ended
    requires,   \* the packages named by requirements()
    components  \* components[c]: what component c of cpp_info requires

packageVars == <<stage, requires, components>>

allVars == <<vars, packageVars>>

Minimum(s, std) == s.cppstd >= std

(* self.options.x, which fails when configure() has removed x. *)
MissingOption(reads) == ~(reads \subseteq present)
-----------------------------------------------------------------------------
(* requirements(), which Conan calls while it builds the graph, before any *)
(* recipe's validate(). *)

WithDependency(r) == \E m \in Enabled : r \in Requirements[m]

(* A mutant: the option alone decides.                                     *)
WithZlibAlways == other.zlib

WithZlib == WithDependency("zlib") /\ other.zlib

WithStacktraceBacktrace ==
    "with_stacktrace_backtrace" \in present /\ other.with_stacktrace_backtrace

WithIcu ==
    /\ WithDependency("icu")
    /\ "i18n_backend_icu" \in present /\ other.i18n_backend_icu

WithIconv ==
    /\ ~other.header_only
    /\ WithDependency("iconv")
    /\ "i18n_backend_iconv" \in present /\ other.i18n_backend_iconv = "libiconv"

WithCpython == "python" \in Enabled /\ ~PythonConf

WithNumpy == WithCpython /\ other.numpy

(* A mutant: the name of the option in place of the name of the package.   *)
RequiresOptionName ==
    (IF WithCpython THEN {"python"} ELSE {}) \cup (IF WithZlib THEN {"zlib-ng"} ELSE {})

Requires ==
    (IF WithZlib THEN {"zlib-ng"} ELSE {})
    \cup (IF WithStacktraceBacktrace THEN {"libbacktrace"} ELSE {})
    \cup (IF WithIcu THEN {"icu"} ELSE {})
    \cup (IF WithIconv THEN {"libiconv"} ELSE {})
    \cup (IF WithCpython THEN {"cpython"} ELSE {})
    \cup (IF WithNumpy THEN {"numpy::numpy"} ELSE {})

DeclareRequirements ==
    /\ stage = "configure" /\ pc = "configured"
    /\ IF MissingOption(IF WithCpython THEN {"numpy"} ELSE {})
       THEN stage' = "error" /\ UNCHANGED requires
       ELSE stage' = "required" /\ requires' = Requires
    /\ UNCHANGED <<vars, components>>
-----------------------------------------------------------------------------
(* validate() *)

MultiThreaded ==
    {"locale", "coroutine", "wave", "type_erasure", "fiber", "thread",
     "context", "atomic"}

Cxx11 ==
    {"fiber", "json", "nowide", "url", "math"}
    \cup (IF Minor >= 79 THEN {"wave"} ELSE {})
    \cup (IF Minor >= 81 THEN {"locale"} ELSE {})
    \cup (IF Minor >= 84
          THEN {"atomic", "filesystem", "log", "random", "stacktrace", "test",
                "thread"} ELSE {})

Cxx14 == IF Minor >= 85 THEN {"math"} ELSE {}

Cxx20 == IF Minor >= 84 THEN {"cobalt"} ELSE {}

Invalid ==
    \/ ~other.multithreading /\ MultiThreaded \cap Enabled # {}
    \/ settings.msvc /\ other.shared /\ settings.staticRuntime
    \/ Minor >= 84 /\ settings.msvc /\ other.shared /\ "fiber" \in Enabled
    \/ /\ "locale" \in Enabled
       /\ other.i18n_backend_iconv = "off"
       /\ ~other.i18n_backend_icu
       /\ settings.os # "Windows"
    \/ Addr2lineAvailable /\ ~other.addr2line_location
    \/ "nowide" \in Enabled /\ ~settings.newCompiler
    \/ Cxx11 \cap Enabled # {} /\ ~Minimum(settings, 11)
    \/ Cxx14 \cap Enabled # {} /\ ~Minimum(settings, 14)
    \/ Cxx20 \cap Enabled # {} /\ ~Minimum(settings, 20)
    \/ "cobalt" \in Enabled /\ ~HasCoroutine(settings)
    \/ Minor = 86 /\ settings.msvc /\ other.shared /\ "process" \in Enabled

ValidateReads ==
    (IF "locale" \in Enabled
     THEN {"i18n_backend_iconv", "i18n_backend_icu"} ELSE {})
    \cup (IF Addr2lineAvailable THEN {"addr2line_location"} ELSE {})

Validate ==
    /\ stage = "required"
    /\ stage' = IF MissingOption(ValidateReads) THEN "error"
                ELSE IF Invalid THEN "invalid" ELSE "valid"
    /\ UNCHANGED <<vars, requires, components>>
-----------------------------------------------------------------------------
(* package_info() *)

(* The least set the loop of _all_dependent_modules() can stop with. *)
AllDependentModules ==
    [name \in Modules |->
        {m \in Modules : \A S \in SUBSET Modules :
            name \in S /\ (\A d \in S : Deps[d] \subseteq S) => m \in S}]

(* A mutant: what a module depends on is not looked at.                    *)
MissingDepmodulesSelfOnly(m) == ({m} \cap Available) \ Enabled

(* get_safe(f"with_{d}", True): a module without an option is not missing. *)
MissingDepmodules(m) ==
    {d \in AllDependentModules[m] \cap Available : d \notin Enabled}

(* The modules all of whose libraries filter_transform_module_libraries()  *)
(* drops.                                                                  *)
Filtered ==
    (IF settings.os # "Windows"
     THEN {"stacktrace_windbg"} ELSE {"stacktrace_basic", "stacktrace_backtrace"})
    \cup (IF ~Addr2lineAvailable THEN {"stacktrace_addr2line"} ELSE {})
    \cup (IF "with_stacktrace_backtrace" \in present
             /\ ~other.with_stacktrace_backtrace
          THEN {"stacktrace_backtrace"} ELSE {})
    \cup (IF ~("numa" \in present /\ other.numa) THEN {"fiber_numa"} ELSE {})
    \cup (IF ~("numpy" \in present /\ other.numpy) THEN {"numpy"} ELSE {})

Described ==
    {m \in Modules : MissingDepmodules(m) = {} /\ m \notin Filtered}

ConanName ==
    [zlib |-> "zlib-ng", icu |-> "icu", iconv |-> "libiconv", python |-> "cpython"]

(* A mutant: whether Conan resolved the requirement is not asked.          *)
ExternalUnchecked(m) ==
    IF m \notin Available THEN {} ELSE {ConanName[x] : x \in Requirements[m]}

(* Only modules with an option have requirements.                          *)
External(m) ==
    IF m \notin Available THEN {}
    ELSE {ConanName[r] : r \in
            {x \in Requirements[m] :
                /\ x = "zlib" => other.zlib
                /\ ConanName[x] \in requires
                /\ m = "locale" /\ x = "icu" => WithIcu
                /\ m = "locale" /\ x = "iconv" => WithIconv}}

ModuleRequires(m) == Deps[m] \cup {"_libboost"} \cup External(m)

(* The assignments after the loop: stacktrace_backtrace gets libbacktrace, *)
(* python's list is replaced by python itself, numpy gets its package.     *)
ComponentRequires(m) ==
    CASE m = "python" -> {"python"}
      [] m = "stacktrace_backtrace" /\ "stacktrace" \in Enabled
         /\ WithStacktraceBacktrace ->
            ModuleRequires(m) \cup {"libbacktrace"}
      [] m = "numpy" -> ModuleRequires(m) \cup {"numpy::numpy"}
      [] OTHER -> ModuleRequires(m)

PackageInfoReads ==
    (IF Addr2lineAvailable THEN {"addr2line_location"} ELSE {})
    \cup (IF "python" \in Enabled THEN {"numpy", "python_buildid"} ELSE {})

PackageInfo ==
    /\ stage = "valid"
    /\ IF ~other.header_only /\ MissingOption(PackageInfoReads)
       THEN stage' = "error" /\ UNCHANGED components
       ELSE /\ stage' = "described"
            /\ components' =
                 [c \in IF other.header_only THEN {} ELSE Described |->
                     ComponentRequires(c)]
    /\ UNCHANGED <<vars, requires>>
-----------------------------------------------------------------------------
PackageInit ==
    /\ Init
    /\ stage = "configure"
    /\ requires = {}
    /\ components = <<>>

PackageNext ==
    \/ Next /\ UNCHANGED packageVars
    \/ DeclareRequirements
    \/ Validate
    \/ PackageInfo

PackageSpec == PackageInit /\ [][PackageNext]_allVars

(* Conan calls the methods one after the other. *)
FairPackageSpec == PackageSpec /\ WF_allVars(PackageNext)
-----------------------------------------------------------------------------
(* The state has its types. *)
PackageTypeOK ==
    /\ TypeOK
    /\ stage \in {"configure", "required", "valid", "invalid", "described", "error"}
    /\ requires \subseteq Packages
    /\ DOMAIN components \subseteq Modules
    /\ \A c \in DOMAIN components :
          components[c] \subseteq Modules \cup {"_libboost"} \cup Packages

(* No method reads an option that configure() has removed: what is removed *)
(* is decided once, from the final selection, and read under conditions of *)
(* its own in three places.                                                *)
NoMissingOptionRead == stage # "error"

(* package_info() describes exactly the modules with an option that were   *)
(* selected, and those without one that need nothing but selected modules. *)
DescribedWereBuilt ==
    stage = "described" /\ ~other.header_only =>
        /\ Enabled = DOMAIN components \cap Available
        /\ \A c \in DOMAIN components : Deps[c] \cap Available \subseteq Enabled

(* What a component requires is a component of the package as well, or     *)
(* comes from a package that requirements() has named.                     *)
NoDanglingRequirement ==
    stage = "described" =>
        \A c \in DOMAIN components :
            components[c] \subseteq DOMAIN components \cup {"_libboost"} \cup requires

(* Every library that requirements() names for a module is used by some    *)
(* component; Conan rejects a package that leaves one unused.  Python is   *)
(* left out: ComponentRequires drops cpython from the python component.    *)
RequirementsAreUsed ==
    stage = "described" =>
        requires \ {"cpython"}
            \subseteq UNION {components[c] : c \in DOMAIN components}

(* The three methods, each with conditions of its own, describe one and    *)
(* the same package.                                                       *)
MethodsAgree == DescribedWereBuilt /\ NoDanglingRequirement /\ RequirementsAreUsed

(* Unless the settings rule a module out or configure() fails, a package   *)
(* gets as far as describing its components.                               *)
PackageIsDecided ==
    <>(pc = "failed" \/ stage \in {"invalid", "described"})
=============================================================================
