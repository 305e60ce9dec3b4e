--------------------------- MODULE MCBoostOptions ---------------------------
(* An instance of BoostOptions on a part of the dependency file of Boost   *)
(* 1.88, which keeps the modules the recipe names and leaves out           *)
(* dependencies on modules that have none of their own.                    *)
EXTENDS BoostOptions

(* dependencies-1.88.0.yml: math and random are listed without             *)
(* dependencies, numpy and fiber_numa have no option.                      *)
Available88 == {"math", "random", "graph", "python", "locale", "stacktrace",
                "fiber", "filesystem", "process", "json"}
Modules88 == Available88 \cup {"numpy", "fiber_numa"}
Deps88 ==
    [m \in Modules88 |->
        CASE m = "graph" -> {"math", "random"}
          [] m = "python" -> {"graph"}
          [] m \in {"fiber", "process"} -> {"filesystem"}
          [] m = "numpy" -> {"python"}
          [] m = "fiber_numa" -> {"fiber"}
          [] OTHER -> {}]

(* The users who decide on at most n modules themselves. *)
Deciding(n, available) ==
    {f \in [available -> Tri] : Cardinality({m \in available : f[m] # "None"}) <= n}

ModuleChoices88 == Deciding(2, Available88)

Profile(os, arm, msvc, cppstd) ==
    [os |-> os, arm |-> arm, msvc |-> msvc, staticRuntime |-> FALSE,
     cppstd |-> cppstd, newCompiler |-> TRUE]

LinuxOnly == {Profile("Linux", FALSE, FALSE, c) : c \in {11, 17}}

(* Users who leave everything but header_only and build_all alone. *)
PlainOthers ==
    {[header_only |-> h, build_all |-> b, shared |-> FALSE,
      multithreading |-> TRUE, i18n_backend_icu |-> FALSE,
      i18n_backend_iconv |-> "None", numpy |-> TRUE, numa |-> TRUE,
      zlib |-> TRUE, with_stacktrace_backtrace |-> TRUE,
      addr2line_location |-> TRUE] : h, b \in BOOLEAN}
=============================================================================
