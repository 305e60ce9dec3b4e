--------------------------- MODULE MCBoostPackage ---------------------------
(* Instances of BoostPackage on a part of dependencies-1.88.0.yml that has *)
(* every module with requirements, and the modules without an option whose *)
(* libraries package_info() may filter.                                    *)
EXTENDS BoostPackage, FiniteSetsExt

AvailablePkg == {"math", "random", "locale", "thread", "python", "stacktrace",
                 "fiber", "iostreams", "regex", "graph", "json"}
ModulesPkg ==
    AvailablePkg \cup {"numpy", "fiber_numa", "stacktrace_basic",
                       "stacktrace_backtrace", "stacktrace_windbg"}
DepsPkg ==
    [m \in ModulesPkg |->
        CASE m = "iostreams" -> {"random", "regex"}
          [] m = "locale" -> {"thread"}
          [] m = "graph" -> {"math", "random", "regex"}
          [] m = "python" -> {"graph"}
          [] m = "numpy" -> {"python"}
          [] m = "fiber_numa" -> {"fiber"}
          [] m \in {"stacktrace_basic", "stacktrace_backtrace",
                    "stacktrace_windbg"} -> {"stacktrace"}
          [] OTHER -> {}]
RequirementsPkg ==
    [m \in AvailablePkg |->
        CASE m = "iostreams" -> {"zlib"}
          [] m = "locale" -> {"iconv", "icu"}
          [] m = "python" -> {"python"}
          [] m = "regex" -> {"icu"}
          [] OTHER -> {}]

Profile(os, msvc, cppstd) ==
    [os |-> os, arm |-> FALSE, msvc |-> msvc, staticRuntime |-> FALSE,
     cppstd |-> cppstd, newCompiler |-> TRUE]
ProfilesPkg ==
    {Profile("Linux", FALSE, 3), Profile("Linux", FALSE, 11),
     Profile("Macos", FALSE, 17), Profile("Windows", TRUE, 17)}

(* The users who switch on one or two modules, or switch off one of those  *)
(* that build_all brings.                                                  *)
Answers(v, n) ==
    UNION {{[m \in AvailablePkg |-> IF m \in S THEN v ELSE "None"] :
               S \in kSubset(k, AvailablePkg)} : k \in 1..n}
ModuleChoicesPkg == Answers("True", 2) \cup Answers("False", 1)

(* The options that matter to the requirements vary, one or two at a time. *)
Usual ==
    [header_only |-> FALSE, build_all |-> FALSE, shared |-> FALSE,
     multithreading |-> TRUE, i18n_backend_icu |-> FALSE,
     i18n_backend_iconv |-> "None", numpy |-> TRUE, numa |-> TRUE,
     zlib |-> TRUE, with_stacktrace_backtrace |-> TRUE,
     addr2line_location |-> TRUE]
OthersPkg ==
    LET change(o) ==
            {[o EXCEPT !.build_all = TRUE], [o EXCEPT !.shared = TRUE],
             [o EXCEPT !.multithreading = FALSE],
             [o EXCEPT !.i18n_backend_icu = TRUE],
             [o EXCEPT !.i18n_backend_iconv = "libiconv"],
             [o EXCEPT !.i18n_backend_iconv = "off"],
             [o EXCEPT !.numpy = FALSE], [o EXCEPT !.numa = FALSE],
             [o EXCEPT !.zlib = FALSE],
             [o EXCEPT !.with_stacktrace_backtrace = FALSE],
             [o EXCEPT !.addr2line_location = FALSE]}
    IN  {Usual} \cup change(Usual)
        \cup change([Usual EXCEPT !.build_all = TRUE])
=============================================================================
