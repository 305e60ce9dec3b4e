--------------------------- MODULE MCConanProcess ---------------------------
(* Graphs of recipes with both kinds of Interface, the settings that their *)
(* checks disagree about, and two manifests per version of CUDA.           *)
EXTENDS ConanProcess, TLC

MCRecipes == {"libtorch", "colmap"}
UniformJobs == [r \in MCRecipes |-> 3]

Packaged ==
    {"cudart", "cublas", "npp", "nvcomp", "cudss", "nvcc", "cuda-sanitizer-api"}
MCCudaRecipes == Packaged \cup {"cudf", "colmap", "libtorch"}

MCRequires ==
    [r \in MCCudaRecipes |->
        CASE r \in {"cudart", "nvcc"} -> {}
          [] r \in {"cublas", "npp", "nvcomp", "cuda-sanitizer-api"} -> {"cudart"}
          [] r = "cudss" -> {"cudart", "cublas"}
          [] r = "cudf" -> {"cudart", "nvcomp", "nvcc"}
          [] r = "colmap" -> {"cudart", "nvcc"}
          [] r = "libtorch" -> {"cudart", "cublas", "nvcc"}]

Call(method) ==
    [method |-> method, package |-> "", minimum |-> 0, dependencies |-> {}]
ValidatePackage(p) == <<[Call("validate_package") EXCEPT !.package = p]>>
RequireShared(deps) ==
    <<[Call("require_shared_deps") EXCEPT !.dependencies = deps]>>
CheckMin(n) == <<[Call("check_min_cuda_architecture") EXCEPT !.minimum = n]>>
ValidateSettings == <<Call("validate_settings")>>

Hook(requirements, validate, toolchain, downloads) ==
    [requirements |-> requirements, validate |-> validate,
     toolchain |-> toolchain, downloads |-> downloads, ignoreVersion |-> FALSE]
Package1(requirements, p) ==
    Hook(requirements, ValidatePackage(p), FALSE, <<<<p, "">>>>)
MCHooks ==
    [r \in MCCudaRecipes |->
        CASE r = "cudart" -> Package1({"get_version_range"}, "cuda_cudart")
          [] r = "cublas" -> Package1({"requires"}, "libcublas")
          [] r = "npp" -> Package1({"requires"}, "libnpp")
          [] r = "nvcomp" -> Package1({"requires"}, "nvcomp")
          [] r = "cudss" ->
                [Package1({"requires"}, "libcudss") EXCEPT
                    !.validate = @ \o RequireShared({"cublas"})]
          [] r = "nvcc" ->
                Hook({}, <<Call("get_platform_id")>>, FALSE, <<<<"cuda_nvcc", "">>>>)
          [] r = "cuda-sanitizer-api" ->
                [Package1({"requires"}, "cuda_sanitizer_api") EXCEPT
                    !.downloads = <<<<"cuda_sanitizer_api", "linux-x86_64">>>>]
          [] r = "cudf" ->
                Hook({"requires"}, ValidateSettings \o RequireShared({"nvrtc"}), TRUE, <<>>)
          [] r = "colmap" ->
                Hook({"requires"}, CheckMin(75) \o ValidateSettings, TRUE, <<>>)
          [] r = "libtorch" -> Hook({"requires"}, <<>>, TRUE, <<>>)]

(* CTK 12.9 and 13.4, NPP 12.4 and 13.2, nvCOMP 5.0, cuDSS 0.6 and 0.7.    *)
MCSources ==
    [r \in MCCudaRecipes |->
        CASE r = "npp" -> [v \in {124, 132} |-> IF v = 124 THEN "12.9" ELSE "13.4"]
          [] r = "nvcomp" -> [v \in {50} |-> "nvcomp"]
          [] r = "cudss" -> [v \in {6, 7} |-> IF v = 6 THEN "cudss-6" ELSE "cudss-7"]
          [] OTHER -> [v \in {129, 134} |-> IF v = 129 THEN "12.9" ELSE "13.4"]]

Published(version, variants, archives) ==
    [version |-> version, variants |-> variants, archives |-> archives]
Linux == {"linux-x86_64", "linux-sbsa"}
Ctk(version, npp) ==
    [p \in {"cuda_cudart", "libcublas", "libnpp", "cuda_nvcc", "cuda_sanitizer_api"} |->
        CASE p = "libnpp" -> Published(npp, {}, Linux \X {0})
          [] p = "libcublas" -> Published(version, {}, (Linux \cup {"windows-x86_64"}) \X {0})
          [] p = "cuda_sanitizer_api" -> Published(version, {}, Linux \X {0})
          [] OTHER -> Published(version, {},
                 (Linux \cup {"linux-aarch64", "windows-x86_64"}) \X {0})]
MCManifests ==
    [url \in {"12.9", "13.4", "nvcomp", "cudss-6", "cudss-7"} |->
        CASE url = "12.9" -> Ctk(129, 124)
          [] url = "13.4" -> Ctk(134, 132)
          [] url = "nvcomp" ->
                [p \in {"nvcomp"} |-> Published(50, {12, 13},
                    (Linux \X {12, 13}) \cup {<<"windows-x86_64", 12>>})]
          [] url = "cudss-6" -> [p \in {"libcudss"} |-> Published(6, {12}, Linux \X {12})]
          [] url = "cudss-7" -> [p \in {"libcudss"} |-> Published(7, {12, 13}, Linux \X {12, 13})]]

Number(n) ==
    [name |-> "number", number |-> n, digits |-> TRUE, letter |-> FALSE, suffix |-> ""]
Word(w) == [Number(0) EXCEPT !.name = w]
Settings(os, arch, sbsa, cuda, architectures) ==
    [os |-> os, arch |-> arch, sbsa |-> sbsa, cuda |-> cuda,
     architectures |-> architectures]
Architectures ==
    {<<>>, <<Number(80)>>, <<Number(70)>>, <<Number(40)>>,
     <<Number(80), [Number(72) EXCEPT !.suffix = "real"]>>,
     <<[Number(80) EXCEPT !.suffix = "virtual"], Number(130)>>,
     <<[Number(90) EXCEPT !.letter = TRUE]>>, <<[Number(80) EXCEPT !.suffix = "ptx"]>>,
     <<Number(80), [Number(90) EXCEPT !.digits = FALSE]>>,
     <<Word("native"), Number(80)>>, <<Word("all")>>}
Machines ==
    {<<"Linux", "x86_64">>, <<"Linux", "armv8">>, <<"Windows", "x86_64">>,
     <<"Windows", "armv8">>, <<"Macos", "armv8">>, <<"Linux", "ppc64le">>}

(* What the version ranges of get_version_range() select.                  *)
Selected(cuda) ==
    [r \in MCCudaRecipes |->
        CASE r = "npp" -> IF cuda = 12 THEN 124 ELSE 132
          [] r = "nvcomp" -> 50
          [] r = "cudss" -> IF cuda = 12 THEN 6 ELSE 7
          [] OTHER -> IF cuda = 12 THEN 129 ELSE 134]
Request(roots, s, versions, static) ==
    [roots |-> roots, settings |-> s, versions |-> versions, static |-> static]

(* Every architecture on one machine, every machine with one architecture, *)
(* and versions that the user has chosen against the range.                *)
AllRoots == {{"cudf"}, {"cudss"}, {"npp"}, {"nvcc"}, {"cuda-sanitizer-api"},
             {"colmap", "libtorch"}}
MCRequests ==
    {Request(roots, Settings("Linux", "x86_64", FALSE, cuda, a), Selected(cuda), {}) :
        roots \in {{"cudf"}, {"cudf", "colmap"}, {"colmap", "libtorch"}, {"libtorch"}},
        cuda \in {12, 13, 14}, a \in Architectures}
    \cup {Request(roots, Settings(m[1], m[2], sbsa, cuda, <<Number(80)>>),
                  Selected(cuda), {}) :
        roots \in AllRoots, m \in Machines, sbsa \in BOOLEAN, cuda \in {12, 13}}
    \cup {Request(roots, Settings("Linux", "x86_64", FALSE, cuda, <<Number(80)>>),
                  Selected(other), static) :
        roots \in {{"cudss"}, {"npp"}}, cuda \in {12, 13}, other \in {12, 13},
        static \in {{}, {"cublas"}}}
=============================================================================
