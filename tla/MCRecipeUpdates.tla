--------------------------- MODULE MCRecipeUpdates ---------------------------
(* SuiteSparse with three recipes and three releases, one of which brings  *)
(* a package without a recipe; oneAPI with a set of parts that must be     *)
(* complete, one that need not be and one of the APT repository, where a   *)
(* package with a similar name is a release ahead in the end.              *)
EXTENDS RecipeUpdates

MCReleases == {1, 2, 3}
MCSuiteSparseRecipes == {"amd", "graphblas", "spqr"}
MCMembers ==
    [r \in MCReleases |->
        CASE r = 1 -> <<<<"amd", 10>>, <<"graphblas", 10>>, <<"spqr", 10>>>>
          [] r = 2 -> <<<<"graphblas", 11>>, <<"spqr", 11>>, <<"amd", 10>>>>
          [] r = 3 -> <<<<"amd", 12>>, <<"graphblas", 11>>, <<"new", 1>>>>]
MCOldConfigYml ==
    [p \in MCSuiteSparseRecipes |-> IF p = "amd" THEN <<9>> ELSE <<10, 9>>]
MCOldConandataYml ==
    [p \in MCSuiteSparseRecipes |->
        CASE p = "amd" -> [sources |-> <<<<9, 1>>>>, patches |-> {}]
          [] p = "graphblas" -> [sources |-> <<<<10, 0>>, <<9, 0>>>>, patches |-> {}]
          [] p = "spqr" -> [sources |-> <<<<10, 1>>, <<9, 1>>>>, patches |-> {9, 10}]]

MCPypiPackages == <<"onemkl", "intel-ipp-crypto">>
MCAptPackages == <<"intel-dpcpp">>
MCParts ==
    [p \in {"onemkl", "intel-ipp-crypto", "intel-dpcpp"} |->
        CASE p = "onemkl" -> <<"mkl">>
          [] p = "intel-ipp-crypto" -> <<"ipp-crypto", "ipp-crypto-devel">>
          [] p = "intel-dpcpp" -> <<"dpcpp-cpp", "openmp", "debugger">>]
MCNamesakes == [p \in {"intel-dpcpp"} |-> {"dpcpp-cpp", "dpcpp-cpp-common"}]
MCOptionalParts == {"debugger"}
MCMinVersion ==
    [p \in DOMAIN MCParts |-> IF p = "onemkl" THEN 20 ELSE 10]
MCExcluded ==
    [p \in {"intel-ipp-crypto"} |->
        [platform \in {"Linux"} |-> {"ipp-crypto-devel"}]]

Both == {"Linux", "Windows"}
Mkl(t) ==
    [v \in IF t = 1 THEN {10, 20} ELSE {10, 20, 21, 30} |-> Both]
IppCrypto(t) ==
    [v \in IF t = 1 THEN {10} ELSE {10, 11} |->
        IF v = 11 /\ t = 2 THEN {"Linux"} ELSE Both]
IppCryptoDevel(t) == [v \in IF t < 3 THEN {10} ELSE {10, 11} |-> {"Windows"}]
Apt(t) ==
    [a \in {"amd64", "all"} |->
        IF a = "all" THEN {<<"openmp", 10>>, <<"debugger", 10>>}
                          \cup (IF t < 3 THEN {} ELSE {<<"openmp", 11>>})
        ELSE {<<"dpcpp-cpp", 10>>, <<"dpcpp-cpp-common", 10>>}
             \cup (IF t = 1 THEN {} ELSE {<<"dpcpp-cpp", 11>>})
             \cup (IF t < 4 THEN {} ELSE {<<"dpcpp-cpp-common", 12>>})]
MCUpstream ==
    [t \in 1..4 |->
        [pypi |-> [part \in {"mkl", "ipp-crypto", "ipp-crypto-devel"} |->
                      CASE part = "mkl" -> Mkl(t)
                        [] part = "ipp-crypto" -> IppCrypto(t)
                        [] part = "ipp-crypto-devel" -> IppCryptoDevel(t)],
         apt |-> Apt(t),
         newMkl |-> t = 4]]

Written(p) ==
    IF p = "intel-dpcpp" THEN [platform \in {"Linux"} |-> {"dpcpp-cpp", "openmp"}]
    ELSE [platform \in Both |->
            IF p = "onemkl" THEN {"mkl"}
            ELSE {"ipp-crypto"} \cup (IF platform = "Linux" THEN {}
                                      ELSE {"ipp-crypto-devel"})]
MCOldFiles ==
    [p \in DOMAIN MCParts |-> [v \in IF p = "onemkl" THEN {20, 19} ELSE {9} |-> Written(p)]]

(* What Intel publishes here only grows. *)
ASSUME MCUpstreamGrows == UpstreamGrows
=============================================================================
