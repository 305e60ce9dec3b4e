--------------------------- MODULE MCNvidiaUpdate ---------------------------
(* Instances of NvidiaUpdate: two base URLs with two manifests each, a     *)
(* package in two folders with a version range each, as cudnn, and one     *)
(* with two names of its component, as cuda-crt.                           *)
EXTENDS NvidiaUpdate

MCBases == {"cuda", "cudnn"}
MCManifests == {"cuda-12", "cuda-13", "cudnn-1", "cudnn-2"}
MCBaseOf ==
    [m \in MCManifests |-> IF m \in {"cuda-12", "cuda-13"} THEN "cuda" ELSE "cudnn"]
MCUrlRank ==
    [m \in MCManifests |->
        CASE m = "cuda-12" -> 1 [] m = "cuda-13" -> 2
          [] m = "cudnn-1" -> 3 [] m = "cudnn-2" -> 4]

Component(v, cudas) == [version |-> v, variants |-> cudas]

(* The second manifest of cuda may come without its crt component or with  *)
(* a component that nobody has heard of.                                   *)
Cuda12 == [cuda_nvcc |-> Component(1290, <<>>), cuda_cccl |-> Component(1290, <<>>)]
Cuda13 ==
    {[cuda_nvcc |-> Component(1300, <<>>), cuda_crt |-> Component(1301, <<>>)],
     [cuda_nvcc |-> Component(1291, <<>>), cuda_new |-> Component(1300, <<>>)],
     [cuda_nvcc |-> Component(1291, <<>>)]}

(* Versions 9.1.0 and 9.1.1, and 8.9.0 for the folder of version 8; 9.1.1  *)
(* may be in both manifests, with other CUDA versions.                     *)
Cudnn1 == [cudnn |-> Component(911, <<11, 12>>)]
Cudnn2 ==
    {[cudnn |-> Component(910, <<12, 13>>)], [cudnn |-> Component(911, <<12, 13>>)],
     [cudnn |-> Component(890, <<11>>)]}

Dated(date, components) == [date |-> date, components |-> components]

MCAnswers ==
    [m \in MCManifests |->
        CASE m = "cuda-12" -> {Dated(1, Cuda12)}
          [] m = "cuda-13" -> {Dated(2, c) : c \in Cuda13}
          [] m = "cudnn-1" -> {Dated(1, Cudnn1)}
          [] m = "cudnn-2" -> {Dated(2, c) : c \in Cudnn2}
                              \cup {Dated(NoDate, Cudnn1)}]

MCPackages == <<"cuda-crt", "cudnn">>
MCNvPackages ==
    [p \in PackageSet |-> IF p = "cudnn" THEN <<"cudnn">> ELSE <<"cuda_crt", "cuda_nvcc">>]
MCUrls == [p \in PackageSet |-> IF p = "cudnn" THEN {"cudnn"} ELSE {"cuda"}]
MCIgnored == {"cuda_cccl"}
MCFolders ==
    [p \in PackageSet |->
        IF p = "cudnn" THEN {"cudnn/v8", "cudnn/all"} ELSE {"cuda-crt/all"}]
MCVersionRange ==
    [f \in AllFolders |->
        CASE f = "cudnn/v8" -> <<0, 900>>
          [] f = "cudnn/all" -> <<900, 10000>>
          [] f = "cuda-crt/all" -> <<0, 10000>>]
MCPolicy ==
    [f \in AllFolders |-> IF f = "cudnn/v8" THEN "latest" ELSE "latest_minor"]
MCOldConandata ==
    [f \in AllFolders |->
        CASE f = "cudnn/v8" -> {<<880, "cudnn-1">>}
          [] f = "cudnn/all" -> {<<900, "cudnn-1">>}
          [] f = "cuda-crt/all" -> {<<1280, "cuda-12">>}]
MCOldConfig ==
    [p \in PackageSet |->
        IF p = "cudnn" THEN {<<880, "cudnn/v8">>, <<900, "cudnn/all">>}
        ELSE {<<1280, "cuda-crt/all">>}]
=============================================================================
