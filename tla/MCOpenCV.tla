------------------------------ MODULE MCOpenCV ------------------------------
(* Requests to OpenCVOptions: one answer at a time, from the defaults,     *)
(* from nothing and from everything, and pairs of modules.                 *)
EXTENDS OpenCVOptions, FiniteSetsExt, TLC

Setting(os, arm, cuda) ==
    [os |-> os, arm |-> arm, supported |-> TRUE, cuda |-> cuda, lapack |-> os # "Windows"]

Linux == Setting("Linux", FALSE, 12)

(* One profile for each way the conditions on the system can go.           *)
Others ==
    {[Linux EXCEPT !.supported = FALSE], Setting("Linux", TRUE, 13),
     Setting("Macos", TRUE, 0), Setting("Windows", FALSE, 13),
     Setting("Android", TRUE, 0), Setting("iOS", TRUE, 0)}

(* 4.5, 4.9 and 4.14 differ in every table; config.yml lists them.         *)
VersionsSome == {5, 9, 14}

Answer(o, value) == [x \in {o} |-> value]
AllOf(options, value) == [o \in options |-> value]

(* Every value of the options in S, alone.                                 *)
Single(S) == UNION {{Answer(o, value) : value \in ValuesOf(o)} : o \in S}

There(v, s) == CvModules \ Unavailable(v, s.os, s.arm)
Nothing(v, s) == AllOf(There(v, s), "False")
Everything(v, s) ==
    AllOf((There(v, s) \ {"viz"}) \cup {"with_cublas"}, "True")

User(v, s, asked) == [version |-> v, settings |-> s, asked |-> asked]

(* On Linux: any option after the defaults, after nothing, and after       *)
(* everything that can be built. *)
LinuxUsers ==
    UNION {{User(v, Linux, answer @@ before) : answer \in Single(CvOptions)} :
           v \in VersionsSome,
           before \in {<<>>, Nothing(14, Linux)}}
    \cup {User(14, Linux, answer @@ Everything(14, Linux)) :
              answer \in Single(CvOptions \ CvModules)}

(* What build_all and world make of nothing and everything.                *)
Totals ==
    {AllOf(S, "True") :
        S \in SUBSET {"build_all_base", "build_all_contrib", "world"}}
TotalUsers ==
    UNION {{User(v, s, total @@ before) :
               total \in Totals, before \in {Nothing(v, s), Everything(v, s)}} :
           v \in VersionsSome, s \in Others \cup {Linux}}
    \cup {User(v, s, total) :
              v \in VersionsSome, s \in Others \cup {Linux}, total \in Totals}

(* Elsewhere: the options that systems and versions disagree about.        *)
Disputed ==
    UNION {Unavailable(v, s.os, s.arm) : v \in VersionsSome, s \in Others \cup {Linux}}
    \cup {"with_ipp", "with_lapack", "with_cuda", "dnn", "gapi", "highgui", "text"}
OtherUsers ==
    {User(v, s, answer) :
        v \in VersionsSome, s \in Others, answer \in Single(Disputed)}

(* Two modules at a time of those that require each other conditionally.   *)
Coupled ==
    CudaModules \cup {"calib3d", "dnn", "gapi", "highgui", "imgcodecs", "objdetect",
                     "photo", "stitching", "superres", "tracking", "video",
                     "videoio", "videostab", "xfeatures2d"}
PairUsers ==
    {User(14, Linux, AllOf(S, "True") @@ Nothing(14, Linux)) :
        S \in kSubset(2, Coupled)}

UsersAll == LinuxUsers \cup TotalUsers \cup OtherUsers \cup PairUsers
=============================================================================
