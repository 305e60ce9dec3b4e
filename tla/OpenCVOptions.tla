---------------------------- MODULE OpenCVOptions ----------------------------
(***************************************************************************)
(* recipes/opencv/4.x/conanfile.py from the user's answers to the          *)
(* components of the package: config_options(), the answers that Conan     *)
(* then applies, configure(), requirements(), validate(), package_info().  *)
(* configure() first enables what the enabled modules need, one option at  *)
(* a time, then removes the options that nothing uses, and at its very end *)
(* may enable all modules of a kind.                                       *)
(***************************************************************************)
EXTENDS OpenCVModules, FiniteSets

CONSTANT Users
    \* the requests that are considered: a version, the settings, and asked,
    \* the values that the profile gives to options

CvSettings ==
    [os : Systems, arm : BOOLEAN,
     supported : BOOLEAN,  \* the compiler, its standard and its runtime
     cuda : {0, 12, 13},   \* settings.cuda, 0 if there is none
     lapack : BOOLEAN]     \* LAPACK has lower_underscore names

ASSUME UsersAssumption ==
    \A u \in Users :
        /\ u.version \in Nat
        /\ u.settings \in CvSettings
        /\ DOMAIN u.asked \subseteq CvOptions
        /\ \A o \in DOMAIN u.asked : u.asked[o] \in ValuesOf(o)

VARIABLES
    pc,         \* the method and the part of it that comes next
    user,       \* the request
    opts,       \* opts[o]: the value of an option that exists
    pending,    \* the options whose mandatory_options are to be followed
    required,   \* the options that enabled modules were found to need
    requires,   \* the packages that requirements() has declared
    components  \* components[c]: what component c requires

cvVars == <<pc, user, opts, pending, required, requires, components>>

Version == user.version
System == user.settings.os

(* bool(self.options.get_safe(o)) *)
Get(o) == o \in DOMAIN opts /\ opts[o] # "False"
Is(o, value) == o \in DOMAIN opts /\ opts[o] = value

(* is_apple_os() of Conan *)
IsAppleOs == System \in {"Macos", "iOS"}

NoComponents == [c \in {} |-> {}]
-----------------------------------------------------------------------------
CvInit ==
    /\ pc = "config_options"
    /\ user \in Users
    /\ opts = [o \in CvOptions |-> "False"]
    /\ pending = {}
    /\ required = {}
    /\ requires = {}
    /\ components = NoComponents

(* What is deleted and what is set before the user is heard. *)
ConfigOptions ==
    /\ pc = "config_options"
    /\ opts' = [o \in CvOptions \ Unavailable(Version, System, user.settings.arm) |->
                    DefaultOf(Version, System, o)]
    /\ pc' = "apply"
    /\ UNCHANGED <<user, pending, required, requires, components>>

(* Conan refuses a profile that names an option that does not exist. *)
RefuseAnswers ==
    /\ pc = "apply"
    /\ ~(DOMAIN user.asked \subseteq DOMAIN opts)
    /\ pc' = "refused"
    /\ UNCHANGED <<user, opts, pending, required, requires, components>>

ApplyAnswers ==
    /\ pc = "apply"
    /\ DOMAIN user.asked \subseteq DOMAIN opts
    /\ opts' = [o \in DOMAIN opts |->
                    IF o \in DOMAIN user.asked THEN user.asked[o] ELSE opts[o]]
    /\ pc' = "configure"
    /\ UNCHANGED <<user, pending, required, requires, components>>

(* A mutant: every module that exists is followed, enabled or not.         *)
StartSolvingAll ==
    /\ pc = "configure"
    /\ pending' = CvModules \cap DOMAIN opts
    /\ pc' = "solve"
    /\ UNCHANGED <<user, opts, required, requires, components>>

(* _mandatory_disabled_options() begins with the enabled modules ... *)
StartSolving ==
    /\ pc = "configure"
    /\ pending' = {m \in CvModules : Get(m)}
    /\ pc' = "solve"
    /\ UNCHANGED <<user, opts, required, requires, components>>

(* A mutant: what a needed option needs is forgotten.                      *)
FollowOnce ==
    /\ pc = "solve"
    /\ pending # {}
    /\ LET o == CHOOSE x \in pending : TRUE IN
          /\ required' = required \cup Mandatory(Version, o)
          /\ pending' = pending \ {o}
    /\ UNCHANGED <<pc, user, opts, requires, components>>

(* A mutant: an option is visited again and again.                         *)
FollowAgain ==
    /\ pc = "solve"
    /\ pending # {}
    /\ LET o == CHOOSE x \in pending : TRUE IN
          /\ required' = required \cup Mandatory(Version, o)
          /\ pending' = pending \cup Mandatory(Version, o)
    /\ UNCHANGED <<pc, user, opts, requires, components>>

(* ... and follows one of them at a time, with whatever it has not met.    *)
(* The modules in whose name it does so are left out, and what it finds    *)
(* does not depend on the order. *)
Follow ==
    /\ pc = "solve"
    /\ pending # {}
    /\ LET o == CHOOSE x \in pending : TRUE IN
          /\ required' = required \cup Mandatory(Version, o)
          /\ pending' = (pending \ {o}) \cup (Mandatory(Version, o) \ required)
    /\ UNCHANGED <<pc, user, opts, requires, components>>

(* _solve_internal_dependency_graph() enables what exists of them. *)
EnableRequired ==
    /\ pc = "solve"
    /\ pending = {}
    /\ opts' = [o \in DOMAIN opts |->
                    IF o \in required /\ ~Get(o) THEN "True" ELSE opts[o]]
    /\ pc' = "remove"
    /\ UNCHANGED <<user, pending, required, requires, components>>

(* A mutant: only the image formats are thought of.                        *)
UnusedImageFormats == IF ~Get("imgcodecs") THEN ImageFormats ELSE {}

(* The options that configure() removes. *)
Unused ==
    (IF ~(Version >= 10 /\ (Get("gapi") \/ Get("dnn"))) THEN {"with_openvino"} ELSE {})
    \cup (IF ~Get("calib3d") /\ ~Get("dnn") THEN {"with_lapack"} ELSE {})
    \cup (IF ~Get("dnn") THEN {"dnn_cuda", "with_protobuf", "with_vulkan"} ELSE {})
    \cup (IF ~Get("highgui") THEN {"with_gtk", "with_wayland"} ELSE {})
    \cup (IF ~(Get("highgui") \/ Get("cvv")) THEN {"with_qt"} ELSE {})
    \cup (IF ~Get("imgcodecs") THEN ImageFormats ELSE {})
    \cup (IF ~Get("objdetect") THEN {"with_quirc"} ELSE {})
    \cup (IF ~Get("videoio") THEN VideoSources ELSE {})
    \cup (IF ~Get("videoio") /\ ~Get("gapi") THEN {"with_gstreamer"} ELSE {})
    \cup (IF ~Get("with_cuda") THEN {"with_cublas", "with_cufft", "dnn_cuda"} ELSE {})
    \cup (IF ~Get("text") THEN {"with_tesseract"} ELSE {})
    \cup (IF ~Get("videostab") THEN {"with_clp"} ELSE {})

RemoveUnused ==
    /\ pc = "remove"
    /\ opts' = [o \in DOMAIN opts \ Unused |-> opts[o]]
    /\ pc' = "build_all"
    /\ UNCHANGED <<user, pending, required, requires, components>>

(* options.update(): every module of the kind has an option again, and is  *)
(* enabled. *)
BuildAll ==
    /\ pc = "build_all"
    /\ LET all == (IF Get("build_all_base") THEN BaseModules ELSE {})
                  \cup (IF Get("build_all_contrib") THEN ExtraModules ELSE {})
       IN  opts' = [o \in DOMAIN opts \cup all |->
                        IF o \in all THEN "True" ELSE opts[o]]
    /\ pc' = "requirements"
    /\ UNCHANGED <<user, pending, required, requires, components>>
-----------------------------------------------------------------------------
(* The packages that requirements() declares for an option that is on.     *)
(* The one package of an option has the option's name here. *)
RequiredFor(o) ==
    CASE o = "parallel" -> IF Is(o, "openmp") THEN {"openmp"}
                           ELSE IF Is(o, "tbb") THEN {"onetbb"} ELSE {}
      [] o = "with_ipp" -> IF Is(o, "intel-ipp") THEN {"intel-ipp"} ELSE {}
      [] o = "with_jpeg2000" -> {p \in {"openjpeg", "jasper"} : Is(o, p)}
      [] o = "with_opencl" -> IF IsAppleOs THEN {} ELSE {"opencl"}
      [] o = "with_cuda" -> {"cudart"}
      [] o \in {"with_cublas", "with_cufft"} -> IF Get("with_cuda") THEN {o} ELSE {}
      [] o = "dnn_cuda" -> IF Get("with_cuda") THEN {"cudnn"} ELSE {}
      [] o = "with_wayland" -> {"wayland", "xkbcommon"}
      [] o = "with_gstreamer" -> {"gst-plugins-base", "gstreamer"}
      [] OTHER -> {o}

(* Those that it declares for a module. *)
RequiredWith(m) ==
    CASE m = "gapi" -> {"ade"}
      [] m = "freetype" -> {"freetype::freetype", "harfbuzz"}
      [] m = "hdf" -> {"hdf5"}
      [] m = "ovis" -> {"ogre"}
      [] m = "sfm" -> {"gflags", "glog"}
      [] OTHER -> {}

NppModules == {"cudaarithm", "cudaimgproc", "cudafilters", "cudawarping"}

Requirements ==
    {"zlib-ng"}
    \cup (UNION {RequiredFor(o) : o \in {x \in WithOptions : Get(x)}})
    \cup (UNION {RequiredWith(m) : m \in {x \in CvModules : Get(x)}})
    \cup (IF Get("with_cuda") /\ \E m \in NppModules : Get(m) THEN {"npp"} ELSE {})

DeclareRequirements ==
    /\ pc = "requirements"
    /\ requires' = Requirements
    /\ pc' = "validate"
    /\ UNCHANGED <<user, opts, pending, required, components>>

(* What _mandatory_disabled_options() finds, unless it is empty, includes  *)
(* an option that an enabled module names itself. *)
MissingMandatory ==
    UNION {{o \in Mandatory(Version, m) : ~Get(o)} : m \in {x \in CvModules : Get(x)}}

Rejected ==
    \/ ~user.settings.supported
    \/ Get("with_lapack") /\ ~user.settings.lapack
    \/ Get("dnn_cuda") /\ ~(Get("with_cuda") /\ Get("with_cublas"))
    \/ Is("with_ipp", "opencv-icv")
          /\ (user.settings.arm \/ System \in {"Android", "iOS"})
    \/ Get("viz")
    \/ /\ Get("with_cuda")
       /\ user.settings.cuda = 0 \/ (Version <= 12 /\ user.settings.cuda = 13)

(* A mutant: viz may be built.                                             *)
ValidateWithoutViz ==
    /\ pc = "validate"
    /\ pc' = IF MissingMandatory # {} THEN "mandatory"
             ELSE IF ~user.settings.supported THEN "rejected" ELSE "package_info"
    /\ UNCHANGED <<user, opts, pending, required, requires, components>>

Validate ==
    /\ pc = "validate"
    /\ pc' = IF MissingMandatory # {} THEN "mandatory"
             ELSE IF Rejected THEN "rejected" ELSE "package_info"
    /\ UNCHANGED <<user, opts, pending, required, requires, components>>
-----------------------------------------------------------------------------
(* A mutant: OpenCL is looked for on every system.                         *)
NamedForWithOpenCL(o) ==
    CASE o = "parallel" -> IF Is(o, "openmp") THEN {"openmp"}
                           ELSE IF Is(o, "tbb") THEN {"onetbb"} ELSE {}
      [] o = "with_ipp" -> IF Is(o, "intel-ipp") THEN {"intel-ipp"} ELSE {}
      [] o = "with_jpeg2000" -> {opts[o]}
      [] o = "with_cuda" -> {"cudart"}
      [] o = "dnn_cuda" -> {"cudnn"}
      [] o = "with_opencl" -> {"opencl"}
      [] o = "with_wayland" -> {"wayland", "xkbcommon"}
      [] o = "with_gstreamer" -> {"gstreamer", "gst-plugins-base"}
      [] OTHER -> {o}

(* The packages that the helpers of _opencv_modules() name for an option   *)
(* that is on, under conditions of their own. *)
NamedFor(o) ==
    CASE o = "parallel" -> IF Is(o, "openmp") THEN {"openmp"}
                           ELSE IF Is(o, "tbb") THEN {"onetbb"} ELSE {}
      [] o = "with_ipp" -> IF Is(o, "intel-ipp") THEN {"intel-ipp"} ELSE {}
      [] o = "with_jpeg2000" -> {opts[o]}
      [] o = "with_opencl" -> IF System \in {"Macos", "iOS"} THEN {} ELSE {"opencl"}
      [] o = "with_cuda" -> {"cudart"}
      [] o = "dnn_cuda" -> {"cudnn"}
      [] o = "with_wayland" -> {"wayland", "xkbcommon"}
      [] o = "with_gstreamer" -> {"gstreamer", "gst-plugins-base"}
      [] OTHER -> {o}

(* The options whose packages a component names. *)
Uses(m) ==
    CASE m = "core" -> {"parallel", "with_eigen", "with_ipp", "with_armpl",
                        "with_opencl", "with_va", "with_itt", "with_cuda"}
      [] m = "calib3d" -> {"with_eigen", "with_lapack", "with_ipp"}
      [] m = "dnn" -> {"dnn_cuda", "with_cublas", "with_protobuf", "with_vulkan",
                       "with_ipp", "with_openvino", "with_lapack"}
      [] m = "gapi" -> {"with_openvino", "with_gstreamer", "with_va", "with_itt"}
      [] m = "highgui" -> {"with_framebuffer", "with_gtk", "with_qt",
                           "with_wayland", "with_ipp"}
      [] m = "imgcodecs" -> ImageFormats \cup {"with_ipp"}
      [] m = "objdetect" -> {"with_quirc", "with_ipp"}
      [] m = "videoio" -> (VideoSources \ {"with_va"}) \cup {"with_gstreamer", "with_ipp"}
      [] m = "cudaarithm" -> {"with_ipp", "with_cublas", "with_cufft"}
      [] m = "cudacodec" -> {"with_ipp"} \cup (IF Version >= 14 THEN {"with_cuda"} ELSE {})
      [] m = "text" -> {"with_tesseract", "with_ipp"}
      [] m = "videostab" -> {"with_clp", "with_ipp"}
      [] m \in {"features2d", "stitching", "rgbd", "sfm", "ximgproc", "numeric",
                "correspondence", "multiview"} -> {"with_eigen", "with_ipp"}
      [] m = "ippiw" -> {}
      [] OTHER -> {"with_ipp"}

(* The packages that a component names in any case. *)
Names(m) ==
    CASE m \in {"core", "imgcodecs"} -> {"zlib-ng"}
      [] m \in NppModules -> {"npp"}
      [] m = "cvv" -> {"with_qt"}
      [] m = "gapi" -> {"ade"}
      [] m = "freetype" -> {"freetype::freetype", "harfbuzz"}
      [] m = "hdf" -> {"hdf5"}
      [] m = "ovis" -> {"ogre"}
      [] m = "sfm" -> {"glog", "gflags"}
      [] m = "viz" -> {"vtk"}
      [] m \in {"correspondence", "multiview"} -> {"glog"}
      [] OTHER -> {}

(* The modules it requires if they are enabled. *)
Optional(m) ==
    CASE m = "features2d" -> {"flann"}
      [] m = "gapi" -> {"video", "calib3d"}
      [] m = "highgui" -> {"imgcodecs", "videoio"}
      [] m \in {"objdetect", "tracking"} -> {"dnn"}
      [] m = "photo" -> {"cudaarithm", "cudaimgproc"}
      [] m = "stitching" -> {"xfeatures2d", "cudaarithm", "cudawarping",
                             "cudafeatures2d", "cudalegacy", "cudaimgproc"}
      [] m = "video" -> {"calib3d", "dnn"}
      [] m = "cudaimgproc" -> {"cudaarithm", "cudafilters"}
      [] m = "cudalegacy" -> {"calib3d", "imgproc", "objdetect", "cudaarithm",
                              "cudafilters", "cudaimgproc"}
      [] m \in {"cudaobjdetect", "cudaoptflow"} -> {"cudalegacy"}
      [] m = "superres" -> {"videoio", "cudaarithm", "cudafilters", "cudawarping",
                            "cudaimgproc", "cudaoptflow", "cudacodec"}
      [] m = "videostab" -> {"videoio", "cudawarping", "cudaoptflow"}
      [] m = "xfeatures2d" -> {"cudaarithm"}
      [] OTHER -> {}

(* The targets without an option that it requires. *)
TargetsOf(m) ==
    CASE m \in {"cudaarithm", "cudaimgproc", "cudastereo", "cudawarping"} -> {"cudev"}
      [] m = "cudacodec" -> IF Version < 7 THEN {"cudev"} ELSE {}
      [] m = "sfm" -> {"correspondence", "multiview", "numeric"}
      [] m = "correspondence" -> {"imgcodecs", "multiview"}
      [] m = "multiview" -> {"numeric"}
      [] OTHER -> {}

StaticIcv == Is("with_ipp", "opencv-icv") /\ ~Get("shared")

(* The modules that leave it to another of their list to require core. *)
CoreThroughOthers ==
    {"features2d", "gapi", "imgcodecs", "photo", "stitching", "video", "videoio",
     "cudabgsegm", "cudafeatures2d", "cudafilters", "cudaimgproc",
     "cudaobjdetect", "cudaoptflow", "cudastereo", "line_descriptor",
     "saliency", "superres", "videostab"}

(* "requires": the modules of "mandatory_options" appear in it again. *)
ModuleRequires(m) ==
    (Mandatory(Version, m) \cap CvModules)
    \cup {x \in Optional(m) : Get(x)}
    \cup TargetsOf(m)
    \cup (IF m \in CvModules \ CoreThroughOthers THEN {"core"} ELSE {})
    \cup Names(m)
    \cup (UNION {NamedFor(o) : o \in {x \in Uses(m) : Get(x)}})
    \cup (IF StaticIcv /\ "with_ipp" \in Uses(m) THEN {"ippiw"} ELSE {})

IsBuilt(m) ==
    CASE m = "core" -> TRUE
      [] m = "cudev" -> Get("with_cuda")
      [] m = "ippiw" -> StaticIcv
      [] m \in {"numeric", "correspondence", "multiview"} -> Get("sfm")
      [] OTHER -> Get(m)

Built == {m \in CvModules \cup Targets : IsBuilt(m)}

OutsideWorld == {"img_hash", "sfm", "ippiw", "numeric", "correspondence", "multiview"}

InWorld == Built \ OutsideWorld

(* A mutant: world requires its own parts.                                 *)
ComponentsNotExcluded ==
    IF ~Get("world") THEN [c \in Built |-> ModuleRequires(c)]
    ELSE [c \in Built \cup {"world"} |->
             IF c = "world" THEN UNION {ModuleRequires(m) : m \in InWorld}
             ELSE IF c \in InWorld THEN {"world"}
             ELSE ModuleRequires(c)]

(* With world, its parts are empty components that require it, and it      *)
(* requires what they do except each other. *)
Components ==
    IF ~Get("world") THEN [c \in Built |-> ModuleRequires(c)]
    ELSE [c \in Built \cup {"world"} |->
             IF c = "world" THEN (UNION {ModuleRequires(m) : m \in InWorld}) \ InWorld
             ELSE IF c \in InWorld THEN {"world"}
             ELSE ModuleRequires(c)]

PackageInfo ==
    /\ pc = "package_info"
    /\ components' = Components
    /\ pc' = "described"
    /\ UNCHANGED <<user, opts, pending, required, requires>>

CvNext ==
    \/ ConfigOptions
    \/ RefuseAnswers \/ ApplyAnswers
    \/ StartSolving \/ Follow \/ EnableRequired
    \/ RemoveUnused \/ BuildAll
    \/ DeclareRequirements \/ Validate \/ PackageInfo

CvSpec == CvInit /\ [][CvNext]_cvVars

(* One method is called after the other: nothing interrupts them. *)
FairCvSpec == CvSpec /\ WF_cvVars(CvNext)
-----------------------------------------------------------------------------
(* The state has its types; every option has a value of its own kind.      *)
CvTypeOK ==
    /\ pc \in {"config_options", "apply", "refused", "configure", "solve",
               "remove", "build_all", "requirements", "validate", "mandatory",
               "rejected", "package_info", "described"}
    /\ user.version \in Nat
    /\ user.settings \in CvSettings
    /\ DOMAIN opts \subseteq CvOptions
    /\ \A o \in DOMAIN opts : opts[o] \in ValuesOf(o)
    /\ pending \subseteq CvOptions
    /\ required \subseteq {o \in CvOptions : ValuesOf(o) = {"False", "True"}}

(* "Enabling OpenCV options required by other enabled modules" works: what *)
(* configure() enables and what it then removes never leave an enabled     *)
(* module without an option it needs.  Only modules that build_all_base or *)
(* build_all_contrib enable at the end are rejected for that reason, and   *)
(* of the main ones only dnn before 4.8, which lost with_protobuf.         *)
MandatoryIsSolved ==
    pc = "mandatory" =>
        \/ Get("build_all_contrib")
        \/ Get("build_all_base") /\ Version < 8

(* Nothing is decided over the user's head without need: an option whose   *)
(* value is neither the default nor the answer is one that an enabled      *)
(* module cannot do without, or a module that build_all was asked for.     *)
ChangedForAReason ==
    [][\A o \in DOMAIN opts \cap DOMAIN opts' :
          pc \notin {"config_options", "apply"} /\ opts'[o] # opts[o] =>
              /\ opts[o] = "False"
              /\ opts'[o] = "True"
              /\ \/ \E m \in CvModules \cap DOMAIN opts' :
                       opts'[m] = "True" /\ o \in Mandatory(Version, m)
                 \/ Get("build_all_base") /\ o \in BaseModules
                 \/ Get("build_all_contrib") /\ o \in ExtraModules]_cvVars

(* build_all_contrib gives superres and barcode an option again where      *)
(* config_options() took it away; no package is described with a module    *)
(* that this version does not have on this system.                         *)
OnlySupportedModules ==
    pc = "described" =>
        \A m \in Unavailable(Version, System, user.settings.arm) : ~Get(m)

(* Every name that a component requires is a component of this package or  *)
(* a package that requirements() has declared, although the conditions are *)
(* written in two places.                                                  *)
ComponentsResolve ==
    pc = "described" =>
        \A c \in DOMAIN components :
            components[c] \subseteq DOMAIN components \cup requires

(* The components that requires lead to from no other component, layer by  *)
(* layer: Peeled[n] is what is left after n layers.                        *)
Peeled ==
    LET left[n \in 0..Cardinality(DOMAIN components)] ==
            IF n = 0 THEN DOMAIN components
            ELSE LET rest == left[n - 1]
                 IN  {c \in rest : components[c] \cap rest # {}}
    IN  left

(* No component requires itself, through whichever others: the conditional *)
(* requirements between modules, and those of world, close no circle.      *)
ComponentsAcyclic ==
    pc = "described" => Peeled[Cardinality(DOMAIN components)] = {}

(* A declared package is used by a component, which Conan insists on, but  *)
(* for three options that outlive the module they belong to: with_cublas   *)
(* and with_cufft without cudaarithm, with_framebuffer without highgui.    *)
CvRequirementsAreUsed ==
    pc = "described" =>
        requires \ (UNION {components[c] : c \in DOMAIN components})
            \subseteq {"with_cublas", "with_cufft", "with_framebuffer"}

(* The search for mandatory options ends, and every request is answered.   *)
PackageIsSettled == <>(pc \in {"refused", "mandatory", "rejected", "described"})
=============================================================================
