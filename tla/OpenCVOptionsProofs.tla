------------------------- MODULE OpenCVOptionsProofs -------------------------
(* Proofs about OpenCVOptions for every request, whatever it asks for: the *)
(* options that the search leaves, what validate() and package_info() may  *)
(* rely on, that the components have no cycle, and that the search ends.   *)
EXTENDS OpenCVOptions, NumberLemmas, FiniteSetTheorems

-----------------------------------------------------------------------------
(* What the tables say of mandatory options, in five facts.                *)

LEMMA NeededByBase ==
    ASSUME NEW v \in Nat, NEW m \in BaseModules, NEW o \in MandatoryOfBase(v, m)
    PROVE  \/ o \in BaseModules
           \/ o = "with_protobuf" /\ m = "dnn" /\ v < 8
BY DEF MandatoryOfBase, BaseModules

LEMMA NeededByCuda ==
    ASSUME NEW v \in Nat, NEW m \in CudaModules, NEW o \in MandatoryOfCuda(v, m)
    PROVE  o \in CvModules
BY DEF MandatoryOfCuda, CudaModules, CvModules, BaseModules, ExtraModules

LEMMA NeededByExtra ==
    ASSUME NEW v \in Nat, NEW m \in ExtraModules, NEW o \in MandatoryOfExtra(v, m)
    PROVE  \/ o \in CvModules
           \/ o = "with_eigen"
           \/ o = "with_qt" /\ m = "cvv"
BY DEF MandatoryOfExtra, CvModules, BaseModules, ExtraModules

LEMMA NeededByMore ==
    ASSUME NEW v \in Nat, NEW m \in ExtraModules, NEW o \in MandatoryOfMore(v, m)
    PROVE  o \in CvModules \/ o = "with_eigen"
BY DEF MandatoryOfMore, CvModules, BaseModules, ExtraModules

(* The four options that are not modules and that a module may need.       *)
LEMMA Needed ==
    ASSUME NEW v \in Nat, NEW m, NEW o \in Mandatory(v, m)
    PROVE  /\ m \in CvModules
           /\ \/ o \in CvModules
              \/ o \in {"with_eigen", "with_cuda"}
              \/ o = "with_qt" /\ m = "cvv"
              \/ o = "with_protobuf" /\ m = "dnn"
           /\ m \in BaseModules /\ v >= 8 => o \in BaseModules
<1>1. CvModules = BaseModules \cup ExtraModules /\ CudaModules \subseteq ExtraModules
  BY DEF CvModules, CudaModules, ExtraModules
<1>2. BaseModules \cap ExtraModules = {}
  BY DEF BaseModules, ExtraModules
<1>3. CASE m \in BaseModules
  <2>1. o \in MandatoryOfBase(v, m)
    BY <1>1, <1>2, <1>3 DEF Mandatory
  <2> QED
    BY <2>1, <1>1, <1>3, NeededByBase
<1>4. CASE m \in CudaModules
  <2>1. o = "with_cuda" \/ o \in MandatoryOfCuda(v, m)
    BY <1>1, <1>2, <1>4 DEF Mandatory
  <2> QED
    BY <2>1, <1>1, <1>2, <1>4, NeededByCuda
<1>5. CASE m \in ExtraModules \ CudaModules
  <2>1. o \in MandatoryOfExtra(v, m) \/ o \in MandatoryOfMore(v, m)
    BY <1>1, <1>2, <1>5 DEF Mandatory
  <2> QED
    BY <2>1, <1>1, <1>2, <1>5, NeededByExtra, NeededByMore
<1>6. CASE m \notin CvModules
  BY <1>1, <1>6 DEF Mandatory
<1> QED
  BY <1>1, <1>3, <1>4, <1>5, <1>6

(* Nothing that a module needs is missing in any version, on any system:   *)
(* superres and barcode are the modules that may be, and none needs them.  *)
LEMMA NeededExists ==
    ASSUME NEW v \in Nat, NEW m, NEW o \in Mandatory(v, m), NEW os, NEW arm
    PROVE  o \in CvOptions \ Unavailable(v, os, arm)
<1>1. m \in CvModules
  BY Needed
<1>2. o # "superres" /\ o # "barcode"
  BY <1>1 DEF Mandatory, MandatoryOfBase, MandatoryOfCuda, MandatoryOfExtra, MandatoryOfMore, CvModules, BaseModules, ExtraModules, CudaModules
<1>3. CvModules \cap Unavailable(v, os, arm) \subseteq {"superres", "barcode"}
  BY DEF CvModules, BaseModules, ExtraModules, Unavailable
<1>4. {"with_eigen", "with_cuda", "with_qt", "with_protobuf"}
          \subseteq CvOptions \ Unavailable(v, os, arm)
  BY DEF CvOptions, WithOptions, Unavailable
<1>5. CvModules \subseteq CvOptions
  BY DEF CvOptions
<1> QED
  BY <1>2, <1>3, <1>4, <1>5, Needed

-----------------------------------------------------------------------------
(* The inductive invariant.                                                *)

(* Before options are removed, those that exist are those of the version   *)
(* and the system; afterwards, until build_all, no others.                 *)
Present ==
    /\ user \in Users
    /\ pc \in {"apply", "configure", "solve", "remove"} =>
           DOMAIN opts = CvOptions \ Unavailable(Version, System, user.settings.arm)
    /\ pc = "build_all" =>
           DOMAIN opts \cap Unavailable(Version, System, user.settings.arm) = {}

(* Whatever needs something is waiting, or has been followed.              *)
Following ==
    /\ pc \in {"config_options", "apply", "configure"} => required = {}
    /\ pc = "solve" =>
           /\ \A m \in CvModules :
                 Get(m) => m \in pending \/ Mandatory(Version, m) \subseteq required
           /\ \A o \in required :
                 o \in pending \/ Mandatory(Version, o) \subseteq required

Solved == \A m \in CvModules : Get(m) => \A o \in Mandatory(Version, m) : Get(o)

SolvedUnlessBuildAll ==
    /\ pc \in {"remove", "build_all"} => Solved
    /\ pc \in {"requirements", "validate"} =>
           \/ Solved
           \/ Get("build_all_contrib")
           \/ Get("build_all_base") /\ Version < 8

CvInv == CvTypeOK /\ Present /\ Following /\ SolvedUnlessBuildAll /\ MandatoryIsSolved

LEMMA OptionFacts ==
    /\ CvModules \subseteq CvOptions
    /\ \A m \in CvModules : ValuesOf(m) = {"False", "True"}
    /\ \A o : {"False"} \subseteq ValuesOf(o)
    /\ \A v, m : m \in CvModules \/ Mandatory(v, m) = {}
<1>1. CvModules \subseteq CvOptions
  BY DEF CvOptions
<1>2. \A m \in CvModules : m \notin {"parallel", "with_ipp", "with_jpeg2000"}
  BY DEF CvModules, BaseModules, ExtraModules
<1>3. \A m \in CvModules : ValuesOf(m) = {"False", "True"}
  BY <1>2 DEF ValuesOf
<1>4. \A v, m : m \in CvModules \/ Mandatory(v, m) = {}
  <2>1. CvModules = BaseModules \cup ExtraModules /\ CudaModules \subseteq ExtraModules
    BY DEF CvModules, CudaModules, ExtraModules
  <2> QED
    BY <2>1 DEF Mandatory
<1> QED
  BY <1>1, <1>3, <1>4 DEF ValuesOf

LEMMA DefaultHasItsKind ==
    ASSUME NEW v, NEW os, NEW o \in CvOptions
    PROVE  DefaultOf(v, os, o) \in ValuesOf(o)
BY DEF DefaultOf, ValuesOf

LEMMA NeededIsOption ==
    ASSUME NEW v \in Nat, NEW m
    PROVE  Mandatory(v, m) \subseteq CvOptions
BY NeededExists

LEMMA NeededIsSwitch ==
    ASSUME NEW v \in Nat, NEW m, NEW o \in Mandatory(v, m)
    PROVE  ValuesOf(o) = {"False", "True"}
<1>1. o \notin {"parallel", "with_ipp", "with_jpeg2000"}
  BY Needed DEF CvModules, BaseModules, ExtraModules
<1> QED
  BY <1>1 DEF ValuesOf

(* No module loses an option it needs with those that nothing uses.        *)
LEMMA UnusedIsNotNeeded ==
    ASSUME Version \in Nat, NEW m \in CvModules, Get(m), NEW o \in Mandatory(Version, m)
    PROVE  o \notin Unused
<1>1. o \in CvModules => o \notin Unused
  BY DEF Unused, CvModules, BaseModules, ExtraModules, ImageFormats, VideoSources
<1>2. o \in {"with_eigen", "with_cuda"} => o \notin Unused
  BY DEF Unused, ImageFormats, VideoSources
<1>3. o = "with_qt" /\ m = "cvv" => o \notin Unused
  BY DEF Unused, ImageFormats, VideoSources
<1>4. o = "with_protobuf" /\ m = "dnn" => o \notin Unused
  BY DEF Unused, ImageFormats, VideoSources
<1> QED
  BY <1>1, <1>2, <1>3, <1>4, Needed

LEMMA CvTypeStep ==
    ASSUME CvTypeOK, user \in Users, [CvNext]_cvVars
    PROVE  CvTypeOK'
<1> USE UsersAssumption DEF CvTypeOK
<1>1. CASE ConfigOptions
  <2>1. \A o \in DOMAIN opts' : opts'[o] \in ValuesOf(o)
    BY <1>1, DefaultHasItsKind DEF ConfigOptions
  <2> QED
    BY <1>1, <2>1 DEF ConfigOptions
<1>2. CASE RefuseAnswers
  BY <1>2 DEF RefuseAnswers
<1>3. CASE ApplyAnswers
  BY <1>3 DEF ApplyAnswers
<1>4. CASE StartSolving
  BY <1>4, OptionFacts DEF StartSolving
<1>5. CASE Follow
  <2>1. \A o : Mandatory(Version, o) \subseteq
                 {x \in CvOptions : ValuesOf(x) = {"False", "True"}}
    BY NeededIsOption, NeededIsSwitch DEF Version
  <2> QED
    BY <1>5, <2>1 DEF Follow
<1>6. CASE EnableRequired
  <2>1. \A o \in DOMAIN opts' : opts'[o] \in ValuesOf(o)
    BY <1>6 DEF EnableRequired
  <2> QED
    BY <1>6, <2>1 DEF EnableRequired
<1>7. CASE RemoveUnused
  BY <1>7 DEF RemoveUnused
<1>8. CASE BuildAll
  <2>1. BaseModules \cup ExtraModules \subseteq CvModules
    BY DEF CvModules
  <2> QED
    BY <1>8, <2>1, OptionFacts DEF BuildAll
<1>9. CASE DeclareRequirements
  BY <1>9 DEF DeclareRequirements
<1>10. CASE Validate
  BY <1>10 DEF Validate
<1>11. CASE PackageInfo
  BY <1>11 DEF PackageInfo
<1>12. CASE UNCHANGED cvVars
  BY <1>12 DEF cvVars
<1> QED
  BY <1>1, <1>2, <1>3, <1>4, <1>5, <1>6, <1>7, <1>8, <1>9, <1>10, <1>11, <1>12 DEF CvNext

LEMMA PresentStep ==
    ASSUME CvTypeOK, Present, [CvNext]_cvVars
    PROVE  Present'
<1> USE DEF Present, Version, System
<1>1. CASE ConfigOptions
  BY <1>1 DEF ConfigOptions
<1>2. CASE ApplyAnswers
  BY <1>2 DEF ApplyAnswers
<1>3. CASE EnableRequired
  BY <1>3 DEF EnableRequired
<1>4. CASE RemoveUnused
  BY <1>4 DEF RemoveUnused
<1>5. CASE BuildAll
  BY <1>5 DEF BuildAll
<1>6. CASE StartSolving \/ Follow
  BY <1>6 DEF StartSolving, Follow
<1>7. CASE RefuseAnswers \/ DeclareRequirements \/ Validate \/ PackageInfo
  BY <1>7 DEF RefuseAnswers, DeclareRequirements, Validate, PackageInfo
<1>8. CASE UNCHANGED cvVars
  BY <1>8 DEF cvVars
<1> QED
  BY <1>1, <1>2, <1>3, <1>4, <1>5, <1>6, <1>7, <1>8 DEF CvNext

LEMMA FollowingStep ==
    ASSUME CvTypeOK, Following, [CvNext]_cvVars
    PROVE  Following'
<1> USE DEF Following, Version, Get
<1>1. CASE StartSolving
  BY <1>1 DEF StartSolving
<1>2. CASE Follow
  <2>1. PICK o \in pending :
            /\ required' = required \cup Mandatory(Version, o)
            /\ pending' = (pending \ {o}) \cup (Mandatory(Version, o) \ required)
    BY <1>2 DEF Follow
  <2>2. \A x \in required' :
            x \in pending' \/ Mandatory(Version, x) \subseteq required'
    BY <1>2, <2>1 DEF Follow
  <2>3. \A m \in CvModules :
            Get(m) => m \in pending' \/ Mandatory(Version, m) \subseteq required'
    BY <1>2, <2>1 DEF Follow
  <2> QED
    BY <1>2, <2>2, <2>3 DEF Follow
<1>3. CASE UNCHANGED cvVars
  BY <1>3 DEF cvVars
<1>4. CASE ConfigOptions \/ RefuseAnswers \/ ApplyAnswers
  BY <1>4 DEF ConfigOptions, RefuseAnswers, ApplyAnswers
<1>5. CASE \/ EnableRequired \/ RemoveUnused \/ BuildAll
           \/ DeclareRequirements \/ Validate \/ PackageInfo
  BY <1>5 DEF EnableRequired, RemoveUnused, BuildAll, DeclareRequirements, Validate, PackageInfo
<1> QED
  BY <1>1, <1>2, <1>3, <1>4, <1>5 DEF CvNext

(* What EnableRequired leaves: every needed option exists, and is on.      *)
LEMMA EnableRequiredSolves ==
    ASSUME CvTypeOK, Present, Following, EnableRequired
    PROVE  Solved'
<1> SUFFICES ASSUME NEW m \in CvModules, Get(m)', NEW o \in Mandatory(Version, m)
             PROVE  Get(o)'
  BY DEF Solved, EnableRequired, Version
<1>1. Version \in Nat
  BY DEF CvTypeOK, Version
<1>2. o \in DOMAIN opts
  BY <1>1, NeededExists DEF Present, EnableRequired
<1>3. Get(m) \/ m \in required
  BY DEF Get, EnableRequired
<1>4. o \in required
  BY <1>3 DEF Following, EnableRequired
<1> QED
  BY <1>2, <1>4 DEF Get, EnableRequired

LEMMA RemoveUnusedKeepsSolved ==
    ASSUME CvTypeOK, Solved, RemoveUnused
    PROVE  Solved'
<1> SUFFICES ASSUME NEW m \in CvModules, Get(m)', NEW o \in Mandatory(Version, m)
             PROVE  Get(o)'
  BY DEF Solved, RemoveUnused, Version
<1>1. Version \in Nat
  BY DEF CvTypeOK, Version
<1>2. Get(m) /\ Get(o)
  BY DEF Solved, Get, RemoveUnused
<1>3. o \notin Unused
  BY <1>1, <1>2, UnusedIsNotNeeded
<1> QED
  BY <1>2, <1>3 DEF Get, RemoveUnused

(* build_all_base alone, from 4.8 on, needs nothing but main modules.      *)
LEMMA BuildAllKeepsSolved ==
    ASSUME CvTypeOK, Solved, BuildAll,
           ~Get("build_all_contrib"), ~(Get("build_all_base") /\ Version < 8)
    PROVE  Solved'
<1> SUFFICES ASSUME NEW m \in CvModules, Get(m)', NEW o \in Mandatory(Version, m)
             PROVE  Get(o)'
  BY DEF Solved, BuildAll, Version
<1>1. Version \in Nat
  BY DEF CvTypeOK, Version
<1>2. \A x : Get(x) => Get(x)'
  BY DEF Get, BuildAll
<1>3. CASE Get("build_all_base")
  <2>1. Version >= 8
    BY <1>1, <1>3
  <2>2. CASE m \in BaseModules
    <3>1. o \in BaseModules
      BY <1>1, <2>1, <2>2, Needed
    <3> QED
      BY <1>3, <3>1 DEF Get, BuildAll
  <2>3. CASE m \notin BaseModules
    <3>1. Get(m)
      BY <2>3 DEF Get, BuildAll
    <3> QED
      BY <1>2, <3>1 DEF Solved
  <2> QED
    BY <2>2, <2>3
<1>4. CASE ~Get("build_all_base")
  <2>1. Get(m)
    BY <1>4 DEF Get, BuildAll
  <2> QED
    BY <1>2, <2>1 DEF Solved
<1> QED
  BY <1>3, <1>4

LEMMA BuildAllKeepsItself ==
    ASSUME BuildAll
    PROVE  /\ Get("build_all_base") => Get("build_all_base")'
           /\ Get("build_all_contrib") => Get("build_all_contrib")'
BY DEF BuildAll, Get

LEMMA SolvedMissesNothing ==
    ASSUME Solved
    PROVE  MissingMandatory = {}
BY DEF Solved, MissingMandatory

LEMMA SolvedStep ==
    ASSUME CvTypeOK, Present, Following, SolvedUnlessBuildAll, MandatoryIsSolved,
           [CvNext]_cvVars
    PROVE  SolvedUnlessBuildAll' /\ MandatoryIsSolved'
<1> USE DEF SolvedUnlessBuildAll, MandatoryIsSolved
<1>1. CASE EnableRequired
  <2>1. pc' = "remove"
    BY <1>1 DEF EnableRequired
  <2> QED
    BY <1>1, <2>1, EnableRequiredSolves
<1>2. CASE RemoveUnused
  <2>1. Solved' /\ pc' = "build_all"
    BY <1>2, RemoveUnusedKeepsSolved DEF RemoveUnused
  <2> QED
    BY <2>1
<1>3. CASE BuildAll
  <2>1. Solved /\ pc' = "requirements" /\ Version' = Version
    BY <1>3 DEF BuildAll, Version
  <2>2. CASE Get("build_all_contrib") \/ (Get("build_all_base") /\ Version < 8)
    BY <1>3, <2>1, <2>2, BuildAllKeepsItself
  <2>3. CASE ~Get("build_all_contrib") /\ ~(Get("build_all_base") /\ Version < 8)
    BY <1>3, <2>1, <2>3, BuildAllKeepsSolved
  <2> QED
    BY <2>2, <2>3
<1>4. CASE DeclareRequirements
  BY <1>4 DEF DeclareRequirements, Solved, Get, Version
<1>5. CASE Validate
  <2>1. pc' = "mandatory" => ~Solved
    BY <1>5, SolvedMissesNothing DEF Validate
  <2> QED
    BY <1>5, <2>1 DEF Validate, Get, Version
<1>6. CASE \/ ConfigOptions \/ RefuseAnswers \/ ApplyAnswers
           \/ StartSolving \/ Follow \/ PackageInfo
  BY <1>6 DEF ConfigOptions, RefuseAnswers, ApplyAnswers, StartSolving, Follow, PackageInfo
<1>7. CASE UNCHANGED cvVars
  BY <1>7 DEF cvVars, Solved, Get, Version
<1> QED
  BY <1>1, <1>2, <1>3, <1>4, <1>5, <1>6, <1>7 DEF CvNext

LEMMA CvInvHolds == CvSpec => []CvInv
<1>1. CvInit => CvInv
  <2>1. \A o : "False" \in ValuesOf(o)
    BY OptionFacts
  <2> QED
    BY <2>1, UsersAssumption DEF CvInit, CvInv, CvTypeOK, Present, Following, SolvedUnlessBuildAll, MandatoryIsSolved
<1>2. CvInv /\ [CvNext]_cvVars => CvInv'
  <2> SUFFICES ASSUME CvInv, [CvNext]_cvVars
               PROVE  CvInv'
    OBVIOUS
  <2>1. user \in Users
    BY DEF CvInv, Present
  <2> QED
    BY <2>1, CvTypeStep, PresentStep, FollowingStep, SolvedStep DEF CvInv
<1> QED
  BY <1>1, <1>2, PTL DEF CvSpec

(* Every option has a value of its own kind, for every request.            *)
THEOREM CvTypeCorrect == CvSpec => []CvTypeOK
BY CvInvHolds, PTL DEF CvInv

(* Whatever is requested, on whatever system: unless build_all_contrib, or *)
(* build_all_base before 4.8, brings modules after the search, validate()  *)
(* finds every option that an enabled module needs.                        *)
THEOREM MandatoryIsSolvedAlways == CvSpec => []MandatoryIsSolved
BY CvInvHolds, PTL DEF CvInv
-----------------------------------------------------------------------------
(* What is needed is needed by somebody, who is or will be enabled.        *)
Justified ==
    /\ pc \in {"config_options", "apply", "configure"} => required = {}
    /\ pc = "solve" =>
           /\ \A o \in pending : Get(o) \/ o \in required
           /\ \A o \in required :
                 \E m \in CvModules :
                     (Get(m) \/ m \in required) /\ o \in Mandatory(Version, m)

LEMMA JustifiedStep ==
    ASSUME Justified, [CvNext]_cvVars
    PROVE  Justified'
<1> USE DEF Justified, Version, Get
<1>1. CASE StartSolving
  BY <1>1 DEF StartSolving
<1>2. CASE Follow
  <2>1. PICK x \in pending :
            /\ required' = required \cup Mandatory(Version, x)
            /\ pending' = (pending \ {x}) \cup (Mandatory(Version, x) \ required)
    BY <1>2 DEF Follow
  <2>2. \A o \in pending' : Get(o) \/ o \in required'
    BY <1>2, <2>1 DEF Follow
  <2>3. ASSUME NEW o \in required'
        PROVE  \E m \in CvModules :
                   (Get(m) \/ m \in required') /\ o \in Mandatory(Version, m)
    <3>1. CASE o \in required
      BY <1>2, <2>1, <3>1 DEF Follow
    <3>2. CASE o \in Mandatory(Version, x)
      <4>1. x \in CvModules
        BY <3>2, OptionFacts
      <4> QED
        BY <1>2, <2>1, <3>2, <4>1 DEF Follow
    <3> QED
      BY <2>1, <3>1, <3>2
  <2> QED
    BY <1>2, <2>2, <2>3 DEF Follow
<1>3. CASE ConfigOptions \/ RefuseAnswers \/ ApplyAnswers
  BY <1>3 DEF ConfigOptions, RefuseAnswers, ApplyAnswers
<1>4. CASE \/ EnableRequired \/ RemoveUnused \/ BuildAll
           \/ DeclareRequirements \/ Validate \/ PackageInfo
  BY <1>4 DEF EnableRequired, RemoveUnused, BuildAll, DeclareRequirements, Validate, PackageInfo
<1>5. CASE UNCHANGED cvVars
  BY <1>5 DEF cvVars
<1> QED
  BY <1>1, <1>2, <1>3, <1>4, <1>5 DEF CvNext

ChangeHasReason(o) ==
    /\ opts[o] = "False"
    /\ opts'[o] = "True"
    /\ \/ \E m \in CvModules \cap DOMAIN opts' :
             opts'[m] = "True" /\ o \in Mandatory(Version, m)
       \/ Get("build_all_base") /\ o \in BaseModules
       \/ Get("build_all_contrib") /\ o \in ExtraModules

LEMMA EnableRequiredHasReason ==
    ASSUME CvTypeOK, Present, Justified, EnableRequired,
           NEW o \in DOMAIN opts, opts'[o] # opts[o]
    PROVE  ChangeHasReason(o)
<1>1. o \in required /\ opts[o] = "False" /\ opts'[o] = "True"
  BY DEF EnableRequired, Get
<1>2. PICK m \in CvModules : (Get(m) \/ m \in required) /\ o \in Mandatory(Version, m)
  BY <1>1 DEF Justified, EnableRequired
<1>3. CASE m \in required
  <2>1. PICK n \in CvModules : m \in Mandatory(Version, n)
    BY <1>3 DEF Justified, EnableRequired
  <2>2. m \in DOMAIN opts
    BY <2>1, NeededExists DEF Present, EnableRequired, CvTypeOK, Version
  <2>3. opts[m] \in {"False", "True"}
    BY <2>2, OptionFacts DEF CvTypeOK
  <2>4. m \in DOMAIN opts' /\ opts'[m] = "True"
    BY <1>3, <2>2, <2>3 DEF EnableRequired, Get
  <2> QED
    BY <1>1, <1>2, <2>4 DEF ChangeHasReason
<1>4. CASE Get(m)
  <2>1. m \in DOMAIN opts /\ opts[m] = "True"
    BY <1>4, OptionFacts DEF CvTypeOK, Get
  <2>2. m \in DOMAIN opts' /\ opts'[m] = "True"
    BY <1>4, <2>1 DEF EnableRequired
  <2> QED
    BY <1>1, <1>2, <2>2 DEF ChangeHasReason
<1> QED
  BY <1>2, <1>3, <1>4

LEMMA BuildAllHasReason ==
    ASSUME CvTypeOK, BuildAll, NEW o \in DOMAIN opts, opts'[o] # opts[o]
    PROVE  ChangeHasReason(o)
<1>1. \/ Get("build_all_base") /\ o \in BaseModules
      \/ Get("build_all_contrib") /\ o \in ExtraModules
  BY DEF BuildAll
<1>2. o \in CvModules
  BY <1>1 DEF CvModules
<1>3. opts[o] \in {"False", "True"} /\ opts'[o] = "True"
  BY <1>1, <1>2, OptionFacts DEF CvTypeOK, BuildAll
<1> QED
  BY <1>1, <1>3 DEF ChangeHasReason

LEMMA JustifiedHolds == CvSpec => []Justified
<1>1. CvInit => Justified
  BY DEF CvInit, Justified
<1>2. Justified /\ [CvNext]_cvVars => Justified'
  BY JustifiedStep
<1> QED
  BY <1>1, <1>2, PTL DEF CvSpec

(* For every request: what the user said is overruled only where an        *)
(* enabled module needs it, or where build_all was asked for.              *)
THEOREM ChangedForAReasonAlways == CvSpec => ChangedForAReason
<1>1. ASSUME CvInv, Justified, [CvNext]_cvVars,
             NEW o \in DOMAIN opts \cap DOMAIN opts',
             pc \notin {"config_options", "apply"}, opts'[o] # opts[o]
      PROVE  ChangeHasReason(o)
  <2>1. CASE EnableRequired
    BY <1>1, <2>1, EnableRequiredHasReason DEF CvInv
  <2>2. CASE BuildAll
    BY <1>1, <2>2, BuildAllHasReason DEF CvInv
  <2>3. CASE RemoveUnused
    BY <1>1, <2>3 DEF RemoveUnused
  <2>4. CASE \/ ConfigOptions \/ RefuseAnswers \/ ApplyAnswers \/ StartSolving
             \/ Follow \/ DeclareRequirements \/ Validate \/ PackageInfo
    BY <1>1, <2>4 DEF ConfigOptions, RefuseAnswers, ApplyAnswers, StartSolving, Follow, DeclareRequirements, Validate, PackageInfo
  <2>5. CASE UNCHANGED cvVars
    BY <1>1, <2>5 DEF cvVars
  <2> QED
    BY <1>1, <2>1, <2>2, <2>3, <2>4, <2>5 DEF CvNext
<1>2. CvInv /\ Justified /\ [CvNext]_cvVars =>
        [\A o \in DOMAIN opts \cap DOMAIN opts' :
             pc \notin {"config_options", "apply"} /\ opts'[o] # opts[o] =>
                 ChangeHasReason(o)]_cvVars
  BY <1>1
<1> QED
  BY <1>2, CvInvHolds, JustifiedHolds, PTL DEF CvSpec, ChangedForAReason, ChangeHasReason
-----------------------------------------------------------------------------
Supported ==
    LET unavailable == Unavailable(Version, System, user.settings.arm) IN
        /\ pc \in {"requirements", "validate"} =>
               Get("viz") \/ \A m \in unavailable : ~Get(m)
        /\ pc \in {"package_info", "described"} => \A m \in unavailable : ~Get(m)

LEMMA SupportedStep ==
    ASSUME CvInv, Supported, [CvNext]_cvVars
    PROVE  Supported'
<1> DEFINE unavailable == Unavailable(Version, System, user.settings.arm)
<1>1. CASE BuildAll
  <2>1. DOMAIN opts \cap unavailable = {}
    BY <1>1 DEF CvInv, Present, BuildAll
  <2>2. BaseModules \cap unavailable = {}
    BY DEF BaseModules, Unavailable
  <2>3. "viz" \in ExtraModules
    BY DEF ExtraModules
  <2>4. Get("build_all_contrib") => Get("viz")'
    BY <1>1, <2>3 DEF BuildAll, Get
  <2>5. ~Get("build_all_contrib") => \A m \in unavailable : ~Get(m)'
    BY <1>1, <2>1, <2>2 DEF BuildAll, Get
  <2> QED
    BY <1>1, <2>4, <2>5 DEF Supported, BuildAll, Version, System
<1>2. CASE DeclareRequirements
  BY <1>2 DEF DeclareRequirements, Supported, Get, Version, System
<1>3. CASE Validate
  <2>1. pc' = "package_info" => ~Get("viz")
    BY <1>3 DEF Validate, Rejected
  <2> QED
    BY <1>3, <2>1 DEF Validate, Supported, Get, Version, System
<1>4. CASE PackageInfo
  BY <1>4 DEF PackageInfo, Supported, Get, Version, System
<1>5. CASE \/ ConfigOptions \/ RefuseAnswers \/ ApplyAnswers
           \/ StartSolving \/ Follow \/ EnableRequired \/ RemoveUnused
  BY <1>5 DEF ConfigOptions, RefuseAnswers, ApplyAnswers, StartSolving, Follow, EnableRequired, RemoveUnused, Supported
<1>6. CASE UNCHANGED cvVars
  BY <1>6 DEF cvVars, Supported, Get, Version, System
<1> QED
  BY <1>1, <1>2, <1>3, <1>4, <1>5, <1>6 DEF CvNext

(* For every request: superres and barcode, which build_all_contrib brings *)
(* back, are never described where they do not exist, because viz comes    *)
(* with them and is refused.                                               *)
THEOREM OnlySupportedModulesAlways == CvSpec => []OnlySupportedModules
<1>1. CvInit => Supported
  BY DEF CvInit, Supported
<1>2. Supported => OnlySupportedModules
  BY DEF Supported, OnlySupportedModules
<1> QED
  BY <1>1, <1>2, SupportedStep, CvInvHolds, PTL DEF CvSpec
-----------------------------------------------------------------------------
(* From the removal on, no option is there that nothing uses: build_all    *)
(* only adds modules, which use more.                                      *)
UnusedIsGone ==
    pc \in {"build_all", "requirements", "validate", "package_info"} =>
        DOMAIN opts \cap Unused = {}

(* What holds when package_info() is called.                               *)
Validated ==
    /\ pc = "validate" => requires = Requirements
    /\ pc = "package_info" =>
           requires = Requirements /\ Solved /\ ~Get("viz")

(* Unused depends on modules and with_cuda, which stay.                    *)
LEMMA UnusedShrinks ==
    ASSUME \A o : Get(o) /\ o \in CvModules \cup {"with_cuda"} => Get(o)',
           Version' = Version
    PROVE  Unused' \subseteq Unused
<1>1. {"gapi", "dnn", "calib3d", "highgui", "cvv", "imgcodecs", "objdetect",
       "videoio", "with_cuda", "text", "videostab"}
          \subseteq CvModules \cup {"with_cuda"}
  BY DEF CvModules, BaseModules, ExtraModules
<1> QED
  BY <1>1 DEF Unused

LEMMA NoModuleIsUnused == (CvModules \cup {"with_cuda"}) \cap Unused = {}
BY DEF Unused, CvModules, BaseModules, ExtraModules, ImageFormats, VideoSources

LEMMA UnusedIsGoneStep ==
    ASSUME CvTypeOK, UnusedIsGone, [CvNext]_cvVars
    PROVE  UnusedIsGone'
<1>1. CASE RemoveUnused
  <2>1. \A o : Get(o) /\ o \in CvModules \cup {"with_cuda"} => Get(o)'
    BY <1>1, NoModuleIsUnused DEF RemoveUnused, Get
  <2>2. Unused' \subseteq Unused
    BY <1>1, <2>1, UnusedShrinks DEF RemoveUnused, Version
  <2> QED
    BY <1>1, <2>2 DEF RemoveUnused, UnusedIsGone
<1>2. CASE BuildAll
  <2>1. \A o : Get(o) => Get(o)'
    BY <1>2 DEF BuildAll, Get
  <2>2. Unused' \subseteq Unused
    BY <1>2, <2>1, UnusedShrinks DEF BuildAll, Version
  <2>3. DOMAIN opts' \subseteq DOMAIN opts \cup CvModules
    BY <1>2 DEF BuildAll, CvModules
  <2> QED
    BY <1>2, <2>2, <2>3, NoModuleIsUnused DEF BuildAll, UnusedIsGone
<1>3. CASE DeclareRequirements \/ Validate
  BY <1>3 DEF DeclareRequirements, Validate, UnusedIsGone, Unused, Get, Version
<1>4. CASE \/ ConfigOptions \/ RefuseAnswers \/ ApplyAnswers
           \/ StartSolving \/ Follow \/ EnableRequired \/ PackageInfo
  BY <1>4 DEF ConfigOptions, RefuseAnswers, ApplyAnswers, StartSolving, Follow, EnableRequired, PackageInfo, UnusedIsGone
<1>5. CASE UNCHANGED cvVars
  BY <1>5 DEF cvVars, UnusedIsGone, Unused, Get, Version
<1> QED
  BY <1>1, <1>2, <1>3, <1>4, <1>5 DEF CvNext

LEMMA NothingMissingIsSolved ==
    ASSUME MissingMandatory = {}
    PROVE  Solved
BY DEF Solved, MissingMandatory

LEMMA RequirementsStay ==
    ASSUME UNCHANGED <<opts, user>>
    PROVE  Requirements' = Requirements
BY DEF Requirements, RequiredFor, IsAppleOs, Get, Is, System

LEMMA ValidatedStep ==
    ASSUME Validated, [CvNext]_cvVars
    PROVE  Validated'
<1>1. CASE DeclareRequirements
  <2>1. Requirements' = Requirements
    BY <1>1, RequirementsStay DEF DeclareRequirements
  <2> QED
    BY <1>1, <2>1 DEF DeclareRequirements, Validated
<1>2. CASE Validate
  <2>1. Requirements' = Requirements
    BY <1>2, RequirementsStay DEF Validate
  <2>2. pc' = "package_info" => Solved /\ ~Get("viz")
    BY <1>2, NothingMissingIsSolved DEF Validate, Rejected
  <2>3. Solved' = Solved /\ Get("viz")' = Get("viz")
    BY <1>2 DEF Validate, Solved, Get, Version
  <2> QED
    BY <1>2, <2>1, <2>2, <2>3 DEF Validate, Validated
<1>3. CASE \/ ConfigOptions \/ RefuseAnswers \/ ApplyAnswers
           \/ StartSolving \/ Follow \/ EnableRequired \/ RemoveUnused
           \/ BuildAll \/ PackageInfo
  BY <1>3 DEF ConfigOptions, RefuseAnswers, ApplyAnswers, StartSolving, Follow, EnableRequired, RemoveUnused, BuildAll, PackageInfo, Validated
<1>4. CASE UNCHANGED cvVars
  <2>1. Requirements' = Requirements
    BY <1>4, RequirementsStay DEF cvVars
  <2> QED
    BY <1>4, <2>1 DEF cvVars, Validated, Solved, Get, Version
<1> QED
  BY <1>1, <1>2, <1>3, <1>4 DEF CvNext

-----------------------------------------------------------------------------
(* The two lists of conditions, in requirements() and in the table.        *)

LEMMA TableNames ==
    /\ \A m : Uses(m) \subseteq WithOptions
    /\ \A m : Optional(m) \subseteq CvModules
    /\ CvModules \cap Targets = {}
    /\ NppModules \subseteq CudaModules
    /\ CudaModules \subseteq CvModules
<1>1. \A m : Uses(m) \subseteq WithOptions
  BY DEF Uses, WithOptions, ImageFormats, VideoSources
<1>2. \A m : Optional(m) \subseteq CvModules
  BY DEF Optional, CvModules, BaseModules, ExtraModules
<1>3. CvModules \cap Targets = {}
  BY DEF CvModules, BaseModules, ExtraModules, Targets
<1>4. NppModules \subseteq CudaModules /\ CudaModules \subseteq CvModules
  BY DEF NppModules, CudaModules, CvModules, ExtraModules
<1> QED
  BY <1>1, <1>2, <1>3, <1>4

LEMMA ModulesAreBuilt ==
    \A m \in CvModules : Get(m) <=> m \in Built
BY TableNames DEF Built, IsBuilt, Targets

LEMMA TargetsAreBuilt ==
    /\ "core" \in Built
    /\ Get("with_cuda") => "cudev" \in Built
    /\ StaticIcv <=> "ippiw" \in Built
    /\ \A t \in {"numeric", "correspondence", "multiview"} : Get("sfm") <=> t \in Built
<1>1. Targets \subseteq CvModules \cup Targets
  OBVIOUS
<1> QED
  BY <1>1, TableNames DEF Built, IsBuilt, Targets

(* The modules for CUDA cannot be had without it.                          *)
LEMMA CudaNeedsCuda ==
    ASSUME Solved, NEW m \in CudaModules, Get(m)
    PROVE  Get("with_cuda")
<1>1. m \in CvModules /\ m \notin BaseModules
  BY TableNames DEF CudaModules, BaseModules
<1>2. "with_cuda" \in Mandatory(Version, m)
  BY <1>1 DEF Mandatory
<1> QED
  BY <1>1, <1>2 DEF Solved

(* The conditions in requirements() and those in the helpers agree for an  *)
(* option that configure() has left on. *)
LEMMA NamedIsRequired ==
    ASSUME CvTypeOK, UnusedIsGone, pc \in {"validate", "package_info"},
           NEW o \in WithOptions, Get(o)
    PROVE  NamedFor(o) = RequiredFor(o)
<1>1. o \in {"with_cublas", "with_cufft", "dnn_cuda"} => Get("with_cuda")
  BY DEF UnusedIsGone, Unused, Get
<1>2. CASE o = "with_jpeg2000"
  <2>1. o \in DOMAIN opts /\ opts[o] \in {"openjpeg", "jasper"}
    BY <1>2 DEF CvTypeOK, Get, ValuesOf
  <2> QED
    BY <1>2, <2>1 DEF NamedFor, RequiredFor, Is
<1>3. CASE o \in {"with_cublas", "with_cufft"}
  BY <1>1, <1>3 DEF NamedFor, RequiredFor
<1>4. CASE o \notin {"with_jpeg2000", "with_cublas", "with_cufft"}
  BY <1>1, <1>4 DEF NamedFor, RequiredFor, IsAppleOs
<1> QED
  BY <1>2, <1>3, <1>4

LEMMA OptionPackagesRequired ==
    ASSUME CvTypeOK, UnusedIsGone, Validated, pc = "package_info",
           NEW o \in WithOptions, Get(o)
    PROVE  NamedFor(o) \subseteq requires
<1>1. RequiredFor(o) \subseteq Requirements
  BY DEF Requirements
<1> QED
  BY <1>1, NamedIsRequired DEF Validated

LEMMA ModulePackagesRequired ==
    ASSUME Validated, pc = "package_info", NEW m \in CvModules, Get(m)
    PROVE  RequiredWith(m) \subseteq requires
<1>1. RequiredWith(m) \in {RequiredWith(x) : x \in {y \in CvModules : Get(y)}}
  OBVIOUS
<1>2. RequiredWith(m) \subseteq Requirements
  BY <1>1 DEF Requirements
<1> QED
  BY <1>2 DEF Validated

LEMMA NamesAreRequired ==
    ASSUME CvTypeOK, Version \in Nat, UnusedIsGone, Validated, pc = "package_info",
           NEW m \in Built
    PROVE  Names(m) \subseteq requires
<1> USE DEF Validated
<1>1. CASE m \in {"core", "imgcodecs"}
  <2>1. Names(m) = {"zlib-ng"}
    BY <1>1 DEF Names, NppModules
  <2> QED
    BY <2>1 DEF Requirements
<1>2. CASE m \in NppModules
  <2>1. Get(m) /\ Get("with_cuda")
    BY <1>2, TableNames, ModulesAreBuilt, CudaNeedsCuda
  <2> QED
    <3>1. Names(m) = {"npp"}
      BY <1>2 DEF Names, NppModules
    <3>2. "npp" \in Requirements
      BY <1>2, <2>1 DEF Requirements
    <3> QED
      BY <3>1, <3>2
<1>3. CASE m = "cvv"
  <2>1. m \in CvModules /\ m \notin BaseModules /\ m \notin CudaModules /\ m \in ExtraModules
    BY <1>3 DEF CvModules, BaseModules, CudaModules, ExtraModules
  <2>2. "with_qt" \in Mandatory(Version, m)
    BY <1>3, <2>1 DEF Mandatory, MandatoryOfExtra
  <2>3. Get("with_qt")
    BY <2>1, <2>2, ModulesAreBuilt DEF Solved
  <2>4. "with_qt" \in WithOptions /\ NamedFor("with_qt") = {"with_qt"}
    BY DEF WithOptions, NamedFor
  <2>5. Names(m) = {"with_qt"}
    BY <1>3 DEF Names, NppModules
  <2> QED
    BY <2>3, <2>4, <2>5, OptionPackagesRequired
<1>4. CASE m = "viz"
  <2>1. m \in CvModules
    BY <1>4 DEF CvModules, ExtraModules
  <2> QED
    BY <1>4, <2>1, ModulesAreBuilt
<1>5. CASE m \in {"correspondence", "multiview"}
  <2>1. Get("sfm")
    BY <1>5, TargetsAreBuilt
  <2>2. "sfm" \in CvModules /\ RequiredWith("sfm") = {"gflags", "glog"}
    BY DEF CvModules, ExtraModules, RequiredWith
  <2>3. Names(m) = {"glog"}
    BY <1>5 DEF Names, NppModules
  <2> QED
    BY <2>1, <2>2, <2>3, ModulePackagesRequired
<1>6. CASE m \notin {"core", "imgcodecs", "cvv", "viz", "correspondence", "multiview"}
           /\ m \notin NppModules
  <2>1. Names(m) = RequiredWith(m)
    BY <1>6 DEF Names, RequiredWith
  <2>2. CASE m \in CvModules
    BY <2>1, <2>2, ModulesAreBuilt, ModulePackagesRequired
  <2>3. CASE m \in Targets
    BY <2>1, <2>3, <1>6 DEF Targets, RequiredWith
  <2> QED
    BY <2>2, <2>3 DEF Built
<1> QED
  BY <1>1, <1>2, <1>3, <1>4, <1>5, <1>6

LEMMA TargetsResolve ==
    ASSUME Version \in Nat, Solved, NEW m \in Built
    PROVE  TargetsOf(m) \subseteq Built
<1>1. CASE m \in {"cudaarithm", "cudaimgproc", "cudastereo", "cudawarping", "cudacodec"}
  <2>1. m \in CudaModules
    BY <1>1 DEF CudaModules
  <2>2. Get("with_cuda")
    BY <2>1, TableNames, ModulesAreBuilt, CudaNeedsCuda
  <2> QED
    BY <1>1, <2>2, TargetsAreBuilt DEF TargetsOf
<1>2. CASE m \in {"sfm", "correspondence", "multiview"}
  <2>1. "sfm" \in ExtraModules /\ "sfm" \in CvModules /\ "sfm" \notin BaseModules
        /\ "sfm" \notin CudaModules /\ "imgcodecs" \in CvModules
    BY DEF ExtraModules, CvModules, BaseModules, CudaModules
  <2>2. Get("sfm")
    BY <1>2, <2>1, ModulesAreBuilt, TargetsAreBuilt
  <2>3. "imgcodecs" \in Mandatory(Version, "sfm")
    BY <2>1 DEF Mandatory, MandatoryOfMore
  <2>4. "imgcodecs" \in Built
    BY <2>1, <2>2, <2>3, ModulesAreBuilt DEF Solved
  <2> QED
    BY <1>2, <2>2, <2>4, TargetsAreBuilt DEF TargetsOf
<1>3. CASE m \notin {"cudaarithm", "cudaimgproc", "cudastereo", "cudawarping", "cudacodec",
                     "sfm", "correspondence", "multiview"}
  BY <1>3 DEF TargetsOf
<1> QED
  BY <1>1, <1>2, <1>3

LEMMA ModuleResolves ==
    ASSUME CvTypeOK, Version \in Nat, UnusedIsGone, Validated, pc = "package_info",
           NEW m \in Built
    PROVE  ModuleRequires(m) \subseteq Built \cup requires
<1>1. Solved
  BY DEF Validated
<1>2. Mandatory(Version, m) \cap CvModules \subseteq Built
  <2> SUFFICES ASSUME NEW o \in Mandatory(Version, m) \cap CvModules
               PROVE  o \in Built
    OBVIOUS
  <2>1. m \in CvModules
    BY OptionFacts
  <2> QED
    BY <1>1, <2>1, ModulesAreBuilt DEF Solved
<1>3. {x \in Optional(m) : Get(x)} \subseteq Built
  BY TableNames, ModulesAreBuilt
<1>4. TargetsOf(m) \subseteq Built
  BY <1>1, TargetsResolve
<1>5. Names(m) \subseteq requires
  BY NamesAreRequired
<1>6. UNION {NamedFor(o) : o \in {x \in Uses(m) : Get(x)}} \subseteq requires
  BY TableNames, OptionPackagesRequired
<1>7. "core" \in Built /\ (StaticIcv => "ippiw" \in Built)
  BY TargetsAreBuilt
<1>8. (IF StaticIcv /\ "with_ipp" \in Uses(m) THEN {"ippiw"} ELSE {}) \subseteq Built
  BY <1>7
<1>9. (IF m \in CvModules \ CoreThroughOthers THEN {"core"} ELSE {}) \subseteq Built
  BY <1>7
<1> QED
  BY <1>2, <1>3, <1>4, <1>5, <1>6, <1>8, <1>9 DEF ModuleRequires

LEMMA ComponentsDefined ==
    ASSUME CvTypeOK, Version \in Nat, UnusedIsGone, Validated, pc = "package_info"
    PROVE  \A c \in DOMAIN Components :
               Components[c] \subseteq DOMAIN Components \cup requires
<1>1. \A m \in Built : ModuleRequires(m) \subseteq Built \cup requires
  BY ModuleResolves
<1>2. CASE ~Get("world")
  BY <1>1, <1>2 DEF Components
<1>3. CASE Get("world")
  <2>1. DOMAIN Components = Built \cup {"world"}
    BY <1>3 DEF Components
  <2>2. Components["world"] \subseteq Built \cup requires
    BY <1>1, <1>3 DEF Components, InWorld
  <2>3. \A c \in Built \ {"world"} : Components[c] \in {{"world"}, ModuleRequires(c)}
    BY <1>3 DEF Components
  <2> QED
    BY <1>1, <2>1, <2>2, <2>3
<1> QED
  BY <1>2, <1>3

(* The packages are not modules of OpenCV by another name.                 *)
LEMMA PackagesAreNotModules ==
    ASSUME NEW p \in Requirements
    PROVE  p \notin CvModules \cup Targets /\ p # "world"
<1>1. CASE p \in {"zlib-ng", "npp"}
  BY <1>1 DEF CvModules, BaseModules, ExtraModules, Targets
<1>2. ASSUME NEW m, p \in RequiredWith(m) PROVE p \notin CvModules \cup Targets /\ p # "world"
  BY <1>2 DEF RequiredWith, CvModules, BaseModules, ExtraModules, Targets
<1>3. ASSUME NEW o \in WithOptions, Get(o), p \in RequiredFor(o)
      PROVE  p \notin CvModules \cup Targets /\ p # "world"
  <2>1. WithOptions \cap (CvModules \cup Targets \cup {"world"}) = {}
    BY DEF WithOptions, ImageFormats, VideoSources, CvModules, BaseModules, ExtraModules, Targets
  <2>2. p \in {"onetbb", "openmp", "intel-ipp", "openjpeg", "jasper", "opencl", "cudart", "cudnn",
               "wayland", "xkbcommon", "gstreamer", "gst-plugins-base"} \cup {o}
    BY <1>3 DEF RequiredFor
  <2> QED
    BY <2>1, <2>2 DEF CvModules, BaseModules, ExtraModules, Targets
<1>4. \/ p \in {"zlib-ng", "npp"}
      \/ \E m : p \in RequiredWith(m)
      \/ \E o \in WithOptions : Get(o) /\ p \in RequiredFor(o)
  BY DEF Requirements
<1> QED
  BY <1>1, <1>2, <1>3, <1>4

LEMMA UsedPackages ==
    ASSUME NEW m, NEW o \in Uses(m), Get(o)
    PROVE  NamedFor(o) \subseteq ModuleRequires(m)
<1>1. NamedFor(o) \in {NamedFor(x) : x \in {y \in Uses(m) : Get(y)}}
  OBVIOUS
<1> QED
  BY <1>1 DEF ModuleRequires

LEMMA NamedPackages ==
    ASSUME NEW m
    PROVE  Names(m) \subseteq ModuleRequires(m)
BY DEF ModuleRequires

AllRequired == UNION {ModuleRequires(m) : m \in Built}

LEMMA OptionIsUsed ==
    ASSUME CvTypeOK, UnusedIsGone, pc = "package_info", NEW o \in WithOptions, Get(o),
           o \notin {"with_cublas", "with_cufft", "with_framebuffer"}
    PROVE  \/ \E m \in Built : o \in Uses(m)
           \/ o = "with_qt" /\ "cvv" \in Built
<1>1. o \notin Unused
  BY DEF UnusedIsGone, Get
<1>2. "core" \in Built
  BY TargetsAreBuilt
<1>3. {"calib3d", "dnn", "gapi", "highgui", "cvv", "imgcodecs", "objdetect",
       "videoio", "text", "videostab"} \subseteq CvModules
  BY DEF CvModules, BaseModules, ExtraModules
<1>4. CASE o \in {"parallel", "with_eigen", "with_ipp", "with_armpl",
                  "with_opencl", "with_va", "with_itt", "with_cuda"}
  BY <1>2, <1>4 DEF Uses
<1>5. CASE o \in ImageFormats
  <2>1. Get("imgcodecs")
    BY <1>1, <1>5 DEF Unused
  <2>2. o \in Uses("imgcodecs")
    BY <1>5 DEF Uses
  <2> QED
    BY <1>3, <2>1, <2>2, ModulesAreBuilt
<1>6. CASE o \in VideoSources \ {"with_va"}
  <2>1. Get("videoio")
    BY <1>1, <1>6 DEF Unused
  <2>2. o \in Uses("videoio")
    BY <1>6 DEF Uses
  <2> QED
    BY <1>3, <2>1, <2>2, ModulesAreBuilt
<1>7. CASE o = "with_lapack"
  <2>1. Get("calib3d") \/ Get("dnn")
    BY <1>1, <1>7 DEF Unused
  <2>2. o \in Uses("calib3d") /\ o \in Uses("dnn")
    BY <1>7 DEF Uses
  <2> QED
    BY <1>3, <2>1, <2>2, ModulesAreBuilt
<1>8. CASE o \in {"dnn_cuda", "with_protobuf", "with_vulkan"}
  <2>1. Get("dnn")
    BY <1>1, <1>8 DEF Unused
  <2>2. o \in Uses("dnn")
    BY <1>8 DEF Uses
  <2> QED
    BY <1>3, <2>1, <2>2, ModulesAreBuilt
<1>9. CASE o = "with_openvino"
  <2>1. Get("gapi") \/ Get("dnn")
    BY <1>1, <1>9 DEF Unused
  <2>2. o \in Uses("gapi") /\ o \in Uses("dnn")
    BY <1>9 DEF Uses
  <2> QED
    BY <1>3, <2>1, <2>2, ModulesAreBuilt
<1>10. CASE o \in {"with_gtk", "with_wayland"}
  <2>1. Get("highgui")
    BY <1>1, <1>10 DEF Unused
  <2>2. o \in Uses("highgui")
    BY <1>10 DEF Uses
  <2> QED
    BY <1>3, <2>1, <2>2, ModulesAreBuilt
<1>11. CASE o = "with_qt"
  <2>1. Get("highgui") \/ Get("cvv")
    BY <1>1, <1>11 DEF Unused
  <2>2. o \in Uses("highgui")
    BY <1>11 DEF Uses
  <2> QED
    BY <1>3, <1>11, <2>1, <2>2, ModulesAreBuilt
<1>12. CASE o = "with_gstreamer"
  <2>1. Get("videoio") \/ Get("gapi")
    BY <1>1, <1>12 DEF Unused
  <2>2. o \in Uses("videoio") /\ o \in Uses("gapi")
    BY <1>12 DEF Uses
  <2> QED
    BY <1>3, <2>1, <2>2, ModulesAreBuilt
<1>13. CASE o \in {"with_quirc", "with_tesseract", "with_clp"}
  <2>1. /\ o = "with_quirc" => Get("objdetect")
        /\ o = "with_tesseract" => Get("text")
        /\ o = "with_clp" => Get("videostab")
    BY <1>1, <1>13 DEF Unused
  <2>2. /\ "with_quirc" \in Uses("objdetect")
        /\ "with_tesseract" \in Uses("text")
        /\ "with_clp" \in Uses("videostab")
    BY DEF Uses
  <2> QED
    BY <1>3, <1>13, <2>1, <2>2, ModulesAreBuilt
<1> QED
  BY <1>4, <1>5, <1>6, <1>7, <1>8, <1>9, <1>10, <1>11, <1>12, <1>13 DEF WithOptions

Outlived == {"with_cublas", "with_cufft", "with_framebuffer"}

LEMMA RequirementIsUsed ==
    ASSUME CvTypeOK, UnusedIsGone, pc = "package_info", NEW p \in Requirements
    PROVE  p \in AllRequired \/ p \in Outlived
<1>1. CASE \E o \in WithOptions : Get(o) /\ p \in RequiredFor(o)
  <2>1. PICK o \in WithOptions : Get(o) /\ p \in RequiredFor(o)
    BY <1>1
  <2>2. CASE o \in Outlived
    BY <2>1, <2>2 DEF Outlived, RequiredFor
  <2>3. CASE o \notin Outlived /\ \E m \in Built : o \in Uses(m)
    BY <2>1, <2>3, NamedIsRequired, UsedPackages DEF AllRequired
  <2>4. CASE o = "with_qt" /\ "cvv" \in Built
    <3>1. p \in Names("cvv")
      BY <2>1, <2>4 DEF RequiredFor, Names, NppModules
    <3> QED
      BY <2>4, <3>1, NamedPackages DEF AllRequired
  <2> QED
    BY <2>1, <2>2, <2>3, <2>4, OptionIsUsed DEF Outlived
<1>2. CASE p = "zlib-ng"
  <2>1. p \in Names("core")
    BY <1>2 DEF Names, NppModules
  <2> QED
    BY <2>1, NamedPackages, TargetsAreBuilt DEF AllRequired
<1>3. CASE \E m \in CvModules : Get(m) /\ p \in RequiredWith(m)
  <2>1. PICK m \in CvModules : Get(m) /\ p \in RequiredWith(m)
    BY <1>3
  <2>2. m # "core"
    BY TableNames DEF Targets
  <2>3. Names(m) = RequiredWith(m)
    BY <2>1, <2>2 DEF RequiredWith, Names, NppModules
  <2> QED
    BY <2>1, <2>3, NamedPackages, ModulesAreBuilt DEF AllRequired
<1>4. CASE p = "npp" /\ \E m \in NppModules : Get(m)
  <2>1. PICK m \in NppModules : Get(m)
    BY <1>4
  <2>2. Names(m) = {"npp"}
    BY DEF Names, NppModules
  <2>3. m \in Built
    BY <2>1, TableNames, ModulesAreBuilt
  <2> QED
    BY <1>4, <2>2, <2>3, NamedPackages DEF AllRequired
<1> QED
  BY <1>1, <1>2, <1>3, <1>4 DEF Requirements

LEMMA DescribedIsUsed ==
    ASSUME CvTypeOK, UnusedIsGone, pc = "package_info"
    PROVE  Requirements \ (UNION {Components[c] : c \in DOMAIN Components}) \subseteq Outlived
<1> SUFFICES ASSUME NEW p \in Requirements, p \notin Outlived
             PROVE  \E c \in DOMAIN Components : p \in Components[c]
  OBVIOUS
<1>1. PICK m \in Built : p \in ModuleRequires(m)
  BY RequirementIsUsed DEF AllRequired
<1>2. CASE ~Get("world")
  BY <1>1, <1>2 DEF Components
<1>3. CASE Get("world") /\ m \in InWorld
  <2>1. p \notin InWorld
    BY PackagesAreNotModules DEF InWorld, Built
  <2>2. p \in Components["world"] /\ "world" \in DOMAIN Components
    BY <1>1, <1>3, <2>1 DEF Components
  <2> QED
    BY <2>2
<1>4. CASE Get("world") /\ m \notin InWorld
  <2>1. "world" \notin CvModules \cup Targets
    BY DEF CvModules, BaseModules, ExtraModules, Targets
  <2>2. Components[m] = ModuleRequires(m) /\ m \in DOMAIN Components
    BY <1>4, <2>1 DEF Components, Built
  <2> QED
    BY <1>1, <2>2
<1> QED
  BY <1>2, <1>3, <1>4

DescribedInv == ComponentsResolve /\ CvRequirementsAreUsed

LEMMA DescribedStep ==
    ASSUME CvInv, UnusedIsGone, Validated, DescribedInv, [CvNext]_cvVars
    PROVE  DescribedInv'
<1> USE DEF DescribedInv, ComponentsResolve, CvRequirementsAreUsed
<1>1. CASE PackageInfo
  <2>1. CvTypeOK /\ Version \in Nat /\ requires = Requirements
    BY <1>1 DEF CvInv, CvTypeOK, Version, PackageInfo, Validated
  <2>2. components' = Components /\ requires' = requires /\ pc = "package_info"
    BY <1>1 DEF PackageInfo
  <2>3. ComponentsResolve'
    BY <2>1, <2>2, ComponentsDefined
  <2>4. CvRequirementsAreUsed'
    BY <2>1, <2>2, DescribedIsUsed DEF Outlived
  <2> QED
    BY <2>3, <2>4
<1>2. CASE \/ ConfigOptions \/ RefuseAnswers \/ ApplyAnswers
           \/ StartSolving \/ Follow \/ EnableRequired \/ RemoveUnused
           \/ BuildAll \/ DeclareRequirements \/ Validate
  BY <1>2 DEF ConfigOptions, RefuseAnswers, ApplyAnswers, StartSolving, Follow, EnableRequired, RemoveUnused, BuildAll, DeclareRequirements, Validate
<1>3. CASE UNCHANGED cvVars
  BY <1>3 DEF cvVars
<1> QED
  BY <1>1, <1>2, <1>3 DEF CvNext

LEMMA DescribedInvHolds == CvSpec => []DescribedInv
<1>1. CvInit => UnusedIsGone /\ Validated /\ DescribedInv
  BY DEF CvInit, UnusedIsGone, Validated, DescribedInv, ComponentsResolve, CvRequirementsAreUsed
<1>2. CvInv => CvTypeOK
  BY DEF CvInv
<1> QED
  BY <1>1, <1>2, UnusedIsGoneStep, ValidatedStep, DescribedStep, CvInvHolds, PTL DEF CvSpec

(* For every request: what a component requires is there.                  *)
THEOREM ComponentsResolveAlways == CvSpec => []ComponentsResolve
BY DescribedInvHolds, PTL DEF DescribedInv

(* For every request: but for three options, what is required is used.     *)
THEOREM RequirementsAreUsedAlways == CvSpec => []CvRequirementsAreUsed
BY DescribedInvHolds, PTL DEF DescribedInv

-----------------------------------------------------------------------------
(* No component requires itself.  Peeled is a recursive function on the    *)
(* layers, and the least number of them without one does not exist.        *)

AreLayers(f, D, needs, N) ==
    f = [n \in 0..N |->
            IF n = 0 THEN D
            ELSE {c \in f[n - 1] : needs[c] \cap f[n - 1] # {}}]

LEMMA LayersExist ==
    ASSUME NEW D, NEW needs, NEW N \in Nat
    PROVE  \E f : AreLayers(f, D, needs, N)
<1> USE DEF AreLayers
<1> DEFINE Inner(S) == {c \in S : needs[c] \cap S # {}}
           Found(k) == \E f : AreLayers(f, D, needs, k)
           Without == {k \in 0..N : ~Found(k)}
<1>1. 0 \notin Without
  <2>1. AreLayers([n \in 0..0 |-> D], D, needs, 0)
    BY \A n \in 0..0 : n = 0
  <2> QED
    BY <2>1
<1>2. ASSUME NEW k \in 1..N, k - 1 \notin Without
      PROVE  k \notin Without
  <2>1. PICK f : AreLayers(f, D, needs, k - 1)
    <3>1. k - 1 \in 0..N
      OBVIOUS
    <3>2. Found(k - 1)
      <4> HIDE DEF Found
      <4> QED
        BY <1>2, <3>1
    <3> QED
      BY <3>2
  <2> DEFINE g == [n \in 0..k |-> IF n = k THEN Inner(f[k - 1]) ELSE f[n]]
  <2>2. f = [n \in 0..(k - 1) |-> IF n = 0 THEN D ELSE Inner(f[n - 1])]
    BY <2>1
  <2> HIDE DEF Inner
  <2>3. ASSUME NEW n \in 0..k
        PROVE  g[n] = IF n = 0 THEN D ELSE Inner(g[n - 1])
    <3>1. CASE n = k
      <4>1. k - 1 \in 0..k /\ k - 1 # k /\ k # 0
        OBVIOUS
      <4> QED
        BY <3>1, <4>1
    <3>2. CASE n # k
      <4>1. n \in 0..(k - 1) /\ g[n] = f[n]
        BY <3>2
      <4>2. n # 0 => n - 1 \in 0..k /\ n - 1 # k
        BY <3>2
      <4>3. f[n] = IF n = 0 THEN D ELSE Inner(f[n - 1])
        BY <2>2, <4>1
      <4> QED
        BY <4>1, <4>2, <4>3
    <3> QED
      BY <3>1, <3>2
  <2>4. g = [n \in 0..k |-> g[n]]
    OBVIOUS
  <2> HIDE DEF g
  <2>5. g = [n \in 0..k |-> IF n = 0 THEN D ELSE Inner(g[n - 1])]
    BY <2>3, <2>4
  <2>6. AreLayers(g, D, needs, k)
    BY <2>5 DEF Inner
  <2> QED
    BY <2>6
<1>3. Without = {}
  <2> SUFFICES ASSUME Without # {} PROVE FALSE
    OBVIOUS
  <2>1. Without \in SUBSET Nat /\ Without \subseteq 0..N
    OBVIOUS
  <2> HIDE DEF Without
  <2>2. PICK k \in Without : \A l \in Without : k <= l
    BY <2>1, HasMinimum
  <2>3. k \in 1..N /\ k - 1 \notin Without
    BY <1>1, <2>1, <2>2
  <2> QED
    BY <1>2, <2>2, <2>3
<1>4. Found(N)
  <2> HIDE DEF Found
  <2> QED
    BY <1>3
<1> QED
  BY <1>4

(* Every layer has a component of least rank, and the next one lacks it.   *)
LEMMA RanksPeel ==
    ASSUME NEW c, IsFiniteSet(DOMAIN c), NEW rank \in [DOMAIN c -> Nat],
           \A x \in DOMAIN c : \A y \in c[x] \cap DOMAIN c : rank[y] < rank[x],
           NEW f, f[0] = DOMAIN c,
           \A n \in 1..Cardinality(DOMAIN c) :
               f[n] = {x \in f[n - 1] : c[x] \cap f[n - 1] # {}}
    PROVE  f[Cardinality(DOMAIN c)] = {}
<1> DEFINE N == Cardinality(DOMAIN c)
           Small(n) == f[n] \subseteq DOMAIN c /\ Cardinality(f[n]) + n <= N
           Large == {n \in 0..N : ~Small(n)}
<1>1. N \in Nat
  BY FS_CardinalityType
<1>3. Small(0)
  BY <1>1
<1>4. ASSUME NEW n \in 1..N, Small(n - 1)
      PROVE  Small(n)
  <2> DEFINE S == f[n - 1]
  <2>1. S \subseteq DOMAIN c /\ Cardinality(S) + (n - 1) <= N
    BY <1>4
  <2>2. f[n] = {x \in S : c[x] \cap S # {}}
    OBVIOUS
  <2> HIDE DEF S, N
  <2>3. IsFiniteSet(S) /\ Cardinality(S) \in Nat
    BY <2>1, FS_Subset, FS_CardinalityType
  <2>4. CASE S = {}
    <3>1. f[n] = {} /\ Cardinality(f[n]) = 0
      BY <2>2, <2>4, FS_EmptySet
    <3> QED
      BY <1>1, <3>1
  <2>5. CASE S # {}
    <3> DEFINE R == {rank[x] : x \in S}
    <3>1. R \in SUBSET Nat /\ R # {}
      BY <2>1, <2>5
    <3>2. PICK least \in R : \A r \in R : least <= r
      <4> HIDE DEF R
      <4> QED
        BY <3>1, HasMinimum
    <3>3. PICK x \in S : \A y \in S : rank[x] <= rank[y]
      BY <3>2
    <3>4. c[x] \cap S = {}
      <4> SUFFICES ASSUME NEW y \in c[x] \cap S PROVE FALSE
        OBVIOUS
      <4>1. rank[y] < rank[x] /\ rank[x] <= rank[y] /\ rank[x] \in Nat /\ rank[y] \in Nat
        BY <2>1, <3>3
      <4> QED
        BY <4>1
    <3>5. f[n] \subseteq S \ {x}
      BY <2>2, <3>4
    <3>6. IsFiniteSet(S \ {x}) /\ Cardinality(S \ {x}) = Cardinality(S) - 1
      BY <2>3, FS_RemoveElement
    <3>7. IsFiniteSet(f[n]) /\ Cardinality(f[n]) <= Cardinality(S) - 1
      BY <3>5, <3>6, FS_Subset
    <3>8. Cardinality(f[n]) \in Nat
      BY <3>7, FS_CardinalityType
    <3> QED
      BY <1>1, <2>1, <2>3, <3>5, <3>7, <3>8
  <2> QED
    BY <2>4, <2>5
<1>5. Large = {}
  <2> SUFFICES ASSUME Large # {} PROVE FALSE
    OBVIOUS
  <2>1. Large \in SUBSET Nat /\ Large \subseteq 0..N /\ 0 \notin Large
    BY <1>1, <1>3
  <2>2. PICK n \in Large : \A l \in Large : n <= l
    <3> HIDE DEF Large
    <3> QED
      BY <2>1, HasMinimum
  <2>3. n \in 1..N /\ n - 1 \in 0..N /\ n - 1 \notin Large
    <3> HIDE DEF Large, N
    <3> QED
      BY <1>1, <2>1, <2>2
  <2> HIDE DEF Small, N
  <2> QED
    BY <1>4, <2>2, <2>3
<1>6. Small(N)
  <2> HIDE DEF Small, N
  <2> QED
    BY <1>1, <1>5
<1>7. IsFiniteSet(f[N]) /\ Cardinality(f[N]) \in Nat
  BY <1>6, FS_Subset, FS_CardinalityType
<1>8. Cardinality(f[N]) = 0
  <2> HIDE DEF N
  <2> QED
    BY <1>1, <1>6, <1>7
<1> QED
  BY <1>7, <1>8, FS_EmptySet

(* What the tables say of dependencies between modules, whatever is        *)
(* enabled and in every version: each goes to a lower level.               *)
Level(m) ==
    CASE m = "ippiw" -> 0
      [] m \in {"core", "cudev", "numeric"} -> 1
      [] m \in {"dnn", "features2d", "imgcodecs", "alphamat", "cudafilters",
                "cudawarping", "freetype", "fuzzy", "hfs", "img_hash",
                "intensity_transform", "line_descriptor", "phase_unwrapping",
                "plot", "quality", "reg", "surface_matching"} -> 3
      [] m \in {"calib3d", "videoio", "barcode", "cudafeatures2d", "cudaimgproc",
                "cvv", "datasets", "dnn_objdetect", "dnn_superres", "saliency",
                "text", "correspondence"} -> 4
      [] m \in {"highgui", "objdetect", "photo", "video", "cudacodec",
                "cudastereo", "mcc", "ovis", "rapid", "rgbd", "shape",
                "structured_light", "xfeatures2d"} -> 5
      [] m \in {"gapi", "aruco", "bgsegm", "ccalib", "cudabgsegm", "cudalegacy",
                "dpm", "face", "sfm", "tracking", "wechat_qrcode", "ximgproc",
                "xobjdetect", "xphoto"} -> 6
      [] m \in {"stitching", "cudaobjdetect", "optflow", "stereo"} -> 7
      [] m = "cudaoptflow" -> 8
      [] m \in {"superres", "videostab"} -> 9
      [] OTHER -> 2

LEMMA LevelOfBase ==
    ASSUME NEW v \in Nat, NEW m, NEW o \in MandatoryOfBase(v, m) \cap CvModules
    PROVE  Level(o) < Level(m) /\ o \notin OutsideWorld
<1>1. "with_protobuf" \notin CvModules
  BY DEF CvModules, BaseModules, ExtraModules
<1> QED
  BY <1>1 DEF MandatoryOfBase, Level, OutsideWorld

LEMMA LevelOfCuda ==
    ASSUME NEW v \in Nat, NEW m \in CudaModules, NEW o \in MandatoryOfCuda(v, m)
    PROVE  Level(o) < Level(m) /\ o \notin OutsideWorld
BY DEF MandatoryOfCuda, CudaModules, Level, OutsideWorld

LEMMA LevelOfExtra ==
    ASSUME NEW v \in Nat, NEW m, NEW o \in MandatoryOfExtra(v, m) \cap CvModules
    PROVE  Level(o) < Level(m) /\ o \notin OutsideWorld
<1>1. "with_eigen" \notin CvModules /\ "with_qt" \notin CvModules
  BY DEF CvModules, BaseModules, ExtraModules
<1> QED
  BY <1>1 DEF MandatoryOfExtra, Level, OutsideWorld

LEMMA LevelOfMore ==
    ASSUME NEW v \in Nat, NEW m, NEW o \in MandatoryOfMore(v, m) \cap CvModules
    PROVE  Level(o) < Level(m) /\ o \notin OutsideWorld
<1>1. "with_eigen" \notin CvModules
  BY DEF CvModules, BaseModules, ExtraModules
<1> QED
  BY <1>1 DEF MandatoryOfMore, Level, OutsideWorld

LEMMA LevelOfMandatory ==
    ASSUME NEW v \in Nat, NEW m, NEW o \in Mandatory(v, m) \cap CvModules
    PROVE  Level(o) < Level(m) /\ o \notin OutsideWorld
<1>1. "with_cuda" \notin CvModules
  BY DEF CvModules, BaseModules, ExtraModules
<1>2. \/ o \in MandatoryOfBase(v, m)
      \/ m \in CudaModules /\ o \in MandatoryOfCuda(v, m)
      \/ o \in MandatoryOfExtra(v, m)
      \/ o \in MandatoryOfMore(v, m)
  BY <1>1, OptionFacts DEF Mandatory
<1> QED
  BY <1>2, LevelOfBase, LevelOfCuda, LevelOfExtra, LevelOfMore

LEMMA LevelOfOptional ==
    ASSUME NEW m, NEW o \in Optional(m)
    PROVE  Level(o) < Level(m) /\ o \notin OutsideWorld
BY DEF Optional, Level, OutsideWorld

LEMMA LevelOfTargets ==
    ASSUME NEW m, NEW o \in TargetsOf(m)
    PROVE  /\ Level(o) < Level(m)
           /\ o \in OutsideWorld => m \in OutsideWorld
BY DEF TargetsOf, Level, OutsideWorld

LEMMA LevelType ==
    /\ \A m : Level(m) \in Nat
    /\ \A m \in CvModules : Level("core") < Level(m)
    /\ \A m : m # "ippiw" => Level("ippiw") < Level(m)
    /\ "core" \notin OutsideWorld
<1>1. \A m \in CvModules : m \notin {"ippiw", "core", "cudev", "numeric"}
  BY TableNames DEF Targets
<1>2. \A m : Level(m) \in Nat
  BY DEF Level
<1>3. Level("core") = 1 /\ Level("ippiw") = 0
  BY DEF Level
<1>4. \A m : m \notin {"ippiw", "core", "cudev", "numeric"} => Level(m) > 1
  BY DEF Level
<1>5. \A m : m # "ippiw" => Level(m) > 0
  BY DEF Level
<1> QED
  BY <1>1, <1>2, <1>3, <1>4, <1>5 DEF OutsideWorld

LEMMA WorldIsNoModule == "world" \notin CvModules \cup Targets
BY DEF CvModules, BaseModules, ExtraModules, Targets

(* What a component requires of this package is on a lower level.  Only    *)
(* ippiw is required by a part of world and not itself one.                *)
LEMMA RequiresDescend ==
    ASSUME CvTypeOK, Version \in Nat, UnusedIsGone, Validated, pc = "package_info",
           NEW m \in Built, NEW o \in ModuleRequires(m),
           o \in CvModules \cup Targets \cup {"world"}
    PROVE  /\ o # "world"
           /\ Level(o) < Level(m)
           /\ o \in OutsideWorld => o = "ippiw" \/ m \in OutsideWorld
<1>1. o \notin requires
  BY PackagesAreNotModules DEF Validated
<1>2. Names(m) \subseteq requires
  BY NamesAreRequired
<1>3. UNION {NamedFor(x) : x \in {y \in Uses(m) : Get(y)}} \subseteq requires
  BY TableNames, OptionPackagesRequired
<1>4. CASE o \in Mandatory(Version, m) \cap CvModules
  BY <1>4, LevelOfMandatory, WorldIsNoModule
<1>5. CASE o \in Optional(m)
  BY <1>5, LevelOfOptional, TableNames, WorldIsNoModule
<1>6. CASE o \in TargetsOf(m)
  <2>1. o # "world"
    BY <1>6 DEF TargetsOf
  <2> QED
    BY <1>6, <2>1, LevelOfTargets
<1>7. CASE m \in CvModules /\ o = "core"
  BY <1>7, LevelType
<1>8. CASE o = "ippiw" /\ "with_ipp" \in Uses(m)
  <2>1. m # "ippiw"
    BY <1>8 DEF Uses
  <2> QED
    BY <1>8, <2>1, LevelType
<1> QED
  BY <1>1, <1>2, <1>3, <1>4, <1>5, <1>6, <1>7, <1>8 DEF ModuleRequires

(* With world, what is required lies below it and its parts above it.      *)
Rank(c) ==
    IF ~Get("world") THEN Level(c)
    ELSE CASE c = "ippiw" -> 0
           [] c = "world" -> 1
           [] c \in InWorld -> 2
           [] OTHER -> 2 + Level(c)

LEMMA ComponentsDescend ==
    ASSUME CvTypeOK, Version \in Nat, UnusedIsGone, Validated, pc = "package_info",
           NEW c \in DOMAIN Components, NEW o \in Components[c] \cap DOMAIN Components
    PROVE  Rank(o) \in Nat /\ Rank(c) \in Nat /\ Rank(o) < Rank(c)
<1>1. Level(o) \in Nat /\ Level(c) \in Nat
  BY LevelType
<1>2. Built \subseteq CvModules \cup Targets
  BY DEF Built
<1>3. CASE ~Get("world")
  <2>1. c \in Built /\ o \in Built /\ o \in ModuleRequires(c)
    BY <1>3 DEF Components
  <2> QED
    BY <1>1, <1>2, <1>3, <2>1, RequiresDescend DEF Rank
<1>4. CASE Get("world")
  <2> DEFINE above == UNION {ModuleRequires(m) : m \in InWorld}
  <2>1. /\ DOMAIN Components = Built \cup {"world"}
        /\ Components[c] = IF c = "world" THEN above \ InWorld
                           ELSE IF c \in InWorld THEN {"world"}
                           ELSE ModuleRequires(c)
    BY <1>4 DEF Components
  <2>2. o \in CvModules \cup Targets \cup {"world"}
    BY <1>2, <2>1
  <2>3. "world" \notin Built /\ "world" \notin InWorld /\ "ippiw" \notin InWorld
    BY WorldIsNoModule DEF Built, InWorld, OutsideWorld
  <2>4. CASE c = "world"
    <3>1. PICK m \in InWorld : o \in ModuleRequires(m)
      BY <2>1, <2>4
    <3>2. o \notin InWorld
      BY <2>1, <2>4
    <3>3. m \in Built /\ m \notin OutsideWorld
      BY <3>1 DEF InWorld
    <3>4. o # "world" /\ (o \in OutsideWorld => o = "ippiw")
      BY <2>2, <3>1, <3>3, RequiresDescend
    <3>5. o = "ippiw"
      BY <2>1, <3>2, <3>4 DEF InWorld
    <3>6. Rank(o) = 0
      BY <1>4, <2>3, <3>5 DEF Rank
    <3>7. Rank(c) = 1
      BY <1>4, <2>3, <2>4 DEF Rank
    <3> QED
      BY <3>6, <3>7
  <2>5. CASE c # "world" /\ c \in InWorld
    <3>1. o = "world" /\ c # "ippiw"
      BY <2>1, <2>3, <2>5
    <3>2. Rank(o) = 1
      BY <1>4, <2>3, <3>1 DEF Rank
    <3>3. Rank(c) = 2
      BY <1>4, <2>5, <3>1 DEF Rank
    <3> QED
      BY <3>2, <3>3
  <2>6. CASE c # "world" /\ c \notin InWorld
    <3>1. c \in Built /\ o \in ModuleRequires(c)
      BY <2>1, <2>6
    <3>2. o # "world" /\ Level(o) < Level(c)
      BY <2>2, <3>1, RequiresDescend
    <3>3. c # "ippiw"
      BY <1>1, <3>2 DEF Level
    <3>4. Rank(c) = 2 + Level(c)
      BY <1>4, <2>6, <3>3 DEF Rank
    <3>5. Rank(o) \in {0, 2, 2 + Level(o)}
      BY <1>4, <3>2 DEF Rank
    <3> QED
      BY <1>1, <3>2, <3>4, <3>5
  <2> QED
    BY <2>4, <2>5, <2>6
<1> QED
  BY <1>3, <1>4

LEMMA FiveAreFinite ==
    ASSUME NEW a, NEW b, NEW c, NEW d, NEW e
    PROVE  IsFiniteSet({a, b, c, d, e})
<1>1. IsFiniteSet({a} \cup {b})
  BY FS_Singleton, FS_AddElement
<1>2. IsFiniteSet(({a} \cup {b}) \cup {c})
  BY <1>1, FS_AddElement
<1>3. IsFiniteSet((({a} \cup {b}) \cup {c}) \cup {d})
  BY <1>2, FS_AddElement
<1>4. IsFiniteSet(((({a} \cup {b}) \cup {c}) \cup {d}) \cup {e})
  BY <1>3, FS_AddElement
<1>5. ((({a} \cup {b}) \cup {c}) \cup {d}) \cup {e} = {a, b, c, d, e}
  OBVIOUS
<1> QED
  BY <1>4, <1>5

LEMMA TenAreFinite ==
    ASSUME NEW a, NEW b, NEW c, NEW d, NEW e, NEW f, NEW g, NEW h, NEW i, NEW j
    PROVE  IsFiniteSet({a, b, c, d, e, f, g, h, i, j})
<1>1. IsFiniteSet({a, b, c, d, e}) /\ IsFiniteSet({f, g, h, i, j})
  BY FiveAreFinite
<1>2. IsFiniteSet({a, b, c, d, e} \cup {f, g, h, i, j})
  BY <1>1, FS_Union
<1>3. {a, b, c, d, e} \cup {f, g, h, i, j} = {a, b, c, d, e, f, g, h, i, j}
  OBVIOUS
<1> QED
  BY <1>2, <1>3

(* All modules and targets, ten at a time.                                 *)
LEMMA ModulesAreFinite == IsFiniteSet(CvModules \cup Targets \cup {"world"})
<1> DEFINE A == {"calib3d", "dnn", "features2d", "flann", "gapi", "highgui",
                 "imgcodecs", "imgproc", "ml", "objdetect"}
           B == {"photo", "stitching", "video", "videoio", "alphamat",
                 "aruco", "barcode", "bgsegm", "bioinspired", "ccalib"}
           C == {"cudaarithm", "cudabgsegm", "cudacodec", "cudafeatures2d",
                 "cudafilters", "cudaimgproc", "cudalegacy",
                 "cudaobjdetect", "cudaoptflow", "cudastereo"}
           D == {"cudawarping", "cvv", "datasets", "dnn_objdetect",
                 "dnn_superres", "dpm", "face", "freetype", "fuzzy", "hdf"}
           E == {"hfs", "img_hash", "intensity_transform",
                 "line_descriptor", "mcc", "optflow", "ovis",
                 "phase_unwrapping", "plot", "quality"}
           F == {"rapid", "reg", "rgbd", "saliency", "sfm", "shape",
                 "stereo", "structured_light", "superres",
                 "surface_matching"}
           G == {"text", "tracking", "videostab", "viz", "wechat_qrcode",
                 "xfeatures2d", "ximgproc", "xobjdetect", "xphoto", "core"}
           H == {"cudev", "ippiw", "numeric", "correspondence", "multiview",
                 "world", "world", "world", "world", "world"}
<1>1. IsFiniteSet(A) /\ IsFiniteSet(B) /\ IsFiniteSet(C) /\ IsFiniteSet(D)
      /\ IsFiniteSet(E) /\ IsFiniteSet(F) /\ IsFiniteSet(G) /\ IsFiniteSet(H)
  BY TenAreFinite
<1>2. CvModules \cup Targets \cup {"world"}
          \subseteq A \cup B \cup C \cup D \cup E \cup F \cup G \cup H
  BY DEF CvModules, BaseModules, ExtraModules, Targets
<1> HIDE DEF A, B, C, D, E, F, G, H
<1>3. IsFiniteSet(A \cup B \cup C \cup D)
  BY <1>1, FS_Union
<1>4. IsFiniteSet(E \cup F \cup G \cup H)
  BY <1>1, FS_Union
<1>5. IsFiniteSet((A \cup B \cup C \cup D) \cup (E \cup F \cup G \cup H))
  BY <1>3, <1>4, FS_Union
<1>6. (A \cup B \cup C \cup D) \cup (E \cup F \cup G \cup H)
          = A \cup B \cup C \cup D \cup E \cup F \cup G \cup H
  OBVIOUS
<1> QED
  BY <1>2, <1>5, <1>6, FS_Subset

(* The components can be ranked.                                           *)
Ranked ==
    pc = "described" =>
        /\ IsFiniteSet(DOMAIN components)
        /\ \E rank \in [DOMAIN components -> Nat] :
              \A c \in DOMAIN components :
                  \A o \in components[c] \cap DOMAIN components : rank[o] < rank[c]

LEMMA ComponentsAreRanked ==
    ASSUME CvTypeOK, Version \in Nat, UnusedIsGone, Validated, pc = "package_info"
    PROVE  /\ IsFiniteSet(DOMAIN Components)
           /\ \E rank \in [DOMAIN Components -> Nat] :
                 \A c \in DOMAIN Components :
                     \A o \in Components[c] \cap DOMAIN Components : rank[o] < rank[c]
<1>1. DOMAIN Components \subseteq CvModules \cup Targets \cup {"world"}
  BY DEF Components, Built
<1>2. IsFiniteSet(DOMAIN Components)
  BY <1>1, ModulesAreFinite, FS_Subset
<1> DEFINE rank == [c \in DOMAIN Components |-> Rank(c)]
<1>3. \A c \in DOMAIN Components : Rank(c) \in Nat
  BY LevelType DEF Rank
<1>4. rank \in [DOMAIN Components -> Nat]
  BY <1>3
<1>5. \A c \in DOMAIN Components :
         \A o \in Components[c] \cap DOMAIN Components : rank[o] < rank[c]
  BY ComponentsDescend
<1> HIDE DEF rank
<1> QED
  BY <1>2, <1>4, <1>5

LEMMA RankedIsAcyclic == Ranked => ComponentsAcyclic
<1> SUFFICES ASSUME Ranked, pc = "described"
             PROVE  Peeled[Cardinality(DOMAIN components)] = {}
  BY DEF ComponentsAcyclic
<1> DEFINE D == DOMAIN components
           N == Cardinality(D)
<1>1. IsFiniteSet(D) /\ N \in Nat
  BY FS_CardinalityType DEF Ranked
<1>2. PICK rank \in [D -> Nat] :
         \A c \in D : \A o \in components[c] \cap D : rank[o] < rank[c]
  BY DEF Ranked
<1>3. Peeled = [n \in 0..N |->
                   IF n = 0 THEN D
                   ELSE {c \in Peeled[n - 1] : components[c] \cap Peeled[n - 1] # {}}]
  <2>1. \E f : AreLayers(f, D, components, N)
    BY <1>1, LayersExist
  <2> QED
    BY <2>1 DEF Peeled, AreLayers
<1> DEFINE f == Peeled
<1> HIDE DEF f
<1>4. f = [n \in 0..N |->
              IF n = 0 THEN D
              ELSE {c \in f[n - 1] : components[c] \cap f[n - 1] # {}}]
  BY <1>3 DEF f
<1>5. f[0] = D /\ \A n \in 1..N : f[n] = {c \in f[n - 1] : components[c] \cap f[n - 1] # {}}
  <2>1. 0 \in 0..N /\ \A n \in 1..N : n \in 0..N /\ n # 0
    BY <1>1
  <2> HIDE DEF D, N
  <2>2. \A n \in 0..N : f[n] = IF n = 0 THEN D
                               ELSE {c \in f[n - 1] : components[c] \cap f[n - 1] # {}}
    BY <1>4
  <2> QED
    BY <2>1, <2>2
<1>6. f[N] = {}
  BY <1>1, <1>2, <1>5, RanksPeel
<1> QED
  BY <1>6 DEF f

LEMMA RankedStep ==
    ASSUME CvInv, UnusedIsGone, Validated, Ranked, [CvNext]_cvVars
    PROVE  Ranked'
<1>1. CASE PackageInfo
  <2>1. CvTypeOK /\ Version \in Nat
    BY DEF CvInv, CvTypeOK, Version
  <2>2. components' = Components /\ pc = "package_info"
    BY <1>1 DEF PackageInfo
  <2> QED
    BY <2>1, <2>2, ComponentsAreRanked DEF Ranked
<1>2. CASE \/ ConfigOptions \/ RefuseAnswers \/ ApplyAnswers
           \/ StartSolving \/ Follow \/ EnableRequired \/ RemoveUnused
           \/ BuildAll \/ DeclareRequirements \/ Validate
  <2>1. pc' # "described"
    BY <1>2 DEF ConfigOptions, RefuseAnswers, ApplyAnswers, StartSolving, Follow,
        EnableRequired, RemoveUnused, BuildAll, DeclareRequirements, Validate
  <2> QED
    BY <2>1 DEF Ranked
<1>3. CASE UNCHANGED cvVars
  BY <1>3 DEF cvVars, Ranked
<1> QED
  BY <1>1, <1>2, <1>3 DEF CvNext

(* For every request: no component requires itself, through whichever      *)
(* others, because the tables of package_info() only ever lead down.       *)
THEOREM ComponentsAcyclicAlways == CvSpec => []ComponentsAcyclic
<1>1. CvInit => UnusedIsGone /\ Validated /\ Ranked
  BY DEF CvInit, UnusedIsGone, Validated, Ranked
<1>2. CvInv => CvTypeOK
  BY DEF CvInv
<1> QED
  BY <1>1, <1>2, RankedIsAcyclic, UnusedIsGoneStep, ValidatedStep, RankedStep, CvInvHolds, PTL
  DEF CvSpec

-----------------------------------------------------------------------------
(* The search for mandatory options ends: what PackageIsSettled says apart *)
(* from the assumption that the recipe goes on.                            *)

(* The order of the methods and of the parts of configure(). *)
Stage(p) ==
    CASE p = "config_options" -> 0
      [] p = "apply" -> 1
      [] p = "configure" -> 2
      [] p = "solve" -> 3
      [] p = "remove" -> 4
      [] p = "build_all" -> 5
      [] p = "requirements" -> 6
      [] p = "validate" -> 7
      [] p = "package_info" -> 8
      [] OTHER -> 9

(* What the search has yet to find or to follow. *)
Unexplored == Cardinality(CvOptions \ required) + Cardinality(pending)

LEMMA OptionsAreFinite == IsFiniteSet(CvOptions)
<1> DEFINE A == ImageFormats
           B == {"with_1394", "with_aravis", "with_ffmpeg", "with_gphoto2",
                 "with_librealsense", "with_openni2", "with_va", "parallel",
                 "with_ipp", "with_armpl"}
           C == {"with_eigen", "with_lapack", "with_opencl", "with_cuda",
                 "with_cublas", "with_cufft", "with_itt", "with_protobuf",
                 "with_vulkan", "with_openvino"}
           D == {"dnn_cuda", "with_framebuffer", "with_gtk", "with_qt",
                 "with_wayland", "with_quirc", "with_gstreamer",
                 "with_tesseract", "with_clp", "shared"}
           E == {"world", "build_all_base", "build_all_contrib"}
<1>1. IsFiniteSet(A) /\ IsFiniteSet(B) /\ IsFiniteSet(C) /\ IsFiniteSet(D)
  BY TenAreFinite DEF ImageFormats
<1>2. IsFiniteSet(E)
  <2>1. E = {"world", "world", "world", "build_all_base", "build_all_contrib"}
    OBVIOUS
  <2> QED
    BY <2>1, FiveAreFinite
<1>3. CvOptions \subseteq (CvModules \cup Targets \cup {"world"}) \cup A \cup B \cup C \cup D \cup E
  BY DEF CvOptions, WithOptions, VideoSources
<1> HIDE DEF A, B, C, D, E
<1>4. IsFiniteSet((CvModules \cup Targets \cup {"world"}) \cup A \cup B \cup C \cup D \cup E)
  BY <1>1, <1>2, ModulesAreFinite, FS_Union
<1> QED
  BY <1>3, <1>4, FS_Subset

(* One of P is followed, and what is new in U joins both sets. *)
LEMMA FollowingExplores ==
    ASSUME NEW U, IsFiniteSet(U), NEW R \in SUBSET U, NEW P \in SUBSET U,
           NEW o \in P, NEW N \in SUBSET (U \ R)
    PROVE  Cardinality(U \ (R \cup N)) + Cardinality((P \ {o}) \cup N)
               < Cardinality(U \ R) + Cardinality(P)
<1>1. IsFiniteSet(U \ R) /\ IsFiniteSet(P) /\ IsFiniteSet(N) /\ IsFiniteSet(P \ {o})
  BY FS_Subset
<1>2. Cardinality(U \ (R \cup N)) = Cardinality(U \ R) - Cardinality(N)
  <2>1. U \ (R \cup N) = (U \ R) \ N /\ (U \ R) \cap N = N
    OBVIOUS
  <2> QED
    BY <1>1, <2>1, FS_Difference
<1>3. Cardinality(P \ {o}) = Cardinality(P) - 1
  BY <1>1, FS_RemoveElement
<1>4. /\ Cardinality((P \ {o}) \cup N)
            = Cardinality(P \ {o}) + Cardinality(N) - Cardinality((P \ {o}) \cap N)
      /\ IsFiniteSet((P \ {o}) \cap N)
  BY <1>1, FS_Union, FS_Intersection
<1>5. /\ Cardinality(U \ R) \in Nat /\ Cardinality(P) \in Nat /\ Cardinality(N) \in Nat
      /\ Cardinality((P \ {o}) \cap N) \in Nat
  BY <1>1, <1>4, FS_CardinalityType
<1> QED
  BY <1>2, <1>3, <1>4, <1>5

(* Every step leads on to the next part of the recipe, or leaves less to   *)
(* be explored, which is a number.                                         *)
CvAdvances ==
    \/ Stage(pc) < Stage(pc')
    \/ pc' = pc /\ Unexplored' < Unexplored

LEMMA UnexploredType == CvTypeOK => Unexplored \in Nat
<1> SUFFICES ASSUME CvTypeOK PROVE Unexplored \in Nat
  OBVIOUS
<1>1. IsFiniteSet(CvOptions \ required) /\ IsFiniteSet(pending)
  BY OptionsAreFinite, FS_Subset DEF CvTypeOK
<1> QED
  BY <1>1, FS_CardinalityType DEF Unexplored

LEMMA FollowAdvances ==
    ASSUME CvTypeOK, CvTypeOK', Follow
    PROVE  pc' = pc /\ Unexplored' < Unexplored
<1> DEFINE o == CHOOSE x \in pending : TRUE
           N == Mandatory(Version, o) \ required
<1>1. o \in pending /\ pc' = pc
  BY DEF Follow
<1>2. required' = required \cup N /\ pending' = (pending \ {o}) \cup N
  BY DEF Follow
<1> HIDE DEF o
<1>3. N \in SUBSET (CvOptions \ required)
  BY <1>2 DEF CvTypeOK
<1>4. required \in SUBSET CvOptions /\ pending \in SUBSET CvOptions
  BY DEF CvTypeOK
<1> HIDE DEF N
<1> QED
  BY <1>1, <1>2, <1>3, <1>4, OptionsAreFinite, FollowingExplores DEF Unexplored

(* For every request: no step of the recipe goes back, and the search      *)
(* lowers a number with each option it follows, however the tables refer   *)
(* to each other.                                                          *)
THEOREM SearchAdvances == CvSpec => [][CvAdvances /\ Unexplored \in Nat]_cvVars
<1>1. ASSUME CvInv, CvInv', CvNext
      PROVE  CvAdvances /\ Unexplored \in Nat
  <2>1. CvTypeOK /\ CvTypeOK' /\ Unexplored \in Nat
    BY <1>1, UnexploredType DEF CvInv
  <2>2. CASE Follow
    BY <2>1, <2>2, FollowAdvances DEF CvAdvances
  <2>3. CASE \/ ConfigOptions \/ RefuseAnswers \/ ApplyAnswers \/ StartSolving
             \/ EnableRequired \/ RemoveUnused \/ BuildAll
             \/ DeclareRequirements \/ Validate \/ PackageInfo
    <3>1. Stage(pc) < Stage(pc')
      BY <2>3
      DEF ConfigOptions, RefuseAnswers, ApplyAnswers, StartSolving, EnableRequired, RemoveUnused,
          BuildAll, DeclareRequirements, Validate, PackageInfo, Stage
    <3> QED
      BY <2>1, <3>1 DEF CvAdvances
  <2> QED
    BY <1>1, <2>2, <2>3 DEF CvNext
<1>2. CvInv /\ CvInv' /\ [CvNext]_cvVars => [CvAdvances /\ Unexplored \in Nat]_cvVars
  BY <1>1
<1> QED
  BY <1>2, CvInvHolds, PTL DEF CvSpec
=============================================================================
