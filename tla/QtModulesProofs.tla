--------------------------- MODULE QtModulesProofs ---------------------------
(***************************************************************************)
(* Proofs about QtModules, for every module file and every user: the       *)
(* user's answers are kept; the Qt for the tools has all modules with      *)
(* tools; it is refused only over a dependency that the host has not got   *)
(* either - which a request that leaves no such dependency out excludes -  *)
(* and found invalid only over egl; and package_info() misses a component  *)
(* only where the file does not list its module.                           *)
(***************************************************************************)
EXTENDS QtModules, TLAPS

(* The options of the host context before and after configure(). *)
HostOptions ==
    /\ stage["host"] # "absent"
    /\ ~Configured("host") => options["host"] = [m \in Modules |-> Default(user, m)]

(* The tools are not asked for before the host context is configured, and  *)
(* then for what it builds.                                                *)
ToolsAsked ==
    /\ stage["build"] # "absent" => Configured("host")
    /\ stage["build"] \in {"loaded", "refused"} =>
          options["build"] = [m \in Modules |-> ToolOption(m)]

QtInv ==
    /\ TypeOK
    /\ HostOptions
    /\ ToolsAsked
    /\ AnswersAreKept
    /\ RefusedOnlyByGap
    /\ ToolsAreBuilt

(* The modules that the user asks for, one by one or by their status, and  *)
(* those that they list.                                                   *)
Asked ==
    {m \in Modules :
        \/ Default(user, m) = "on"
        \/ Default(user, m) # "off" /\ Status[m] \in user.statuses}
Listed == UNION {Depends[m] : m \in Asked}

(* The request leaves nothing out that a listed module depends on.         *)
RequestIsClosed == \A d \in Listed : Depends[d] \subseteq Asked \cup Listed

(* What is built is closed under the dependencies. *)
HostClosed ==
    Configured("host") => \A m \in Built("host") : Depends[m] \subseteq Built("host")
-----------------------------------------------------------------------------
(* The options that a user's answers and config_options() leave. *)
LEMMA DefaultType ==
    ASSUME NEW u \in Users, NEW m \in Modules
    PROVE  /\ Default(u, m) \in {"auto", "on", "off"}
           /\ u.options[m] # "auto" => Default(u, m) = u.options[m]
<1> QED
  BY QtAssumption DEF Default

LEMMA InitQt == Init => QtInv
<1> SUFFICES ASSUME Init PROVE QtInv
  OBVIOUS
<1> USE DEF Init
<1>1. options["host"] = [m \in Modules |-> Default(user, m)]
  BY DEF Contexts
<1>2. stage["host"] = "loaded" /\ stage["build"] = "absent"
  BY DEF Contexts
<1>3. TypeOK
  <2>1. options \in [Contexts -> [Modules -> {"auto", "on", "off"}]]
    BY DefaultType
  <2>2. features \in [Contexts -> SUBSET Features]
    BY QtAssumption
  <2>3. stage \in [Contexts -> {"absent", "loaded", "configured", "refused",
                                "valid", "invalid", "described", "asserted"}]
    OBVIOUS
  <2> QED
    BY <2>1, <2>2, <2>3 DEF TypeOK
<1> QED
  BY <1>1, <1>2, <1>3
  DEF QtInv, HostOptions, ToolsAsked, AnswersAreKept, RefusedOnlyByGap, ToolsAreBuilt, Configured
-----------------------------------------------------------------------------
(* configure() in one context: the modules that are built from then on.    *)
LEMMA ConfigureBuilds ==
    ASSUME TypeOK, NEW c \in Contexts, Configure(c)
    PROVE  /\ Built(c)' = Enabled(c)
           /\ stage'[c] = "configured" /\ Configured(c)'
           /\ Required(c) \cap Value(c, "off") = {}
           /\ \A d \in Contexts \ {c} :
                 /\ options'[d] = options[d] /\ features'[d] = features[d]
                 /\ stage'[d] = stage[d]
<1>1. Enabled(c) \subseteq Modules
  BY QtAssumption DEF Enabled, Requested, Required, Value
<1>2. options'[c] = [m \in Modules |-> IF m \in Enabled(c) THEN "on" ELSE "off"]
  BY DEF Configure, TypeOK
<1>3. Built(c)' = {m \in Modules : options'[c][m] = "on"}
  BY DEF Built, Value
<1>4. Built(c)' = Enabled(c)
  BY <1>1, <1>2, <1>3
<1>5. stage'[c] = "configured"
  BY DEF Configure, TypeOK
<1> QED
  BY <1>4, <1>5 DEF Configure, TypeOK, Configured, Refused, RequiredButDisabled

(* The steps that only move a context on. *)
LEMMA OtherContext ==
    ASSUME options' = options, features' = features, user' = user
    PROVE  /\ \A c \in Contexts : Built(c)' = Built(c)
           /\ \A m \in Modules : ToolOption(m)' = ToolOption(m)
           /\ \A m \in Modules : Default(user, m)' = Default(user, m)
<1> QED
  BY DEF Built, Value, ToolOption, Default

LEMMA StepType == TypeOK /\ [Next]_vars => TypeOK'
<1> SUFFICES ASSUME TypeOK, [Next]_vars PROVE TypeOK'
  OBVIOUS
<1>1. ASSUME NEW c \in Contexts, Configure(c) PROVE TypeOK'
  BY <1>1 DEF TypeOK, Configure
<1>2. ASSUME NEW c \in Contexts, ConfigureRaises(c) PROVE TypeOK'
  BY <1>2 DEF TypeOK, ConfigureRaises
<1>3. ASSUME NEW c \in Contexts, Validate(c) PROVE TypeOK'
  BY <1>3 DEF TypeOK, Validate
<1>4. ASSUME NEW c \in Contexts, PackageInfo(c) PROVE TypeOK'
  BY <1>4 DEF TypeOK, PackageInfo
<1>5. ASSUME BuildRequirements PROVE TypeOK'
  <2>1. \A m \in Modules : ToolOption(m) \in {"auto", "on", "off"}
    BY DEF ToolOption
  <2>2. ToolFeatures \in SUBSET Features
    BY DEF ToolFeatures, TypeOK, Features
  <2>3. options' \in [Contexts -> [Modules -> {"auto", "on", "off"}]]
    BY <1>5, <2>1 DEF TypeOK, BuildRequirements
  <2>4. features' \in [Contexts -> SUBSET Features]
    BY <1>5, <2>2 DEF TypeOK, BuildRequirements
  <2> QED
    BY <1>5, <2>3, <2>4 DEF TypeOK, BuildRequirements
<1>6. CASE UNCHANGED vars
  BY <1>6 DEF TypeOK, vars
<1> QED
  BY <1>1, <1>2, <1>3, <1>4, <1>5, <1>6 DEF Next
-----------------------------------------------------------------------------
(* The modules that the Qt for the tools is asked for, when it is not yet  *)
(* configured: modules with tools that the host builds.                    *)
LEMMA AskedOfTools ==
    ASSUME TypeOK, NEW m \in Modules,
           options["build"] = [n \in Modules |-> ToolOption(n)]
    PROVE  /\ m \in Requested("build") <=>
                 /\ m \in Tools /\ m \in Built("host")
                 /\ m = "qtconnectivity" => "bluez" \in features["host"]
           /\ m \in Value("build", "off") <=> m \in Tools /\ m \notin Requested("build")
<1>1. options["build"][m] = ToolOption(m)
  OBVIOUS
<1>2. Statuses("build") = {}
  BY DEF Statuses
<1>3. m \in Requested("build") <=> options["build"][m] = "on"
  BY <1>2 DEF Requested, Value
<1> QED
  BY <1>1, <1>3 DEF ToolOption, Value

LEMMA ConfigureHost ==
    ASSUME QtInv, Configure("host")
    PROVE  QtInv'
<1>1. TypeOK'
  BY StepType DEF QtInv, Next, Contexts
<1>2. ~Configured("host") /\ stage["host"] = "loaded"
  BY DEF Configure, Configured
<1>3. stage["build"] = "absent"
  BY <1>2 DEF QtInv, ToolsAsked
<1>4. /\ Built("host")' = Enabled("host")
      /\ stage'["host"] = "configured" /\ Configured("host")'
      /\ Required("host") \cap Value("host", "off") = {}
      /\ stage'["build"] = "absent"
  BY <1>3, ConfigureBuilds DEF QtInv, Contexts
<1>5. HostOptions'
  BY <1>4 DEF HostOptions
<1>6. ToolsAsked'
  BY <1>4 DEF ToolsAsked
<1>7. AnswersAreKept'
  <2>1. \A m \in Modules : options["host"][m] = Default(user, m)
    BY <1>2 DEF QtInv, HostOptions
  <2> SUFFICES ASSUME NEW m \in Modules
               PROVE  /\ user.options[m] = "on" =>
                            m \in Enabled("host") /\ Depends[m] \subseteq Enabled("host")
                      /\ user.options[m] = "off" => m \notin Enabled("host")
    BY <1>4 DEF AnswersAreKept, Configure
  <2>2. ASSUME user.options[m] = "on"
        PROVE  m \in Enabled("host") /\ Depends[m] \subseteq Enabled("host")
    <3>1. options["host"][m] = "on"
      BY <2>1, <2>2, DefaultType DEF QtInv, TypeOK
    <3>2. m \in Requested("host")
      BY <3>1 DEF Requested, Value
    <3> QED
      BY <3>2 DEF Enabled, Required
  <2>3. ASSUME user.options[m] = "off" PROVE m \notin Enabled("host")
    <3>1. m \in Value("host", "off")
      BY <2>1, <2>3, DefaultType DEF QtInv, TypeOK, Value
    <3> QED
      BY <3>1, <1>4 DEF Enabled, Requested
  <2> QED
    BY <2>2, <2>3
<1>8. RefusedOnlyByGap' /\ ToolsAreBuilt'
  BY <1>4 DEF RefusedOnlyByGap, ToolsAreBuilt, Configured
<1> QED
  BY <1>1, <1>5, <1>6, <1>7, <1>8 DEF QtInv

LEMMA ConfigureTools ==
    ASSUME QtInv, Configure("build")
    PROVE  QtInv'
<1>1. TypeOK'
  BY StepType DEF QtInv, Next, Contexts
<1>2. /\ Built("build")' = Enabled("build")
      /\ stage'["build"] = "configured"
      /\ Required("build") \cap Value("build", "off") = {}
      /\ options'["host"] = options["host"] /\ features'["host"] = features["host"]
      /\ stage'["host"] = stage["host"] /\ user' = user
  BY ConfigureBuilds DEF QtInv, Contexts, Configure
<1>3. stage["build"] = "loaded"
  BY DEF Configure
<1>4. Built("host")' = Built("host") /\ Configured("host")' = Configured("host")
  BY <1>2 DEF Built, Value, Configured
<1>5. HostOptions'
  BY <1>2, <1>4 DEF QtInv, HostOptions, Default
<1>6. ToolsAsked'
  BY <1>2, <1>3, <1>4 DEF QtInv, ToolsAsked
<1>7. AnswersAreKept'
  BY <1>2, <1>4 DEF QtInv, AnswersAreKept
<1>8. ToolsAreBuilt'
  <2>1. options["build"] = [m \in Modules |-> ToolOption(m)]
    BY <1>3 DEF QtInv, ToolsAsked
  <2> SUFFICES ASSUME NEW m \in Tools \cap Modules
               PROVE  m \in Enabled("build") <=>
                          m \in Built("host")
                          /\ (m = "qtconnectivity" => "bluez" \in features["host"])
    BY <1>2, <1>4 DEF ToolsAreBuilt
  <2>2. m \in Enabled("build") <=> m \in Requested("build")
    BY <1>2, <2>1, AskedOfTools DEF QtInv, Enabled
  <2> QED
    BY <2>1, <2>2, AskedOfTools DEF QtInv
<1>9. RefusedOnlyByGap'
  BY <1>2 DEF RefusedOnlyByGap
<1> QED
  BY <1>1, <1>5, <1>6, <1>7, <1>8, <1>9 DEF QtInv

(* A step that changes no option and no feature, and takes no context in   *)
(* or out of the configured ones.                                          *)
LEMMA StageOnly ==
    ASSUME QtInv, TypeOK', user' = user, options' = options, features' = features,
           \A c \in Contexts :
              /\ Configured(c)' = Configured(c)
              /\ stage'[c] \in {"absent", "loaded"} <=> stage[c] \in {"absent", "loaded"}
              /\ stage'[c] = "absent" <=> stage[c] = "absent"
              /\ stage'[c] = "refused" <=> stage[c] = "refused"
    PROVE  QtInv'
<1>1. "host" \in Contexts /\ "build" \in Contexts
  BY DEF Contexts
<1>2. /\ Built("host")' = Built("host") /\ Built("build")' = Built("build")
      /\ \A m \in Modules : ToolOption(m)' = ToolOption(m)
      /\ \A m \in Modules : Default(user, m)' = Default(user, m)
  BY <1>1, OtherContext
<1>3. HostOptions'
  BY <1>1, <1>2 DEF QtInv, HostOptions
<1>4. ToolsAsked'
  BY <1>1, <1>2 DEF QtInv, ToolsAsked, Configured
<1>5. AnswersAreKept' /\ ToolsAreBuilt'
  BY <1>1, <1>2 DEF QtInv, AnswersAreKept, ToolsAreBuilt
<1>6. RefusedOnlyByGap'
  BY <1>1, <1>2 DEF QtInv, RefusedOnlyByGap
<1> QED
  BY <1>3, <1>4, <1>5, <1>6 DEF QtInv

LEMMA HostRefused ==
    ASSUME QtInv, ConfigureRaises("host")
    PROVE  QtInv'
<1>1. TypeOK'
  BY StepType DEF QtInv, Next, Contexts
<1>2. stage["host"] = "loaded" /\ stage'["host"] = "refused"
  BY DEF ConfigureRaises, QtInv, TypeOK, Contexts
<1>3. stage["build"] = "absent" /\ stage'["build"] = "absent"
  BY <1>2 DEF ConfigureRaises, QtInv, TypeOK, ToolsAsked, Configured, Contexts
<1>4. options'["host"] = [m \in Modules |-> Default(user, m)'] 
  BY <1>2 DEF ConfigureRaises, QtInv, HostOptions, Configured, Default
<1> QED
  BY <1>1, <1>2, <1>3, <1>4
  DEF QtInv, HostOptions, ToolsAsked, AnswersAreKept, RefusedOnlyByGap, ToolsAreBuilt, Configured

(* The tools are refused: some dependency of a module with tools is        *)
(* disabled, and so is not built by the host.                              *)
LEMMA ToolsRefused ==
    ASSUME QtInv, ConfigureRaises("build")
    PROVE  QtInv'
<1>1. TypeOK'
  BY StepType DEF QtInv, Next, Contexts
<1>2. /\ stage["build"] = "loaded" /\ stage'["build"] = "refused"
      /\ stage'["host"] = stage["host"]
      /\ options' = options /\ features' = features /\ user' = user
  BY DEF ConfigureRaises, QtInv, TypeOK, Contexts
<1>3. options["build"] = [m \in Modules |-> ToolOption(m)]
  BY <1>2 DEF QtInv, ToolsAsked
<1>4. /\ Built("host")' = Built("host") /\ Built("build")' = Built("build")
      /\ \A m \in Modules : ToolOption(m)' = ToolOption(m)
      /\ \A m \in Modules : Default(user, m)' = Default(user, m)
  BY <1>2, OtherContext DEF Contexts
<1>5. \E m \in Built("host") \cap Tools : \E d \in Depends[m] : d \notin Built("host")
  <2>1. "qtwebengine" \notin Enabled("build")
    BY <1>3, AskedOfTools, QtAssumption DEF QtInv, Enabled, Required, Requested, Tools, Value
  <2>2. PICK d \in RequiredButDisabled("build") : TRUE
    BY <2>1 DEF ConfigureRaises, Refused, FontconfigRemoved
  <2>3. PICK m \in Requested("build") : d \in Depends[m]
    BY <2>2 DEF RequiredButDisabled, Required
  <2>4. m \in Modules /\ d \in Modules /\ d # "qtconnectivity"
    BY <2>3, QtAssumption DEF Requested, Value
  <2>5. d \in Tools /\ d \notin Requested("build")
    BY <1>3, <2>2, <2>4, AskedOfTools DEF QtInv, RequiredButDisabled
  <2>6. d \notin Built("host")
    BY <1>3, <2>4, <2>5, AskedOfTools DEF QtInv
  <2>7. m \in Built("host") \cap Tools
    BY <1>3, <2>3, <2>4, AskedOfTools DEF QtInv
  <2> QED
    BY <2>3, <2>6, <2>7
<1>6. RefusedOnlyByGap'
  BY <1>4, <1>5 DEF RefusedOnlyByGap
<1>7. Configured("host")' = Configured("host") /\ ~Configured("build")'
  BY <1>2 DEF Configured
<1>8. HostOptions'
  BY <1>2, <1>4, <1>7 DEF QtInv, HostOptions
<1>9. ToolsAsked'
  BY <1>2, <1>3, <1>4, <1>7 DEF QtInv, ToolsAsked
<1>10. AnswersAreKept' /\ ToolsAreBuilt'
  BY <1>2, <1>4, <1>7 DEF QtInv, AnswersAreKept, ToolsAreBuilt
<1> QED
  BY <1>1, <1>6, <1>8, <1>9, <1>10 DEF QtInv

LEMMA AskForTools ==
    ASSUME QtInv, BuildRequirements
    PROVE  QtInv'
<1>1. TypeOK'
  BY StepType DEF QtInv, Next
<1>2. /\ stage["host"] = "configured" /\ stage'["host"] = "configured"
      /\ stage'["build"] = "loaded" /\ user' = user
      /\ options'["host"] = options["host"] /\ features'["host"] = features["host"]
      /\ options'["build"] = [m \in Modules |-> ToolOption(m)]
  BY DEF BuildRequirements, QtInv, TypeOK, Contexts
<1>3. Built("host")' = Built("host")
  BY <1>2 DEF Built, Value
<1>4. \A m \in Modules : ToolOption(m)' = ToolOption(m)
  BY <1>2, <1>3 DEF ToolOption
<1>5. HostOptions' /\ ToolsAsked'
  BY <1>2, <1>4 DEF HostOptions, ToolsAsked, Configured
<1>6. AnswersAreKept'
  BY <1>2, <1>3 DEF QtInv, AnswersAreKept, Configured
<1>7. RefusedOnlyByGap' /\ ToolsAreBuilt'
  BY <1>2 DEF RefusedOnlyByGap, ToolsAreBuilt, Configured
<1> QED
  BY <1>1, <1>5, <1>6, <1>7 DEF QtInv

(* Every step keeps the invariant. *)
LEMMA StepQt == QtInv /\ [Next]_vars => QtInv'
<1> SUFFICES ASSUME QtInv, [Next]_vars PROVE QtInv'
  OBVIOUS
<1>1. TypeOK'
  BY StepType DEF QtInv
<1>2. ASSUME NEW c \in Contexts, Configure(c) PROVE QtInv'
  BY <1>2, ConfigureHost, ConfigureTools DEF Contexts
<1>3. ASSUME NEW c \in Contexts, ConfigureRaises(c) PROVE QtInv'
  BY <1>3, HostRefused, ToolsRefused DEF Contexts
<1>4. ASSUME NEW c \in Contexts, Validate(c) PROVE QtInv'
  <2>1. stage[c] = "configured" /\ stage'[c] \in {"invalid", "valid"}
    BY <1>4 DEF Validate, QtInv, TypeOK
  <2>2. \A d \in Contexts \ {c} : stage'[d] = stage[d]
    BY <1>4 DEF Validate, QtInv, TypeOK
  <2> QED
    BY <1>1, <1>4, <2>1, <2>2, StageOnly DEF Validate, Configured
<1>5. ASSUME NEW c \in Contexts, PackageInfo(c) PROVE QtInv'
  <2>1. stage[c] = "valid" /\ stage'[c] \in {"described", "asserted"}
    BY <1>5 DEF PackageInfo, QtInv, TypeOK
  <2>2. \A d \in Contexts \ {c} : stage'[d] = stage[d]
    BY <1>5 DEF PackageInfo, QtInv, TypeOK
  <2> QED
    BY <1>1, <1>5, <2>1, <2>2, StageOnly DEF PackageInfo, Configured
<1>6. ASSUME BuildRequirements PROVE QtInv'
  BY <1>6, AskForTools
<1>7. CASE UNCHANGED vars
  BY <1>1, <1>7, StageOnly DEF vars, Configured
<1> QED
  BY <1>2, <1>3, <1>4, <1>5, <1>6, <1>7 DEF Next

THEOREM QtInvariance == Spec => []QtInv
<1> QED
  BY InitQt, StepQt, PTL DEF Spec

(* The types hold for every module file and every user. *)
THEOREM QtTypeCorrect == Spec => []TypeOK
<1> QED
  BY QtInvariance, PTL DEF QtInv

(* Every user's answers about modules are kept by _enabled_modules, and a  *)
(* module that is asked for comes with what it lists.                      *)
THEOREM UsersDecide == Spec => []AnswersAreKept
<1> QED
  BY QtInvariance, PTL DEF QtInv

(* The options that build_requirements() hands on make a Qt with the tools *)
(* of all modules that are built, and a cross build fails over them only   *)
(* where the host lacks an indirect dependency.                            *)
THEOREM ToolsFollowAlways == Spec => []ToolsFollowModules
<1>1. QtInv => ToolsFollowModules
  BY DEF QtInv, ToolsFollowModules
<1> QED
  BY <1>1, QtInvariance, PTL
-----------------------------------------------------------------------------
LEMMA ClosedInit == Init => HostClosed
<1> QED
  BY DEF Init, HostClosed, Configured, Contexts

LEMMA ClosedStep ==
    QtInv /\ (RequestIsClosed => HostClosed) /\ [Next]_vars
    => (RequestIsClosed => HostClosed)'
<1> SUFFICES ASSUME QtInv, RequestIsClosed => HostClosed, [Next]_vars,
                    RequestIsClosed'
             PROVE  HostClosed'
  OBVIOUS
<1>a. user' = user
  BY DEF Next, Configure, ConfigureRaises, BuildRequirements, Validate, PackageInfo, vars
<1>b. RequestIsClosed /\ HostClosed
  BY <1>a DEF RequestIsClosed, Listed, Asked, Default
<1>1. ASSUME Configure("host") PROVE HostClosed'
  <2>1. Built("host")' = Enabled("host")
    BY <1>1, ConfigureBuilds DEF QtInv, Contexts
  <2> SUFFICES ASSUME NEW m \in Enabled("host")
               PROVE  Depends[m] \subseteq Enabled("host")
    BY <2>1 DEF HostClosed
  <2>2. Requested("host") = Asked
    <3>1. options["host"] = [n \in Modules |-> Default(user, n)]
      BY <1>1 DEF Configure, Configured, QtInv, HostOptions
    <3>2. \A n \in Modules : options["host"][n] = Default(user, n)
      BY <3>1
    <3> QED
      BY <3>2 DEF Requested, Asked, Statuses, Value
  <2>3. Required("host") = Listed
    BY <2>2 DEF Required, Listed
  <2>4. Depends[m] \subseteq Asked \cup Listed
    BY <1>b, <2>2, <2>3 DEF Enabled, RequestIsClosed, Listed
  <2> QED
    BY <2>2, <2>3, <2>4 DEF Enabled
<1>2. ASSUME options'["host"] = options["host"], Configured("host")' => Configured("host")
      PROVE  HostClosed'
  BY <1>b, <1>2 DEF HostClosed, Built, Value
<1>3. ASSUME Configure("build") PROVE HostClosed'
  BY <1>2, <1>3, ConfigureBuilds DEF QtInv, Contexts, Configured
<1>4. ASSUME NEW c \in Contexts, ConfigureRaises(c) PROVE HostClosed'
  BY <1>2, <1>4 DEF ConfigureRaises, QtInv, TypeOK, Configured
<1>5. ASSUME NEW c \in Contexts, Validate(c) PROVE HostClosed'
  BY <1>2, <1>5 DEF Validate, QtInv, TypeOK, Configured
<1>6. ASSUME NEW c \in Contexts, PackageInfo(c) PROVE HostClosed'
  BY <1>2, <1>6 DEF PackageInfo, QtInv, TypeOK, Configured
<1>7. ASSUME BuildRequirements PROVE HostClosed'
  BY <1>2, <1>7 DEF BuildRequirements, QtInv, TypeOK, Configured, Contexts
<1>8. CASE UNCHANGED vars
  BY <1>2, <1>8 DEF vars, Configured
<1> QED
  BY <1>1, <1>3, <1>4, <1>5, <1>6, <1>7, <1>8 DEF Next, Contexts

(* No cross build is refused over the modules of its tools if what the     *)
(* user asks for, with what it lists, is complete, whatever the file says  *)
(* of other modules.                                                       *)
THEOREM ClosedRequestIsNeverRefused ==
    Spec => [](RequestIsClosed => stage["build"] # "refused")
<1> DEFINE Closed == RequestIsClosed => HostClosed
<1>1. QtInv /\ Closed => (RequestIsClosed => stage["build"] # "refused")
  BY DEF QtInv, RefusedOnlyByGap, ToolsAsked, HostClosed
<1>2. Init => QtInv /\ Closed
  BY InitQt, ClosedInit
<1>3. QtInv /\ Closed /\ [Next]_vars => QtInv' /\ Closed'
  BY StepQt, ClosedStep
<1> HIDE DEF Closed
<1> QED
  BY <1>1, <1>2, <1>3, PTL DEF Spec
-----------------------------------------------------------------------------
(* What validate() has found of the host, and what it may yet find of the  *)
(* Qt for the tools: of gui, widgets, bluez and dynamic OpenGL that one    *)
(* has what ToolFeatures says, and it builds no module but those with      *)
(* tools and what they list.                                               *)
Judged == {"gui", "widgets", "bluez", "dynamic"}

ToolsInv ==
    /\ stage["host"] \in {"valid", "described", "asserted"} => ~Invalid("host")
    /\ stage["build"] = "invalid" => Invalid("build")
    /\ stage["build"] # "absent" =>
          features["build"] \cap Judged = ToolFeatures \cap Judged
    /\ Configured("build") =>
          \A g \in Built("build") : \E t \in Tools \cap Built("host") :
              g = t \/ g \in Depends[t]

LEMMA InitTools == Init => ToolsInv
BY DEF Init, ToolsInv, Configured, Contexts

(* Nothing that validate() looks at has changed. *)
LEMMA SameVerdict ==
    ASSUME NEW c \in Contexts, user' = user, options'[c] = options[c],
           features'[c] = features[c]
    PROVE  Invalid(c)' <=> Invalid(c)
BY DEF Invalid, Built, Value, System

LEMMA SameTools ==
    ASSUME user' = user, options'["host"] = options["host"],
           features'["host"] = features["host"]
    PROVE  ToolFeatures' = ToolFeatures /\ Built("host")' = Built("host")
BY DEF ToolFeatures, Built, Value

(* configure() takes none of these options from the Qt for the tools, and  *)
(* adds what the modules with tools list.                                  *)
LEMMA ConfigureToolsKeeps ==
    ASSUME QtInv, ToolsInv, Configure("build")
    PROVE  ToolsInv'
<1>1. /\ Built("build")' = Enabled("build")
      /\ stage'["build"] = "configured" /\ stage'["host"] = stage["host"]
      /\ options'["host"] = options["host"] /\ features'["host"] = features["host"]
      /\ user' = user
  BY ConfigureBuilds DEF QtInv, Contexts, Configure
<1>2. stage["build"] = "loaded" /\ "host" \in Contexts /\ "build" \in Contexts
  BY DEF Configure, Contexts
<1>3. /\ ToolFeatures' = ToolFeatures /\ Built("host")' = Built("host")
      /\ Invalid("host")' <=> Invalid("host")
  BY <1>1, <1>2, SameTools, SameVerdict
<1>4. features'["build"] \cap Judged = features["build"] \cap Judged
  <2>1. features'["build"] = IF "gui" \in features["build"] THEN features["build"]
                             ELSE features["build"] \ {"opengl", "dynamic", "egl"}
    BY <1>2 DEF Configure, QtInv, TypeOK
  <2>2. "dynamic" \notin features["build"]
    BY <1>2 DEF ToolsInv, Judged, ToolFeatures
  <2> QED
    BY <2>1, <2>2 DEF Judged
<1>5. features'["build"] \cap Judged = ToolFeatures' \cap Judged
  BY <1>2, <1>3, <1>4 DEF ToolsInv
<1>6. ASSUME NEW g \in Enabled("build")
      PROVE  \E t \in Tools \cap Built("host") : g = t \/ g \in Depends[t]
  <2>1. options["build"] = [m \in Modules |-> ToolOption(m)]
    BY <1>2 DEF QtInv, ToolsAsked
  <2>2. \A t \in Requested("build") : t \in Tools \cap Built("host")
    <3>1. \A t \in Requested("build") : t \in Modules
      BY DEF Requested, Value
    <3> QED
      BY <2>1, <3>1, AskedOfTools DEF QtInv
  <2> QED
    BY <2>2 DEF Enabled, Required
<1>7. Configured("build")' => \A g \in Built("build")' :
          \E t \in Tools \cap Built("host")' : g = t \/ g \in Depends[t]
  BY <1>1, <1>3, <1>6
<1> QED
  BY <1>1, <1>3, <1>5, <1>7 DEF ToolsInv

LEMMA StepTools == QtInv /\ ToolsInv /\ [Next]_vars => ToolsInv'
<1> SUFFICES ASSUME QtInv, ToolsInv, [Next]_vars PROVE ToolsInv'
  OBVIOUS
<1>a. "host" \in Contexts /\ "build" \in Contexts /\ TypeOK
  BY DEF Contexts, QtInv
<1>1. ASSUME Configure("host") PROVE ToolsInv'
  <2>1. stage["build"] = "absent" /\ stage'["build"] = "absent" /\ stage'["host"] = "configured"
    <3>1. stage["host"] = "loaded"
      BY <1>1 DEF Configure
    <3>2. stage["build"] = "absent"
      BY <3>1 DEF QtInv, ToolsAsked, Configured
    <3> QED
      BY <1>1, <1>a, <3>2, ConfigureBuilds DEF Contexts
  <2> QED
    BY <2>1 DEF ToolsInv, Configured
<1>2. ASSUME Configure("build") PROVE ToolsInv'
  BY <1>2, ConfigureToolsKeeps
<1>3. ASSUME BuildRequirements PROVE ToolsInv'
  <2>1. /\ stage["host"] = "configured" /\ stage'["host"] = "configured"
        /\ stage'["build"] = "loaded" /\ user' = user
        /\ options'["host"] = options["host"] /\ features'["host"] = features["host"]
        /\ features'["build"] = ToolFeatures
    BY <1>3, <1>a DEF BuildRequirements, TypeOK, Contexts
  <2>2. ToolFeatures' = ToolFeatures
    BY <2>1, SameTools
  <2> QED
    BY <2>1, <2>2 DEF ToolsInv, Configured
<1>b. ASSUME user' = user, options' = options, features' = features
      PROVE  /\ ToolFeatures' = ToolFeatures
             /\ Invalid("host")' <=> Invalid("host")
             /\ Invalid("build")' <=> Invalid("build")
             /\ \A c \in Contexts : Built(c)' = Built(c)
  BY <1>a, <1>b, SameTools, SameVerdict, OtherContext
<1>c. ASSUME user' = user, options' = options, features' = features,
             \A d \in Contexts :
                /\ stage'[d] \in {"valid", "described", "asserted"} =>
                      stage[d] \in {"valid", "described", "asserted"} \/ ~Invalid(d)
                /\ stage'[d] = "invalid" => stage[d] = "invalid" \/ Invalid(d)
                /\ stage'[d] # "absent" => stage[d] # "absent"
                /\ Configured(d)' => Configured(d)
      PROVE  ToolsInv'
  BY <1>a, <1>b, <1>c DEF ToolsInv
<1>4. ASSUME NEW c \in Contexts, ConfigureRaises(c) PROVE ToolsInv'
  <2>1. stage[c] = "loaded" /\ \A d \in Contexts : stage'[d] = IF d = c THEN "refused" ELSE stage[d]
    BY <1>4, <1>a DEF ConfigureRaises, TypeOK
  <2>2. user' = user /\ options' = options /\ features' = features
    BY <1>4 DEF ConfigureRaises
  <2> QED
    BY <1>c, <2>1, <2>2 DEF Configured
<1>5. ASSUME NEW c \in Contexts, Validate(c) PROVE ToolsInv'
  <2>1. /\ stage[c] = "configured"
        /\ \A d \in Contexts : stage'[d] = IF d = c THEN IF Invalid(c) THEN "invalid" ELSE "valid"
                                           ELSE stage[d]
    <3> HIDE DEF Invalid
    <3> QED
      BY <1>5, <1>a DEF Validate, TypeOK
  <2>2. user' = user /\ options' = options /\ features' = features
    BY <1>5 DEF Validate
  <2> QED
    BY <1>c, <2>1, <2>2 DEF Configured
<1>6. ASSUME NEW c \in Contexts, PackageInfo(c) PROVE ToolsInv'
  <2>1. /\ stage[c] = "valid" /\ stage'[c] \in {"described", "asserted"}
        /\ \A d \in Contexts \ {c} : stage'[d] = stage[d]
    BY <1>6, <1>a DEF PackageInfo, TypeOK
  <2>2. user' = user /\ options' = options /\ features' = features
    BY <1>6 DEF PackageInfo
  <2> QED
    BY <1>c, <2>1, <2>2 DEF Configured
<1>7. CASE UNCHANGED vars
  BY <1>c, <1>7 DEF vars, Configured
<1> QED
  BY <1>1, <1>2, <1>3, <1>4, <1>5, <1>6, <1>7 DEF Next, Contexts

(* A valid host leaves validate() nothing to say of the tools but that     *)
(* qtwayland is there without egl.                                         *)
LEMMA ToolsAreValid ==
    ASSUME ToolsListNoGui, QtInv, ToolsInv, Configured("build"), Invalid("build"),
           ~Invalid("host")
    PROVE  Minor >= 10 /\ "qtwayland" \in Built("build")
<1>1. stage["build"] # "absent" /\ features["build"] \cap Judged = ToolFeatures \cap Judged
  BY DEF ToolsInv, Configured
<1>2. {"bluez", "dynamic"} \cap features["build"] = {} /\ System("build") = "Linux"
  BY <1>1 DEF Judged, ToolFeatures, System
<1>3. "qtwebengine" \notin Built("build")
  <2>1. \A t \in Tools \cap Built("host") : t \in Modules /\ t # "qtwebengine"
    BY DEF Built, Value, Tools
  <2> QED
    BY <2>1, QtAssumption DEF ToolsInv
<1>4. Built("host") \cap GuiTools # {} =>
         ("gui" \in features["build"] <=> "gui" \in features["host"])
  BY <1>1 DEF Judged, ToolFeatures
<1>5. ~("widgets" \in features["build"] /\ "gui" \notin features["build"])
  <2> SUFFICES ASSUME "widgets" \in features["build"], "gui" \notin features["build"]
               PROVE  FALSE
    OBVIOUS
  <2>1. Built("host") \cap GuiTools # {} /\ "widgets" \in features["host"]
    BY <1>1 DEF Judged, ToolFeatures
  <2> QED
    BY <1>4, <2>1 DEF Invalid
<1>6. ~("gui" \notin features["build"] /\ Built("build") \cap GuiModules # {})
  <2> SUFFICES ASSUME "gui" \notin features["build"], NEW g \in Built("build") \cap GuiModules
               PROVE  FALSE
    OBVIOUS
  <2>1. Tools \cap GuiModules = GuiTools /\ GuiTools \subseteq Tools
    BY DEF Tools, GuiModules, GuiTools
  <2>2. PICK t \in Tools \cap Built("host") : g = t \/ g \in Depends[t]
    BY DEF ToolsInv
  <2>3. t \in Modules /\ g \in Modules
    BY DEF Built, Value
  <2>4. t \notin GuiTools => g \in Tools
    BY <2>2, <2>3 DEF ToolsListNoGui
  <2>5. g \in Tools => g \in Built("host")
    BY <2>3 DEF QtInv, ToolsAreBuilt
  <2>6. PICK x \in Built("host") : x \in GuiTools
    BY <2>1, <2>2, <2>4, <2>5
  <2>7. "gui" \notin features["host"]
    BY <1>4, <2>6
  <2> QED
    BY <2>1, <2>6, <2>7 DEF Invalid
<1> QED
  BY <1>2, <1>3, <1>5, <1>6 DEF Invalid

(* A cross build of a valid Qt does not fail over the validity of the      *)
(* tools, for every file in which the modules with tools that need no gui  *)
(* list none that does, and every user: only egl is not handed on.         *)
THEOREM ValidToolsAlways ==
    ASSUME ToolsListNoGui
    PROVE  Spec => []ValidToolsForValidQt
<1>1. QtInv /\ ToolsInv => ValidToolsForValidQt
  <2> SUFFICES ASSUME QtInv, ToolsInv, stage["build"] = "invalid",
                      stage["host"] \notin {"configured", "invalid"}
               PROVE  Minor >= 10 /\ "qtwayland" \in Built("build")
    BY DEF ValidToolsForValidQt
  <2>1. Configured("build") /\ Invalid("build")
    BY DEF Configured, ToolsInv
  <2>2. stage["host"] \in {"valid", "described", "asserted"}
    BY DEF QtInv, ToolsAsked, Configured, TypeOK, Contexts
  <2>3. ~Invalid("host")
    BY <2>2 DEF ToolsInv
  <2> QED
    BY <2>1, <2>3, ToolsAreValid
<1>2. Init => QtInv /\ ToolsInv
  BY InitQt, InitTools
<1>3. QtInv /\ ToolsInv /\ [Next]_vars => QtInv' /\ ToolsInv'
  BY StepQt, StepTools
<1> QED
  BY <1>1, <1>2, <1>3, PTL DEF Spec
-----------------------------------------------------------------------------
(* The components that package_info() creates, of which the proof only has *)
(* to know the facts that decide over them: what is required of these      *)
(* facts holds for a valid Qt of any file but for the last conjunct, for   *)
(* which NeedsAreListed is assumed.                                        *)
PresentBefore(name, i, facts) ==
    \E j \in Created(facts) : j < i /\ Components[j].name = name

Sensible(facts) ==
    /\ "quick" \in facts => {"gui", "qtdeclarative", "qtshadertools"} \subseteq facts
    /\ facts \cap GuiModules # {} => "gui" \in facts
    /\ "widgets" \in facts => "gui" \in facts
    /\ "bluez" \in facts => "dbus" \in facts
    /\ "qtwebengine" \in facts => "qtwebchannel" \in facts
    /\ \A x \in Leaning : x[1] \in facts /\ x[2] \in Depends[x[1]] => x[2] \in facts

(* What MissingOnlyUnlisted says of a component and one that it requires.  *)
Unlisted(when, name) ==
    \/ name \in {"Widgets", "PrintSupport", "OpenGL", "OpenGLWidgets"}
    \/ \E p \in Provider(name) : \A m \in when \cap Modules : p \notin Depends[m]

Provided(component, i, facts) ==
    component.when \subseteq facts =>
        \A x \in component.requires :
            x[1] \subseteq facts =>
                PresentBefore(x[2], i, facts) \/ Unlisted(component.when, x[2])

(* Where the parts of the list lie. *)
LEMMA ComponentCount == DOMAIN Components = 1 .. 81
BY DEF Components, Base, Declarative, Tooling, Quick3D, Graphical, Stateful, ThreeD,
       Media, Devices, Web

LEMMA BaseAt == \A n \in 1 .. 12 : Components[n] = Base[n]
<1>1. /\ Components[1] = Base[1] /\ Components[2] = Base[2]
      /\ Components[3] = Base[3] /\ Components[4] = Base[4]
      /\ Components[5] = Base[5] /\ Components[6] = Base[6]
      /\ Components[7] = Base[7] /\ Components[8] = Base[8]
      /\ Components[9] = Base[9] /\ Components[10] = Base[10]
      /\ Components[11] = Base[11] /\ Components[12] = Base[12]
  BY DEF Components, Base, Declarative, Tooling, Quick3D, Graphical, Stateful, ThreeD,
         Media, Devices, Web
<1> QED
  BY <1>1

LEMMA DeclarativeAt == \A n \in 1 .. 5 : Components[12 + n] = Declarative[n]
<1>1. /\ Components[13] = Declarative[1] /\ Components[14] = Declarative[2]
      /\ Components[15] = Declarative[3] /\ Components[16] = Declarative[4]
      /\ Components[17] = Declarative[5]
  BY DEF Components, Base, Declarative, Tooling, Quick3D, Graphical, Stateful, ThreeD,
         Media, Devices, Web
<1> QED
  BY <1>1

LEMMA ToolingAt == \A n \in 1 .. 5 : Components[17 + n] = Tooling[n]
<1>1. /\ Components[18] = Tooling[1] /\ Components[19] = Tooling[2]
      /\ Components[20] = Tooling[3] /\ Components[21] = Tooling[4]
      /\ Components[22] = Tooling[5]
  BY DEF Components, Base, Declarative, Tooling, Quick3D, Graphical, Stateful, ThreeD,
         Media, Devices, Web
<1> QED
  BY <1>1

LEMMA Quick3DAt == \A n \in 1 .. 5 : Components[22 + n] = Quick3D[n]
<1>1. /\ Components[23] = Quick3D[1] /\ Components[24] = Quick3D[2]
      /\ Components[25] = Quick3D[3] /\ Components[26] = Quick3D[4]
      /\ Components[27] = Quick3D[5]
  BY DEF Components, Base, Declarative, Tooling, Quick3D, Graphical, Stateful, ThreeD,
         Media, Devices, Web
<1> QED
  BY <1>1

LEMMA GraphicalAt == \A n \in 1 .. 9 : Components[27 + n] = Graphical[n]
<1>1. /\ Components[28] = Graphical[1] /\ Components[29] = Graphical[2]
      /\ Components[30] = Graphical[3] /\ Components[31] = Graphical[4]
      /\ Components[32] = Graphical[5] /\ Components[33] = Graphical[6]
      /\ Components[34] = Graphical[7] /\ Components[35] = Graphical[8]
      /\ Components[36] = Graphical[9]
  BY DEF Components, Base, Declarative, Tooling, Quick3D, Graphical, Stateful, ThreeD,
         Media, Devices, Web
<1> QED
  BY <1>1

LEMMA StatefulAt == \A n \in 1 .. 6 : Components[36 + n] = Stateful[n]
<1>1. /\ Components[37] = Stateful[1] /\ Components[38] = Stateful[2]
      /\ Components[39] = Stateful[3] /\ Components[40] = Stateful[4]
      /\ Components[41] = Stateful[5] /\ Components[42] = Stateful[6]
  BY DEF Components, Base, Declarative, Tooling, Quick3D, Graphical, Stateful, ThreeD,
         Media, Devices, Web
<1> QED
  BY <1>1

LEMMA ThreeDAt == \A n \in 1 .. 11 : Components[42 + n] = ThreeD[n]
<1>1. /\ Components[43] = ThreeD[1] /\ Components[44] = ThreeD[2]
      /\ Components[45] = ThreeD[3] /\ Components[46] = ThreeD[4]
      /\ Components[47] = ThreeD[5] /\ Components[48] = ThreeD[6]
      /\ Components[49] = ThreeD[7] /\ Components[50] = ThreeD[8]
      /\ Components[51] = ThreeD[9] /\ Components[52] = ThreeD[10]
      /\ Components[53] = ThreeD[11]
  BY DEF Components, Base, Declarative, Tooling, Quick3D, Graphical, Stateful, ThreeD,
         Media, Devices, Web
<1> QED
  BY <1>1

LEMMA MediaAt == \A n \in 1 .. 8 : Components[53 + n] = Media[n]
<1>1. /\ Components[54] = Media[1] /\ Components[55] = Media[2]
      /\ Components[56] = Media[3] /\ Components[57] = Media[4]
      /\ Components[58] = Media[5] /\ Components[59] = Media[6]
      /\ Components[60] = Media[7] /\ Components[61] = Media[8]
  BY DEF Components, Base, Declarative, Tooling, Quick3D, Graphical, Stateful, ThreeD,
         Media, Devices, Web
<1> QED
  BY <1>1

LEMMA DevicesAt == \A n \in 1 .. 6 : Components[61 + n] = Devices[n]
<1>1. /\ Components[62] = Devices[1] /\ Components[63] = Devices[2]
      /\ Components[64] = Devices[3] /\ Components[65] = Devices[4]
      /\ Components[66] = Devices[5] /\ Components[67] = Devices[6]
  BY DEF Components, Base, Declarative, Tooling, Quick3D, Graphical, Stateful, ThreeD,
         Media, Devices, Web
<1> QED
  BY <1>1

LEMMA WebAt == \A n \in 1 .. 14 : Components[67 + n] = Web[n]
<1>1. /\ Components[68] = Web[1] /\ Components[69] = Web[2] /\ Components[70] = Web[3]
      /\ Components[71] = Web[4] /\ Components[72] = Web[5] /\ Components[73] = Web[6]
      /\ Components[74] = Web[7] /\ Components[75] = Web[8] /\ Components[76] = Web[9]
      /\ Components[77] = Web[10] /\ Components[78] = Web[11] /\ Components[79] = Web[12]
      /\ Components[80] = Web[13] /\ Components[81] = Web[14]
  BY DEF Components, Base, Declarative, Tooling, Quick3D, Graphical, Stateful, ThreeD,
         Media, Devices, Web
<1> QED
  BY <1>1

(* The components that others require, and from what on they are present.  *)
LEMMA CreatedBefore ==
    ASSUME NEW F, NEW i \in Nat, NEW k \in DOMAIN Components, k < i,
           Components[k].when \subseteq F
    PROVE  PresentBefore(Components[k].name, i, F)
BY DEF PresentBefore, Created

LEMMA BasePresent ==
    ASSUME NEW F, NEW i \in Nat
    PROVE  /\ "gui" \in F /\ 1 < i => PresentBefore("Gui", i, F)
           /\ "dbus" \in F /\ 4 < i => PresentBefore("DBus", i, F)
           /\ 5 < i => PresentBefore("Network", i, F)
           /\ 7 < i => PresentBefore("Sql", i, F)
           /\ 8 < i => PresentBefore("Test", i, F)
           /\ 9 < i => PresentBefore("Concurrent", i, F)
           /\ 10 < i => PresentBefore("Xml", i, F)
BY ComponentCount, BaseAt, CreatedBefore DEF Base, Component

LEMMA DeclarativePresent ==
    ASSUME NEW F, NEW i \in Nat
    PROVE  /\ "qtdeclarative" \in F /\ 13 < i => PresentBefore("Qml", i, F)
           /\ "qtdeclarative" \in F /\ 14 < i => PresentBefore("QmlModels", i, F)
           /\ {"qtdeclarative", "quick"} \subseteq F /\ 15 < i =>
                 PresentBefore("Quick", i, F)
           /\ {"qtdeclarative", "quick", "widgets"} \subseteq F /\ 16 < i =>
                 PresentBefore("QuickWidgets", i, F)
BY ComponentCount, DeclarativeAt, CreatedBefore DEF Declarative, Component

LEMMA ToolingPresent ==
    ASSUME NEW F, NEW i \in Nat
    PROVE  /\ {"qttools", "gui", "widgets"} \subseteq F /\ 18 < i => PresentBefore("UiPlugin", i, F)
           /\ {"qtshadertools", "gui"} \subseteq F /\ 22 < i =>
                 PresentBefore("ShaderTools", i, F)
BY ComponentCount, ToolingAt, CreatedBefore DEF Tooling, Component

LEMMA Quick3DPresent ==
    ASSUME NEW F, NEW i \in Nat
    PROVE  /\ {"qtquick3d", "quick"} \subseteq F /\ 23 < i => PresentBefore("Quick3DUtils", i, F)
           /\ {"qtquick3d", "quick"} \subseteq F /\ 24 < i =>
                 PresentBefore("Quick3DAssetImport", i, F)
           /\ {"qtquick3d", "quick"} \subseteq F /\ 25 < i =>
                 PresentBefore("Quick3DRuntimeRender", i, F)
           /\ {"qtquick3d", "quick"} \subseteq F /\ 26 < i =>
                 PresentBefore("Quick3D", i, F)
BY ComponentCount, Quick3DAt, CreatedBefore DEF Quick3D, Component

LEMMA GraphicalPresent ==
    ASSUME NEW F, NEW i \in Nat
    PROVE  /\ {"qtsvg", "gui"} \subseteq F /\ 28 < i => PresentBefore("Svg", i, F)
           /\ {"qtgraphs", "quick"} \subseteq F /\ 33 < i =>
                 PresentBefore("Graphs", i, F)
<1>1. Components[28] = Graphical[1] /\ Components[33] = Graphical[6]
  BY GraphicalAt
<1>2. Components[28].name = "Svg" /\ Components[28].when = {"qtsvg", "gui"}
  BY <1>1 DEF Graphical, Component
<1>3. Components[33].name = "Graphs" /\ Components[33].when = {"qtgraphs", "quick"}
  BY <1>1 DEF Graphical, Component, Extended
<1> QED
  BY <1>2, <1>3, ComponentCount, CreatedBefore

LEMMA StatefulPresent ==
    ASSUME NEW F, NEW i \in Nat
    PROVE  /\ "qtscxml" \in F /\ 37 < i => PresentBefore("StateMachine", i, F)
           /\ "qtscxml" \in F /\ 39 < i => PresentBefore("Scxml", i, F)
           /\ {"qtvirtualkeyboard", "quick"} \subseteq F /\ 41 < i =>
                 PresentBefore("VirtualKeyboard", i, F)
BY ComponentCount, StatefulAt, CreatedBefore DEF Stateful, Component

LEMMA ThreeDPresent ==
    ASSUME NEW F, NEW i \in Nat
    PROVE  /\ "qt3d" \in F /\ 43 < i => PresentBefore("3DCore", i, F)
           /\ "qt3d" \in F /\ 44 < i => PresentBefore("3DRender", i, F)
           /\ "qt3d" \in F /\ 45 < i => PresentBefore("3DAnimation", i, F)
           /\ "qt3d" \in F /\ 46 < i => PresentBefore("3DInput", i, F)
           /\ "qt3d" \in F /\ 47 < i => PresentBefore("3DLogic", i, F)
           /\ "qt3d" \in F /\ 48 < i => PresentBefore("3DExtras", i, F)
           /\ {"qt3d", "quick"} \subseteq F /\ 49 < i => PresentBefore("3DQuick", i, F)
BY ComponentCount, ThreeDAt, CreatedBefore DEF ThreeD, Component

LEMMA MediaPresent ==
    ASSUME NEW F, NEW i \in Nat
    PROVE  /\ "qtmultimedia" \in F /\ 59 < i => PresentBefore("Multimedia", i, F)
BY ComponentCount, MediaAt, CreatedBefore DEF Media, Component, Extended

LEMMA DevicesPresent ==
    ASSUME NEW F, NEW i \in Nat
    PROVE  /\ "qtpositioning" \in F /\ 62 < i => PresentBefore("Positioning", i, F)
           /\ {"qtpositioning", "quick"} \subseteq F /\ 63 < i =>
                 PresentBefore("PositioningQuick", i, F)
           /\ "qtserialport" \in F /\ 66 < i => PresentBefore("SerialPort", i, F)
BY ComponentCount, DevicesAt, CreatedBefore DEF Devices, Component, Extended

LEMMA WebPresent ==
    ASSUME NEW F, NEW i \in Nat
    PROVE  /\ "qtwebsockets" \in F /\ 68 < i => PresentBefore("WebSockets", i, F)
           /\ "qtwebchannel" \in F /\ 69 < i => PresentBefore("WebChannel", i, F)
           /\ {"qtwebengine", "quick"} \subseteq F /\ 70 < i =>
                 PresentBefore("WebEngineCore", i, F)
           /\ "qtgrpc" \in F /\ 77 < i => PresentBefore("Protobuf", i, F)
BY ComponentCount, WebAt, CreatedBefore DEF Web, Component, Extended

(* It is enough to look at the names that a component requires. *)
LEMMA ComponentProvided ==
    ASSUME NEW n, NEW w, NEW R, NEW i, NEW F,
           w \subseteq F => \A r \in R : PresentBefore(r, i, F) \/ Unlisted(w, r)
    PROVE  Provided(Component(n, w, R), i, F)
BY DEF Provided, Component

LEMMA ExtendedProvided ==
    ASSUME NEW n, NEW w, NEW R, NEW v, NEW S, NEW i, NEW F,
           w \subseteq F => \A r \in R : PresentBefore(r, i, F) \/ Unlisted(w, r),
           w \cup v \subseteq F => \A r \in S : PresentBefore(r, i, F) \/ Unlisted(w, r)
    PROVE  Provided(Extended(Component(n, w, R), v, S), i, F)
BY DEF Provided, Component, Extended

LEMMA OfQtbase ==
    ASSUME NEW w, NEW r \in {"Widgets", "PrintSupport", "OpenGL", "OpenGLWidgets"}
    PROVE  Unlisted(w, r)
BY DEF Unlisted

(* The components that may be missing because a file does not list their   *)
(* module.                                                                 *)
LEMMA ListedOrMissing ==
    ASSUME NeedsAreListed, NEW F, Sensible(F)
    PROVE  /\ "qtscxml" \in F => "qtdeclarative" \in F \/ Unlisted({"qtscxml"}, "Qml")
           /\ "qtwebchannel" \in F =>
                 "qtdeclarative" \in F \/ Unlisted({"qtwebchannel"}, "Qml")
           /\ "qtspeech" \in F =>
                 "qtmultimedia" \in F \/ Unlisted({"qtspeech"}, "Multimedia")
           /\ Unlisted({"qtmqtt"}, "WebSockets")
<1>1. /\ "qtdeclarative" \in Provider("Qml")
      /\ "qtmultimedia" \in Provider("Multimedia")
      /\ "qtwebsockets" \in Provider("WebSockets")
  <2>1. Components[13] = Declarative[1] /\ Components[59] = Media[6] /\ Components[68] = Web[1]
    BY DeclarativeAt, MediaAt, WebAt
  <2>2. Components[13].name = "Qml" /\ "qtdeclarative" \in Components[13].when
    BY <2>1 DEF Declarative, Component
  <2>3. Components[59].name = "Multimedia" /\ "qtmultimedia" \in Components[59].when
    BY <2>1 DEF Media, Component
  <2>4. Components[68].name = "WebSockets" /\ "qtwebsockets" \in Components[68].when
    BY <2>1 DEF Web, Component
  <2> QED
    BY <2>2, <2>3, <2>4, ComponentCount DEF Provider, NeedsAreListed
<1>2. ASSUME NEW m, NEW r, NEW p \in Provider(r), m \in Modules => p \notin Depends[m]
      PROVE  Unlisted({m}, r)
  BY <1>2 DEF Unlisted
<1> QED
  BY <1>1, <1>2 DEF NeedsAreListed, Sensible, Leaning

(* Every component of every part has what it requires, or may miss it. *)
LEMMA BaseProvided ==
    ASSUME NEW F, Sensible(F)
    PROVE  \A n \in 1 .. 12 : Provided(Components[n], n, F)
BY SMTT(20), BaseAt, BasePresent,
   ComponentProvided, OfQtbase
   DEF Base, Sensible, GuiModules

LEMMA DeclarativeProvided ==
    ASSUME NEW F, Sensible(F)
    PROVE  \A n \in 1 .. 5 : Provided(Components[12 + n], 12 + n, F)
BY SMTT(20), DeclarativeAt, BasePresent, DeclarativePresent,
   ComponentProvided, OfQtbase
   DEF Declarative, Sensible, GuiModules

LEMMA ToolingProvided ==
    ASSUME NEW F, Sensible(F)
    PROVE  \A n \in 1 .. 5 : Provided(Components[17 + n], 17 + n, F)
BY SMTT(20), ToolingAt, BasePresent, ToolingPresent,
   ComponentProvided, OfQtbase
   DEF Tooling, Sensible, GuiModules

LEMMA Quick3DProvided ==
    ASSUME NEW F, Sensible(F)
    PROVE  \A n \in 1 .. 5 : Provided(Components[22 + n], 22 + n, F)
BY SMTT(20), Quick3DAt, BasePresent, DeclarativePresent, ToolingPresent, Quick3DPresent,
   ComponentProvided
   DEF Quick3D, Sensible, GuiModules

LEMMA GraphicalProvided ==
    ASSUME NEW F, Sensible(F)
    PROVE  \A n \in 1 .. 9 : Provided(Components[27 + n], 27 + n, F)
BY SMTT(20), GraphicalAt, BasePresent, DeclarativePresent, Quick3DPresent, GraphicalPresent,
   ComponentProvided, ExtendedProvided, OfQtbase
   DEF Graphical, Sensible, GuiModules

LEMMA StatefulProvided ==
    ASSUME NEW F, Sensible(F), NeedsAreListed
    PROVE  \A n \in 1 .. 6 : Provided(Components[36 + n], 36 + n, F)
BY SMTT(20), StatefulAt, BasePresent, DeclarativePresent, StatefulPresent,
   ComponentProvided, ListedOrMissing
   DEF Stateful, Sensible, GuiModules

LEMMA ThreeDProvided ==
    ASSUME NEW F, Sensible(F)
    PROVE  \A n \in 1 .. 11 : Provided(Components[42 + n], 42 + n, F)
BY SMTT(20), ThreeDAt, BasePresent, DeclarativePresent, ThreeDPresent,
   ComponentProvided, OfQtbase
   DEF ThreeD, Sensible, GuiModules

LEMMA MediaProvided ==
    ASSUME NEW F, Sensible(F), NeedsAreListed
    PROVE  \A n \in 1 .. 8 : Provided(Components[53 + n], 53 + n, F)
BY SMTT(20), MediaAt, BasePresent, DeclarativePresent, MediaPresent,
   ComponentProvided, ExtendedProvided, OfQtbase, ListedOrMissing
   DEF Media, Sensible, GuiModules

LEMMA DevicesProvided ==
    ASSUME NEW F, Sensible(F)
    PROVE  \A n \in 1 .. 6 : Provided(Components[61 + n], 61 + n, F)
BY SMTT(20), DevicesAt, BasePresent, DeclarativePresent, DevicesPresent,
   ComponentProvided, ExtendedProvided
   DEF Devices, Sensible, GuiModules

LEMMA WebProvided ==
    ASSUME NEW F, Sensible(F), NeedsAreListed
    PROVE  \A n \in 1 .. 14 : Provided(Components[67 + n], 67 + n, F)
<1>1. \A n \in 1 .. 13 : Provided(Components[67 + n], 67 + n, F)
  BY SMTT(20), WebAt, BasePresent, DeclarativePresent, MediaPresent, WebPresent,
     ComponentProvided, ExtendedProvided, OfQtbase, ListedOrMissing
     DEF Web, Sensible, GuiModules
<1>2. Provided(Components[81], 81, F)
  <2>1. /\ Components[81].when = {"qtcanvaspainter", "gui", "qtshadertools"}
        /\ \A x \in Components[81].requires :
              x \in {<<{}, "Gui">>, <<{"quick"}, "Quick">>, <<{"widgets"}, "Widgets">>}
    <3>1. Components[81] = Web[14]
      BY WebAt
    <3>2. Web[14] = Extended(Extended(Component("CanvasPainter",
                        {"qtcanvaspainter", "gui", "qtshadertools"}, {"Gui"}),
                      {"quick"}, {"Quick"}), {"widgets"}, {"Widgets"})
      BY DEF Web
    <3> QED
      BY <3>1, <3>2 DEF Component, Extended
  <2>2. /\ "gui" \in F => PresentBefore("Gui", 81, F)
        /\ "quick" \in F => PresentBefore("Quick", 81, F)
    BY BasePresent, DeclarativePresent DEF Sensible
  <2> QED
    BY <2>1, <2>2, OfQtbase DEF Provided
<1> QED
  BY <1>1, <1>2

LEMMA AllProvided ==
    ASSUME NeedsAreListed, NEW F, Sensible(F)
    PROVE  \A i \in DOMAIN Components : Provided(Components[i], i, F)
<1> SUFFICES ASSUME NEW i \in 1 .. 81 PROVE Provided(Components[i], i, F)
  BY ComponentCount
<1>1. CASE i \in 1 .. 12
  BY <1>1, BaseProvided
<1>2. CASE i \in 13 .. 17
  <2>1. i - 12 \in 1 .. 5 /\ 12 + (i - 12) = i
    BY <1>2
  <2> QED
    BY <2>1, DeclarativeProvided
<1>3. CASE i \in 18 .. 22
  <2>1. i - 17 \in 1 .. 5 /\ 17 + (i - 17) = i
    BY <1>3
  <2> QED
    BY <2>1, ToolingProvided
<1>4. CASE i \in 23 .. 27
  <2>1. i - 22 \in 1 .. 5 /\ 22 + (i - 22) = i
    BY <1>4
  <2> QED
    BY <2>1, Quick3DProvided
<1>5. CASE i \in 28 .. 36
  <2>1. i - 27 \in 1 .. 9 /\ 27 + (i - 27) = i
    BY <1>5
  <2> QED
    BY <2>1, GraphicalProvided
<1>6. CASE i \in 37 .. 42
  <2>1. i - 36 \in 1 .. 6 /\ 36 + (i - 36) = i
    BY <1>6
  <2> QED
    BY <2>1, StatefulProvided
<1>7. CASE i \in 43 .. 53
  <2>1. i - 42 \in 1 .. 11 /\ 42 + (i - 42) = i
    BY <1>7
  <2> QED
    BY <2>1, ThreeDProvided
<1>8. CASE i \in 54 .. 61
  <2>1. i - 53 \in 1 .. 8 /\ 53 + (i - 53) = i
    BY <1>8
  <2> QED
    BY <2>1, MediaProvided
<1>9. CASE i \in 62 .. 67
  <2>1. i - 61 \in 1 .. 6 /\ 61 + (i - 61) = i
    BY <1>9
  <2> QED
    BY <2>1, DevicesProvided
<1>10. CASE i \in 68 .. 81
  <2>1. i - 67 \in 1 .. 14 /\ 67 + (i - 67) = i
    BY <1>10
  <2> QED
    BY <2>1, WebProvided
<1> QED
  BY <1>1, <1>2, <1>3, <1>4, <1>5, <1>6, <1>7, <1>8, <1>9, <1>10
-----------------------------------------------------------------------------
(* What a package is described from: validate() has had nothing to say of  *)
(* it, and every module is built for one that is built with all it lists.  *)
Whole(c) ==
    \A m \in Built(c) : \E r \in Built(c) :
        (m = r \/ m \in Depends[r]) /\ Depends[r] \subseteq Built(c)

DescribedInv ==
    \A c \in Contexts :
        /\ stage[c] \in {"valid", "described", "asserted"} => ~Invalid(c)
        /\ Configured(c) => Whole(c)

LEMMA InitDescribed == Init => DescribedInv
BY DEF Init, DescribedInv, Configured

LEMMA ConfigureIsWhole ==
    ASSUME TypeOK, NEW c \in Contexts, Configure(c)
    PROVE  Whole(c)'
<1>1. Built(c)' = Requested(c) \cup Required(c)
  BY ConfigureBuilds DEF Enabled
<1>2. \A r \in Requested(c) : Depends[r] \subseteq Required(c)
  BY DEF Required
<1>3. \A m \in Required(c) : \E r \in Requested(c) : m \in Depends[r]
  BY DEF Required
<1> QED
  BY <1>1, <1>2, <1>3 DEF Whole

LEMMA StepDescribed == TypeOK /\ DescribedInv /\ [Next]_vars => DescribedInv'
<1> SUFFICES ASSUME TypeOK, DescribedInv, [Next]_vars PROVE DescribedInv'
  OBVIOUS
<1>a. ASSUME NEW d \in Contexts, user' = user, options'[d] = options[d],
             features'[d] = features[d], Configured(d)' => Configured(d),
             stage'[d] \in {"valid", "described", "asserted"} =>
                stage[d] \in {"valid", "described", "asserted"} \/ ~Invalid(d)
      PROVE  /\ stage'[d] \in {"valid", "described", "asserted"} => ~Invalid(d)'
             /\ Configured(d)' => Whole(d)'
  <2>1. (Invalid(d)' <=> Invalid(d)) /\ Built(d)' = Built(d)
    BY <1>a, SameVerdict DEF Built, Value
  <2>2. Whole(d)' <=> Whole(d)
    BY <2>1 DEF Whole
  <2> QED
    BY <1>a, <2>1, <2>2 DEF DescribedInv
<1>1. ASSUME NEW c \in Contexts, Configure(c) PROVE DescribedInv'
  <2>1. Whole(c)' /\ stage'[c] = "configured"
    BY <1>1, ConfigureIsWhole, ConfigureBuilds
  <2>2. /\ user' = user
        /\ \A d \in Contexts \ {c} :
              options'[d] = options[d] /\ features'[d] = features[d] /\ stage'[d] = stage[d]
    BY <1>1, ConfigureBuilds DEF Configure
  <2>3. \A d \in Contexts \ {c} :
           /\ stage'[d] \in {"valid", "described", "asserted"} => ~Invalid(d)'
           /\ Configured(d)' => Whole(d)'
    BY <1>a, <2>2 DEF Configured
  <2> QED
    BY <2>1, <2>3 DEF DescribedInv
<1>2. ASSUME BuildRequirements PROVE DescribedInv'
  <2>1. stage'["build"] = "loaded" /\ ~Configured("build")'
    BY <1>2 DEF BuildRequirements, TypeOK, Contexts, Configured
  <2>2. /\ user' = user
        /\ options'["host"] = options["host"] /\ features'["host"] = features["host"]
        /\ stage'["host"] = stage["host"]
    BY <1>2 DEF BuildRequirements, TypeOK, Contexts
  <2>3. /\ stage'["host"] \in {"valid", "described", "asserted"} => ~Invalid("host")'
        /\ Configured("host")' => Whole("host")'
    BY <1>a, <2>2 DEF Configured, Contexts
  <2> QED
    BY <2>1, <2>3 DEF DescribedInv, Contexts
<1>3. ASSUME NEW c \in Contexts, ConfigureRaises(c) \/ Validate(c) \/ PackageInfo(c)
      PROVE  DescribedInv'
  <2>1. user' = user /\ options' = options /\ features' = features
    BY <1>3 DEF ConfigureRaises, Validate, PackageInfo
  <2>2. /\ \A d \in Contexts \ {c} : stage'[d] = stage[d]
        /\ \/ stage'[c] = "refused"
           \/ stage[c] = "configured" /\ stage'[c] = IF Invalid(c) THEN "invalid" ELSE "valid"
           \/ stage[c] = "valid" /\ stage'[c] \in {"described", "asserted"}
    <3> HIDE DEF Invalid
    <3> QED
      BY <1>3 DEF ConfigureRaises, Validate, PackageInfo, TypeOK
  <2>3. \A d \in Contexts :
           /\ Configured(d)' => Configured(d)
           /\ stage'[d] \in {"valid", "described", "asserted"} =>
                 stage[d] \in {"valid", "described", "asserted"} \/ ~Invalid(d)
    BY <2>2 DEF Configured
  <2> QED
    BY <1>a, <2>1, <2>3 DEF DescribedInv
<1>4. CASE UNCHANGED vars
  <2>1. user' = user /\ options' = options /\ features' = features /\ stage' = stage
    BY <1>4 DEF vars
  <2> QED
    BY <1>a, <2>1 DEF DescribedInv, Configured
<1> QED
  BY <1>1, <1>2, <1>3, <1>4 DEF Next

(* The facts of a valid Qt are sensible. *)
LEMMA ValidIsSensible ==
    ASSUME NeedsAreListed, TypeOK, NEW c \in Contexts, ~Invalid(c), Whole(c)
    PROVE  Sensible(Facts(c))
<1>1. /\ Built(c) \subseteq Modules /\ features[c] \subseteq Features
      /\ System(c) \in Systems
  BY QtAssumption DEF Built, Value, TypeOK, System, Systems
<1>2. /\ \A m \in Modules \ Features : m \in Facts(c) <=> m \in Built(c)
      /\ \A f \in Features : f \in Facts(c) <=> f \in features[c]
      /\ "quick" \in Facts(c) <=> QuickEnabled(c)
  BY <1>1, QtAssumption DEF Facts, Features, Systems
<1>3. Facts(c) \cap (GuiModules \cup {"qtscxml", "qtwebchannel", "qtspeech", "qtwebengine"})
         \subseteq Built(c)
  BY <1>1 DEF Facts, Features, Systems, GuiModules
<1>4. Built(c) \subseteq Facts(c)
  BY DEF Facts
<1>5. "quick" \in Facts(c) => {"gui", "qtdeclarative", "qtshadertools"} \subseteq Facts(c)
  BY <1>2, <1>4 DEF QuickEnabled, Features
<1>6. /\ Facts(c) \cap GuiModules # {} => "gui" \in Facts(c)
      /\ "widgets" \in Facts(c) => "gui" \in Facts(c)
      /\ "bluez" \in Facts(c) => "dbus" \in Facts(c)
      /\ "qtwebengine" \in Facts(c) => "qtwebchannel" \in Facts(c)
  BY <1>2, <1>3, <1>4 DEF Invalid, Features
<1>7. ASSUME NEW x \in Leaning, x[1] \in Facts(c), x[2] \in Depends[x[1]]
      PROVE  x[2] \in Facts(c)
  <2>1. x[1] \in Built(c)
    BY <1>3, <1>7 DEF Leaning
  <2>2. PICK r \in Built(c) : (x[1] = r \/ x[1] \in Depends[r]) /\ Depends[r] \subseteq Built(c)
    BY <2>1 DEF Whole
  <2>3. x[2] \in Depends[r]
    BY <1>1, <1>7, <2>2 DEF NeedsAreListed
  <2> QED
    BY <1>4, <2>2, <2>3
<1> QED
  BY <1>5, <1>6, <1>7 DEF Sensible

(* For every file in which the modules list what their components need,    *)
(* and every user, a component that package_info() misses belongs to a     *)
(* module that the requiring one does not list, or to qtbase built without *)
(* widgets or OpenGL.                                                      *)
THEOREM MissingOnlyUnlistedAlways ==
    ASSUME NeedsAreListed
    PROVE  Spec => []MissingOnlyUnlisted
<1>1. TypeOK /\ DescribedInv => MissingOnlyUnlisted
  <2> SUFFICES ASSUME TypeOK, DescribedInv, NEW c \in Contexts, stage[c] = "asserted",
                      NEW x \in Missing(c)
               PROVE  Unlisted(Components[x[1]].when, x[2])
    BY DEF MissingOnlyUnlisted, Unlisted
  <2>1. Sensible(Facts(c))
    BY ValidIsSensible DEF DescribedInv, Configured
  <2>2. /\ x[1] \in Created(Facts(c)) /\ x[2] \in RequiredNames(x[1], Facts(c))
        /\ ~PresentBefore(x[2], x[1], Facts(c))
    BY DEF Missing, PresentBefore
  <2>3. PICK r \in Components[x[1]].requires : r[1] \subseteq Facts(c) /\ r[2] = x[2]
    BY <2>2 DEF RequiredNames
  <2>4. x[1] \in DOMAIN Components /\ Components[x[1]].when \subseteq Facts(c)
    BY <2>2 DEF Created
  <2>5. Provided(Components[x[1]], x[1], Facts(c))
    BY <2>1, <2>4, AllProvided
  <2> QED
    BY <2>2, <2>3, <2>4, <2>5 DEF Provided
<1>2. Init => TypeOK /\ DescribedInv
  BY InitQt, InitDescribed DEF QtInv
<1>3. TypeOK /\ DescribedInv /\ [Next]_vars => TypeOK' /\ DescribedInv'
  BY StepType, StepDescribed
<1> QED
  BY <1>1, <1>2, <1>3, PTL DEF Spec
=============================================================================
