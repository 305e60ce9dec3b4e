------------------------------ MODULE QtModules ------------------------------
(***************************************************************************)
(* recipes/qt/6.x.x/conanfile.py: the selection of the Qt modules in       *)
(* configure(), the second Qt that a cross build takes its tools from, the *)
(* options it is given in build_requirements(), validate() of both, and    *)
(* the components that package_info() creates.                             *)
(*                                                                         *)
(* Modules are those of qtmodules/<version>.conf that have an option; all  *)
(* depend on qtbase, which has none.  Of the other options only those are  *)
(* kept that decide over modules and components.                           *)
(***************************************************************************)
EXTENDS Naturals, Sequences, QtComponents

CONSTANTS
    Modules,
    Depends,     \* Depends[m]: the modules that m lists, without qtbase
    Status,      \* Status[m]: "essential", "addon", "deprecated" or "preview"
    Minor,       \* the version is 6.Minor
    Users        \* what users of the host context may ask for

Contexts == {"host", "build"}

(* "opengl" stands for any value of that option but "no", and is joined by *)
(* "dynamic" for that one.                                                 *)
Features == {"gui", "widgets", "opengl", "dynamic", "egl", "dbus", "bluez", "shared"}

(* The systems that the recipe tells apart. *)
Systems == {"Linux", "FreeBSD", "Windows", "Macos", "Android", "iOS", "tvOS",
            "watchOS", "visionOS", "Emscripten"}

(* validate(): the modules that "cannot be built without gui". *)
GuiModules ==
    {"qt3d", "qtactiveqt", "qtcanvaspainter", "qtcharts", "qtdatavis3d",
     "qtimageformats", "qtlottie", "qtmultimedia", "qtquick3d",
     "qtquick3dphysics", "qtquickeffectmaker", "qtquicktimeline",
     "qtshadertools", "qtvirtualkeyboard", "qtwayland", "qtwebview"}

(* A mutant: qtshadertools is forgotten. *)
GuiToolsForgotten ==
    {"qtactiveqt", "qtcanvaspainter", "qtquick3d", "qtquick3dphysics",
     "qtquickeffectmaker", "qtwayland"}

(* build_requirements(): what makes the Qt for the tools need gui. *)
GuiTools ==
    {"qtactiveqt", "qtcanvaspainter", "qtquick3d", "qtquick3dphysics",
     "qtquickeffectmaker", "qtshadertools", "qtwayland"}

(* build_requirements(): the modules with tools. *)
Tools ==
    {"qttools", "qtactiveqt", "qtcanvaspainter", "qtconnectivity",
     "qtdeclarative", "qtdoc", "qtgrpc", "qtopcua", "qtquick3d",
     "qtquick3dphysics", "qtquickeffectmaker", "qtremoteobjects", "qtscxml",
     "qtserialbus", "qtshadertools", "qtsvg", "qttranslations", "qtwayland"}

(* A module with tools for which build_requirements() does not ask for gui *)
(* lists none that validate() refuses without it.                          *)
ToolsListNoGui ==
    \A m \in (Tools \ GuiTools) \cap Modules : Depends[m] \cap GuiModules \subseteq Tools

(* Modules whose components need one of a module that they list. *)
Leaning == {<<"qtscxml", "qtdeclarative">>, <<"qtwebchannel", "qtdeclarative">>,
            <<"qtspeech", "qtmultimedia">>}

(* The modules of the file list what their components need: they are       *)
(* there, who lists a leaning module lists what that one leans on too, and *)
(* MQTT lists no WebSockets, which it uses if they are built.              *)
NeedsAreListed ==
    /\ {"qtdeclarative", "qtmultimedia", "qtwebsockets"} \subseteq Modules
    /\ \A r \in Modules : \A x \in Leaning :
          x[1] \in Depends[r] /\ x[2] \in Depends[x[1]] => x[2] \in Depends[r]
    /\ "qtmqtt" \in Modules => "qtwebsockets" \notin Depends["qtmqtt"]

ASSUME QtAssumption ==
    /\ Modules \cap (Features \cup Systems \cup {"quick", "before6.9", "6.10", "6.11"}) = {}
    /\ Depends \in [Modules -> SUBSET Modules]
    /\ \A m \in Modules : Depends[m] \cap {"qtwebengine", "qtconnectivity"} = {}
    /\ \A u \in Users :
          /\ u.options \in [Modules -> {"auto", "on", "off"}]
          /\ u.features \subseteq Features
          /\ "dynamic" \in u.features => "opengl" \in u.features
          /\ u.os \in Systems
          /\ u.cross \in BOOLEAN

VARIABLES
    user,      \* what the user asked for: options, statuses, features, system
    options,   \* options[c][m]: the value of the option of module m
    features,  \* features[c]: the other options that are on
    stage      \* stage[c]: how far the recipe in context c has come

vars == <<user, options, features, stage>>

Value(c, v) == {m \in Modules : options[c][m] = v}
Built(c) == Value(c, "on")
-----------------------------------------------------------------------------
(* _enabled_modules *)

Statuses(c) == IF c = "host" THEN user.statuses ELSE {}

(* A mutant: the modules that the user switched off are forgotten. *)
RequestedOverridden(c) == {m \in Modules : Status[m] \in Statuses(c)} \cup Value(c, "on")

Requested(c) ==
    ({m \in Modules : Status[m] \in Statuses(c)} \cup Value(c, "on")) \ Value(c, "off")

Required(c) == UNION {Depends[m] : m \in Requested(c)}

RequiredButDisabled(c) == Required(c) \cap Value(c, "off")

Enabled(c) == Requested(c) \cup Required(c)

(* The tools run on the machine that builds, which is taken to be Linux.   *)
System(c) == IF c = "host" THEN user.os ELSE "Linux"

(* Assigning with_fontconfig, which is removed without gui, raises. *)
FontconfigRemoved(c) ==
    /\ System(c) \in {"FreeBSD", "Linux"}
    /\ "qtwebengine" \in Enabled(c) /\ "gui" \notin features[c]

Refused(c) == RequiredButDisabled(c) # {} \/ FontconfigRemoved(c)
-----------------------------------------------------------------------------
(* config_options() switches qtwayland off where there is none; what the   *)
(* user asks for replaces it.                                              *)
Default(u, m) ==
    IF u.options[m] = "auto" /\ m = "qtwayland" /\ u.os # "Linux" THEN "off"
    ELSE u.options[m]

Init ==
    /\ user \in Users
    /\ options = [c \in Contexts |-> [m \in Modules |->
                      IF c = "host" THEN Default(user, m) ELSE "auto"]]
    /\ features = [c \in Contexts |-> IF c = "host" THEN user.features ELSE {}]
    /\ stage = [c \in Contexts |-> IF c = "host" THEN "loaded" ELSE "absent"]

(* configure(): all options of modules become True or False, and without   *)
(* gui the options that depend on it are removed.                          *)
Configure(c) ==
    /\ stage[c] = "loaded"
    /\ ~Refused(c)
    /\ options' = [options EXCEPT ![c] =
                      [m \in Modules |-> IF m \in Enabled(c) THEN "on" ELSE "off"]]
    /\ features' = [features EXCEPT ![c] =
                      IF "gui" \in @ THEN @ ELSE @ \ {"opengl", "dynamic", "egl"}]
    /\ stage' = [stage EXCEPT ![c] = "configured"]
    /\ UNCHANGED user

ConfigureRaises(c) ==
    /\ stage[c] = "loaded"
    /\ Refused(c)
    /\ stage' = [stage EXCEPT ![c] = "refused"]
    /\ UNCHANGED <<user, options, features>>

(* A mutant: qtconnectivity is asked for its tools without bluez. *)
ToolOptionAlways(m) ==
    IF m \notin Tools THEN "auto" ELSE IF m \in Built("host") THEN "on" ELSE "off"

(* A mutant: what the user asked for is handed on, not what is built. *)
ToolOptionAsAsked(m) ==
    IF m \notin Tools THEN "auto" ELSE IF user.options[m] = "on" THEN "on" ELSE "off"

(* A mutant: None stands for what is not built. *)
ToolOptionNone(m) ==
    IF m \notin Tools THEN "auto" ELSE IF m \in Built("host") THEN "on" ELSE "None"

(* The option of module m of the Qt for the tools. *)
ToolOption(m) ==
    IF m \notin Tools THEN "auto"
    ELSE IF m \in Built("host") /\ (m = "qtconnectivity" => "bluez" \in features["host"])
         THEN "on" ELSE "off"

(* What of gui, widgets, dbus and shared is handed on; opengl is "desktop" *)
(* by default.                                                             *)
ToolFeatures ==
    (features["host"] \cap {"dbus", "shared"}) \cup {"opengl"} \cup
        (IF Built("host") \cap GuiTools # {} THEN features["host"] \cap {"gui", "widgets"}
         ELSE {})

(* build_requirements() of a cross build. *)
BuildRequirements ==
    /\ user.cross
    /\ stage["host"] = "configured" /\ stage["build"] = "absent"
    /\ options' = [options EXCEPT !["build"] = [m \in Modules |-> ToolOption(m)]]
    /\ features' = [features EXCEPT !["build"] = ToolFeatures]
    /\ stage' = [stage EXCEPT !["build"] = "loaded"]
    /\ UNCHANGED user

(* validate(), without the checks of compilers and of other packages. *)
Invalid(c) ==
    \/ /\ "qtwebengine" \in Built(c)
       /\ \/ ~({"shared", "gui"} \subseteq features[c])
          \/ ~({"qtdeclarative", "qtwebchannel"} \subseteq Built(c))
          \/ System(c) = "Linux" /\ "dbus" \notin features[c]
    \/ "bluez" \in features[c] /\ "dbus" \notin features[c]
    \/ "widgets" \in features[c] /\ "gui" \notin features[c]
    \/ "gui" \notin features[c] /\ Built(c) \cap GuiModules # {}
    \/ System(c) = "Android" /\ "opengl" \in features[c]
    \/ System(c) # "Windows" /\ "dynamic" \in features[c]
    \/ Minor >= 10 /\ "qtwayland" \in Built(c) /\ "egl" \notin features[c]

(* The graph is complete: both recipes, if there are two, are configured.  *)
GraphComplete ==
    /\ stage["host"] \notin {"loaded", "refused"}
    /\ user.cross => stage["build"] \notin {"absent", "loaded", "refused"}

Validate(c) ==
    /\ stage[c] = "configured"
    /\ GraphComplete
    /\ stage' = [stage EXCEPT ![c] = IF Invalid(c) THEN "invalid" ELSE "valid"]
    /\ UNCHANGED <<user, options, features>>
-----------------------------------------------------------------------------
(* package_info() *)

(* A mutant: Quick is thought to be there without the shader tools. *)
QuickEnabledBefore66(c) == "qtdeclarative" \in Built(c) /\ "gui" \in features[c]

(* qt_quick_enabled *)
QuickEnabled(c) ==
    {"qtdeclarative", "qtshadertools"} \subseteq Built(c) /\ "gui" \in features[c]

(* The facts that decide over the components. *)
Facts(c) ==
    Built(c) \cup features[c] \cup {System(c)}
        \cup (IF QuickEnabled(c) THEN {"quick"} ELSE {})
        \cup (IF Minor >= 9 THEN {} ELSE {"before6.9"})
        \cup (IF Minor >= 10 THEN {"6.10"} ELSE {})
        \cup (IF Minor >= 11 THEN {"6.11"} ELSE {})

Created(facts) == {i \in DOMAIN Components : Components[i].when \subseteq facts}

RequiredNames(i, facts) ==
    {r[2] : r \in {x \in Components[i].requires : x[1] \subseteq facts}}

(* <<i, r>>: component i requires r, which is "not yet present". *)
Missing(c) ==
    LET facts == Facts(c)
        created == Created(facts)
        NotYet(i, r) == \A j \in created : j < i => Components[j].name # r
    IN  UNION {{<<i, r>> : r \in {x \in RequiredNames(i, facts) : NotYet(i, x)}} :
                  i \in created}

(* Nothing is built unless all is valid, and the tools are built first. *)
PackageInfo(c) ==
    /\ stage[c] = "valid"
    /\ \A d \in Contexts : stage[d] \notin {"configured", "invalid"}
    /\ c = "host" /\ user.cross => stage["build"] = "described"
    /\ stage' = [stage EXCEPT ![c] = IF Missing(c) = {} THEN "described" ELSE "asserted"]
    /\ UNCHANGED <<user, options, features>>

Next ==
    \/ \E c \in Contexts :
          Configure(c) \/ ConfigureRaises(c) \/ Validate(c) \/ PackageInfo(c)
    \/ BuildRequirements

Spec == Init /\ [][Next]_vars
-----------------------------------------------------------------------------
(* The state has its types. *)
TypeOK ==
    /\ user \in Users
    /\ options \in [Contexts -> [Modules -> {"auto", "on", "off"}]]
    /\ features \in [Contexts -> SUBSET Features]
    /\ stage \in [Contexts -> {"absent", "loaded", "configured", "refused",
                               "valid", "invalid", "described", "asserted"}]

Configured(c) == stage[c] \notin {"absent", "loaded", "refused"}

(* What the user decides about a module is what is built, also where a     *)
(* status or another module would have it otherwise, and every module is   *)
(* built with what it lists.                                               *)
AnswersAreKept ==
    Configured("host") =>
        \A m \in Modules :
            /\ user.options[m] = "on" => m \in Built("host") /\ Depends[m] \subseteq Built("host")
            /\ user.options[m] = "off" => m \notin Built("host")

(* The Qt for the tools is refused only if the Qt that is built has a      *)
(* module with tools without one that it depends on: dependencies are      *)
(* followed for one level only, and what was left out is then taken for    *)
(* explicitly disabled.                                                    *)
RefusedOnlyByGap ==
    stage["build"] = "refused" =>
        \E m \in Built("host") \cap Tools :
            \E d \in Depends[m] : d \notin Built("host")

(* "Make sure all required tools are built": once the Qt for the tools is  *)
(* configured it has every module with tools of the Qt that is built, and  *)
(* no other of them.                                                       *)
ToolsAreBuilt ==
    Configured("build") =>
        \A m \in Tools \cap Modules :
            m \in Built("build") <=>
                m \in Built("host") /\ (m = "qtconnectivity" => "bluez" \in features["host"])

(* What build_requirements() hands on is neither too little nor, but for a *)
(* gap in the dependencies, refused.                                       *)
ToolsFollowModules == RefusedOnlyByGap /\ ToolsAreBuilt

(* A valid Qt gets valid tools; only with_egl, which qtwayland needs, is   *)
(* not handed on.                                                          *)
ValidToolsForValidQt ==
    stage["build"] = "invalid" /\ stage["host"] \notin {"configured", "invalid"} =>
        Minor >= 10 /\ "qtwayland" \in Built("build")

Provider(name) ==
    LET components == {i \in DOMAIN Components : Components[i].name = name}
    IN  (UNION {Components[i].when : i \in components}) \cap Modules

(* A component is missing only where the dependency file does not say so:  *)
(* it belongs to a module that the one of the requiring component does not *)
(* list, or to qtbase built without widgets or OpenGL.                     *)
MissingOnlyUnlisted ==
    \A c \in Contexts : stage[c] = "asserted" =>
        \A x \in Missing(c) :
            \/ x[2] \in {"Widgets", "PrintSupport", "OpenGL", "OpenGLWidgets"}
            \/ \E p \in Provider(x[2]) :
                  \A m \in Components[x[1]].when \cap Modules : p \notin Depends[m]

(* The assertion "required but not yet present in self.cpp_info.components" *)
(* holds for every configuration that is valid.                            *)
RequiredArePresent == \A c \in Contexts : stage[c] # "asserted"
=============================================================================
