---------------------------- MODULE MCQtModules ----------------------------
(* Instances of QtModules for qtmodules/6.11.0.conf.  Left out are modules *)
(* that no rule mentions and that list qtbase alone, or qtdeclarative with *)
(* it (qt5compat, qtquicktimeline).                                        *)
EXTENDS QtModules, FiniteSets

File ==
    [qtsvg |-> {}, qtdeclarative |-> {}, qtactiveqt |-> {},
     qtmultimedia |-> {"qtshadertools"}, qttools |-> {},
     qttranslations |-> {"qttools"}, qtdoc |-> {"qtdeclarative", "qttools"},
     qtlocation |-> {"qtpositioning"}, qtpositioning |-> {},
     qtconnectivity |-> {}, qtwayland |-> {}, qt3d |-> {},
     qtimageformats |-> {}, qtserialbus |-> {}, qtserialport |-> {},
     qtwebsockets |-> {}, qtwebchannel |-> {}, qtwebengine |-> {"qtdeclarative"},
     qtwebview |-> {"qtdeclarative"}, qtcharts |-> {}, qtdatavis3d |-> {},
     qtvirtualkeyboard |-> {"qtdeclarative", "qtsvg"}, qtscxml |-> {"qtdeclarative"},
     qtspeech |-> {"qtmultimedia"}, qtremoteobjects |-> {},
     qtlottie |-> {"qtdeclarative"}, qtquick3d |-> {"qtdeclarative", "qtshadertools"},
     qtshadertools |-> {}, qtmqtt |-> {"qtdeclarative"}, qtopcua |-> {"qtdeclarative"},
     qthttpserver |-> {},
     qtquick3dphysics |-> {"qtdeclarative", "qtquick3d", "qtshadertools"},
     qtgrpc |-> {}, qtquickeffectmaker |-> {"qtdeclarative", "qtshadertools"},
     qtgraphs |-> {"qtdeclarative", "qtquick3d"}, qttasktree |-> {},
     qtcanvaspainter |-> {"qtdeclarative", "qtshadertools"}]

MCModules == DOMAIN File
MCStatus ==
    [m \in MCModules |->
        IF m \in {"qtdeclarative", "qttools", "qttranslations", "qtdoc"} THEN "essential"
        ELSE IF m \in {"qt3d", "qtcharts", "qtdatavis3d"} THEN "deprecated"
        ELSE IF m \in {"qtlocation", "qttasktree", "qtcanvaspainter"} THEN "preview"
        ELSE "addon"]

(* The answers of users who switch some modules on and some off. *)
Answered(on, off) ==
    [m \in MCModules |-> IF m \in on THEN "on" ELSE IF m \in off THEN "off" ELSE "auto"]

Nobody == Answered({}, {})
One == {Answered({m}, {}) : m \in MCModules} \cup {Answered({}, {m}) : m \in MCModules}
Two == {Answered({m, n}, {}) : m, n \in MCModules}
       \cup {Answered({m}, {n} \ {m}) : m, n \in MCModules}

Asking(answers, statuses, extras, os) ==
    [options : answers, statuses : statuses, features : extras, os : {os},
     cross : BOOLEAN]

Plain == {"gui", "widgets", "opengl"}
Everything == Features \ {"dynamic"}

(* Users who answer for one or two modules, with or without widgets and    *)
(* OpenGL, and users of a whole status who answer for one at most; on      *)
(* other systems than Linux, users with the OpenGL that each has or has    *)
(* not.                                                                    *)
MCUsers ==
    Asking(Two, {{}}, {Plain}, "Linux")
    \cup Asking(One \cup {Nobody}, {{}, {"addon"}, {"essential"}, {"deprecated", "preview"}},
                {Plain, {"gui", "opengl"}, {"gui", "widgets"}, {}, Everything, Everything \ {"dbus"}},
                "Linux")
    \cup Asking(One, {{}}, {Plain \cup {"dynamic"}, {"gui"}}, "Windows")
    \cup Asking({Nobody}, {{}}, {Plain, Plain \cup {"dynamic"}, {"gui"}}, "Android")
    \cup Asking({Nobody}, {{}}, {Plain \cup {"dynamic"}}, "Linux")
    \cup Asking(One, {{}}, {Plain, {}}, "FreeBSD")

(* Two modules do not list all that the modules they list depend on.       *)
ASSUME MCGaps ==
    {m \in MCModules : \E d \in File[m] : ~(File[d] \subseteq File[m])}
        = {"qtspeech", "qtgraphs"}

(* The file of Qt 6.11 is as build_requirements() and package_info() take  *)
(* it to be.                                                               *)
ASSUME MCToolsListNoGui == ToolsListNoGui
ASSUME MCNeedsAreListed == NeedsAreListed
=============================================================================
