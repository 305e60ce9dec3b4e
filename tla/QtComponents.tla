---------------------------- MODULE QtComponents ----------------------------
(***************************************************************************)
(* recipes/qt/6.x.x/conanfile.py, package_info(): the components in the    *)
(* order in which they are created, when each one is, and the components   *)
(* that have to be there already.  Facts that decide are the modules that  *)
(* are built, the features "gui", "widgets", "opengl", "dbus" and "bluez", *)
(* "quick" (qt_quick_enabled), the operating system and the version.       *)
(*                                                                         *)
(* Core comes first and unconditionally and is left out of the lists.  So  *)
(* are the components that need nothing else and that nothing needs, and   *)
(* those next to a listed one that share its condition and require no more *)
(* than it does and itself (plugins, QuickShapes, AxServer, ...).          *)
(***************************************************************************)
EXTENDS Sequences

Component(name, when, requires) ==
    [name |-> name, when |-> when, requires |-> {<<{}, r>> : r \in requires}]

(* A component with a requirement that is made only if more holds. *)
Extended(component, when, requires) ==
    [component EXCEPT !.requires = @ \cup {<<when, r>> : r \in requires}]

Base == <<
    Component("Gui", {"gui"}, {}),
    Component("Widgets", {"widgets"}, {"Gui"}),
    Component("PrintSupport", {"gui", "widgets"}, {"Gui", "Widgets"}),
    Component("DBus", {"dbus"}, {}),
    Component("Network", {}, {}),
    Component("QConnManNetworkInformationPlugin", {"Linux", "dbus", "6.11"}, {"DBus", "Network"}),
    Component("Sql", {}, {}),
    Component("Test", {}, {}),
    Component("Concurrent", {}, {}),
    Component("Xml", {}, {}),
    Component("OpenGL", {"opengl", "gui"}, {"Gui"}),
    Component("OpenGLWidgets", {"opengl", "widgets"}, {"OpenGL", "Widgets"}) >>

Declarative == <<
    Component("Qml", {"qtdeclarative"}, {"Network"}),
    Component("QmlModels", {"qtdeclarative"}, {"Qml"}),
    Component("Quick", {"qtdeclarative", "quick"}, {"Gui", "Qml", "QmlModels"}),
    Component("QuickWidgets", {"qtdeclarative", "quick", "widgets"}, {"Gui", "Qml", "Quick", "Widgets"}),
    Component("QuickTest", {"qtdeclarative", "quick"}, {"Test", "Quick"}) >>

Tooling == LET designer == {"qttools", "gui", "widgets"} IN <<
    Component("UiPlugin", designer, {"Gui", "Widgets"}),
    Component("UiTools", designer, {"UiPlugin", "Gui", "Widgets"}),
    Component("Designer", designer, {"Gui", "UiPlugin", "Widgets", "Xml"}),
    Component("Help", designer, {"Gui", "Sql", "Widgets"}),
    Component("ShaderTools", {"qtshadertools", "gui"}, {"Gui"}) >>

Quick3D == LET quick3d == {"qtquick3d", "quick"} IN <<
    Component("Quick3DUtils", quick3d, {"Gui"}),
    Component("Quick3DAssetImport", quick3d, {"Gui", "Qml", "Quick3DUtils"}),
    Component("Quick3DRuntimeRender", quick3d,
              {"Gui", "Quick", "Quick3DAssetImport", "Quick3DUtils", "ShaderTools"}),
    Component("Quick3D", quick3d, {"Gui", "Qml", "Quick", "Quick3DRuntimeRender"}),
    Component("QuickControls2", {"quick"}, {"Gui", "Quick"}) >>

Graphical == <<
    Component("Svg", {"qtsvg", "gui"}, {"Gui"}),
    Component("SvgWidgets", {"qtsvg", "gui", "widgets"}, {"Gui", "Svg", "Widgets"}),
    Component("WaylandClient", {"qtwayland", "gui"}, {"Gui"}),
    Component("AxBase", {"qtactiveqt", "Windows"}, {"Gui", "Widgets"}),
    Extended(Component("Charts", {"qtcharts"}, {"Gui", "Widgets"}),
             {"opengl"}, {"OpenGL", "OpenGLWidgets"}),
    Extended(Component("Graphs", {"qtgraphs", "quick"}, {"Gui", "Quick"}), {"qtquick3d"}, {"Quick3D"}),
    Component("GraphsWidgets", {"qtgraphs", "quick", "qtquick3d", "widgets"}, {"Graphs", "QuickWidgets"}),
    Component("DataVisualization", {"qtdatavis3d", "quick"}, {"Gui", "OpenGL"}),
    Component("LottieVectorImageGeneratorPrivate", {"qtlottie"}, {"Gui"}) >>

Stateful == LET keyboard == {"qtvirtualkeyboard", "quick"} IN <<
    Component("StateMachine", {"qtscxml"}, {}),
    Component("StateMachineQml", {"qtscxml"}, {"StateMachine", "Qml"}),
    Component("Scxml", {"qtscxml"}, {}),
    Component("ScxmlQml", {"qtscxml"}, {"Scxml", "Qml"}),
    Component("VirtualKeyboard", keyboard, {"Gui", "Qml", "Quick"}),
    Component("QVirtualKeyboardPlugin", keyboard, {"Gui", "Qml", "VirtualKeyboard"}) >>

ThreeD == LET quick == {"qt3d", "quick"} IN <<
    Component("3DCore", {"qt3d"}, {"Concurrent", "Gui", "Network"}),
    Component("3DRender", {"qt3d"}, {"3DCore", "OpenGL"}),
    Component("3DAnimation", {"qt3d"}, {"3DCore", "3DRender", "Gui"}),
    Component("3DInput", {"qt3d"}, {"3DCore", "Gui"}),
    Component("3DLogic", {"qt3d"}, {"3DCore", "Gui"}),
    Component("3DExtras", {"qt3d"}, {"Gui", "3DCore", "3DInput", "3DLogic", "3DRender"}),
    Component("3DQuick", quick, {"3DCore", "Gui", "Qml", "Quick"}),
    Component("3DQuickAnimation", quick \cup {"before6.9"},
              {"3DAnimation", "3DCore", "3DQuick", "3DRender", "Gui", "Qml"}),
    Component("3DQuickExtras", quick \cup {"before6.9"},
              {"3DCore", "3DExtras", "3DInput", "3DQuick", "3DRender", "Gui", "Qml"}),
    Component("3DQuickInput", quick, {"3DCore", "3DInput", "3DQuick", "Gui", "Qml"}),
    Component("3DQuickRender", quick, {"3DCore", "3DQuick", "3DRender", "Gui", "Qml"}) >>

Media == LET media == {"qtmultimedia"} IN <<
    Component("QTgaPlugin", {"qtimageformats"}, {"Gui"}),
    Component("NetworkAuth", {"qtnetworkauth"}, {"Network"}),
    Component("Coap", {"qtcoap"}, {"Network"}),
    Extended(Component("Mqtt", {"qtmqtt"}, {"Network"}), {"6.10", "qtwebsockets"}, {"WebSockets"}),
    Component("OpcUa", {"qtopcua"}, {"Network"}),
    Component("Multimedia", media, {"Network", "Gui"}),
    Component("MultimediaWidgets", media, {"Multimedia", "Widgets", "Gui"}),
    Component("MultimediaQuickPrivate", media \cup {"quick"}, {"Multimedia", "Quick"}) >>

Devices == <<
    Component("Positioning", {"qtpositioning"}, {}),
    Component("PositioningQuick", {"qtpositioning", "quick"}, {"Positioning", "Qml", "Quick"}),
    Component("Location", {"qtlocation", "qtpositioning", "quick"}, {"Positioning", "PositioningQuick"}),
    Extended(Component("Bluetooth", {"qtconnectivity"}, {"Network"}), {"bluez"}, {"DBus"}),
    Component("SerialPort", {"qtserialport"}, {}),
    Extended(Component("SerialBus", {"qtserialbus"}, {"Network"}), {"qtserialport"}, {"SerialPort"}) >>

Web == LET engine == {"qtwebengine", "quick"} IN <<
    Component("WebSockets", {"qtwebsockets"}, {"Network"}),
    Component("WebChannel", {"qtwebchannel"}, {"Qml"}),
    Component("WebEngineCore", engine, {"Gui", "Quick", "WebChannel"}),
    Component("WebEngineQuick", engine, {"WebEngineCore"}),
    Component("WebEngineWidgets", engine,
              {"WebEngineCore", "Quick", "PrintSupport", "Widgets", "Gui", "Network"}),
    Component("RemoteObjects", {"qtremoteobjects"}, {"Network"}),
    Component("WebView", {"qtwebview"}, {"Gui"}),
    Component("TextToSpeech", {"qtspeech"}, {"Multimedia"}),
    Extended(Component("HttpServer", {"qthttpserver"}, {"Network"}), {"qtwebsockets"}, {"WebSockets"}),
    Component("Protobuf", {"qtgrpc"}, {}),
    Component("Grpc", {"qtgrpc"}, {"Protobuf", "Network"}),
    Component("TaskTree", {"qttasktree"}, {"Concurrent", "Network"}),
    Component("OpenApiCommon", {"qtopenapi"}, {"Network"}),
    Extended(Extended(Component("CanvasPainter", {"qtcanvaspainter", "gui", "qtshadertools"}, {"Gui"}),
                      {"quick"}, {"Quick"}),
             {"widgets"}, {"Widgets"}) >>

Components ==
    Base \o Declarative \o Tooling \o Quick3D \o Graphical \o Stateful \o ThreeD
        \o Media \o Devices \o Web
=============================================================================
