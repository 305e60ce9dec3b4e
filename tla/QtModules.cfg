\* The module file of Qt 6.11 and users who answer for one or two modules.
SPECIFICATION Spec
CONSTANTS
    Modules <- MCModules
    Depends <- File
    Status <- MCStatus
    Minor = 11
    Users <- MCUsers
INVARIANTS
    TypeOK
    AnswersAreKept
    ToolsFollowModules
    ValidToolsForValidQt
    MissingOnlyUnlisted
\* Conan stops once the packages are described.
CHECK_DEADLOCK FALSE
