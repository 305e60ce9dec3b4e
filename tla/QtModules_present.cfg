\* Whether all components are there that others require.
SPECIFICATION Spec
CONSTANTS
    Modules <- MCModules
    Depends <- File
    Status <- MCStatus
    Minor = 11
    Users <- MCUsers
INVARIANTS
    RequiredArePresent
\* Conan stops once the packages are described.
CHECK_DEADLOCK FALSE
