\* Boost 1.88 with a Python from the cpython package.
SPECIFICATION FairPackageSpec
CONSTANTS
    Minor = 88
    Modules <- ModulesPkg
    Available <- AvailablePkg
    Deps <- DepsPkg
    SettingsChoices <- ProfilesPkg
    ModuleChoices <- ModuleChoicesPkg
    OtherChoices <- OthersPkg
    Requirements <- RequirementsPkg
    PythonConf = FALSE
INVARIANTS
    PackageTypeOK
    BlockedOnlyByCoupling
    NoMissingOptionRead
    MethodsAgree
PROPERTIES
    ImplementsSelection
    PackageIsDecided
\* The package is described or rejected, and that is the end.
CHECK_DEADLOCK FALSE
