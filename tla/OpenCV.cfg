\* One answer more than the defaults, nothing or everything; pairs of modules.
SPECIFICATION FairCvSpec
CONSTANTS
    Users <- UsersAll
INVARIANTS
    CvTypeOK
    MandatoryIsSolved
    OnlySupportedModules
    ComponentsResolve
    ComponentsAcyclic
    CvRequirementsAreUsed
PROPERTIES
    ChangedForAReason
    PackageIsSettled
\* The package is described or the request rejected, and that is the end.
CHECK_DEADLOCK FALSE
