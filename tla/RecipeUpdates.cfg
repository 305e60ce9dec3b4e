\* Three invocations of each script, stopped anywhere.
SPECIFICATION UpdateSpec
CONSTANTS
    SuiteSparseRecipes <- MCSuiteSparseRecipes
    GraphBLAS = "graphblas"
    Releases <- MCReleases
    Members <- MCMembers
    OldConfigYml <- MCOldConfigYml
    OldConandataYml <- MCOldConandataYml
    MaxInvocations = 3
    PypiPackages <- MCPypiPackages
    AptPackages <- MCAptPackages
    Parts <- MCParts
    Namesakes <- MCNamesakes
    OptionalParts <- MCOptionalParts
    MinVersion <- MCMinVersion
    Excluded <- MCExcluded
    Upstream <- MCUpstream
    OldFiles <- MCOldFiles
    MaxRuns = 3
INVARIANTS
    UpdateTypeOK
    FilesAgree
    DoneMeansUpdated
    RecipesAreSound
    NothingReleasedIsMissed
PROPERTIES
    OlderUrlsAreKept
    SuiteSparseIsMaintenance
    OneApiIsMaintenance
\* No more invocations.
CHECK_DEADLOCK FALSE
