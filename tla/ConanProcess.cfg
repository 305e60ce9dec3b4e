\* Graphs of recipes that share conan-cuda, and repeated limits in their builds.
SPECIFICATION ProcessSpec
CONSTANTS
    Recipes <- MCRecipes
    ConfiguredJobs <- UniformJobs
    MaxFit = 4
    CudaRecipes <- MCCudaRecipes
    Requires <- MCRequires
    Dependencies <- MCRequires
    Private <- Packaged
    Hooks <- MCHooks
    Sources <- MCSources
    Manifests <- MCManifests
    Requests <- MCRequests
INVARIANTS
    ProcessTypeOK
    LimitIsSound
    MethodsAreThere
    AcceptedCanBeBuilt
    BuiltFitsSettings
\* Everything is built, or an exception has ended the process.
CHECK_DEADLOCK FALSE
