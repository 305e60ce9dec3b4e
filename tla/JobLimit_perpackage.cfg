\* Jobs settings per recipe: a limit judged by the jobs of another recipe.
SPECIFICATION Spec
CONSTANTS
    libtorch = libtorch
    colmap = colmap
    Recipes <- MCRecipes
    ConfiguredJobs <- PerPackageJobs
    MaxFit = 6
INVARIANTS
    JobsFitMemory
\* Both recipes finished: the Conan process is done.
CHECK_DEADLOCK FALSE
