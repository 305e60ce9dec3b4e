\* Which of two manifests with the same version is named.
SPECIFICATION Spec
CONSTANTS
    Bases <- MCBases
    Manifests <- MCManifests
    BaseOf <- MCBaseOf
    UrlRank <- MCUrlRank
    Answers <- MCAnswers
    Packages <- MCPackages
    NvPackages <- MCNvPackages
    Urls <- MCUrls
    Ignored <- MCIgnored
    Folders <- MCFolders
    VersionRange <- MCVersionRange
    Policy <- MCPolicy
    OldConandata <- MCOldConandata
    OldConfig <- MCOldConfig
    Workers = 2
INVARIANTS
    NewestUrlIsSelected
\* The script ends.
CHECK_DEADLOCK FALSE
