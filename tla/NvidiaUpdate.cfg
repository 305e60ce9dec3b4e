\* All orders of completion, with requests that fail.
SPECIFICATION FairSpec
CONSTANTS
    Bases <- MCBases
    Manifests <- MCManifests
    BaseOf <- MCBaseOf
    UrlRank <- MCUrlRank
    Answers <- MCAnswers
    Packages <- MCPackages
    NvPackages <- MCNvPackages
    Urls <- MCUrls
    Ignored <- MCIgnored
    Folders <- MCFolders
    VersionRange <- MCVersionRange
    Policy <- MCPolicy
    OldConandata <- MCOldConandata
    OldConfig <- MCOldConfig
    Workers = 2
INVARIANTS
    TypeOK
    SelectionIsSound
    WritesAreOrderly
PROPERTIES
    ScriptEnds
\* The script ends.
CHECK_DEADLOCK FALSE
