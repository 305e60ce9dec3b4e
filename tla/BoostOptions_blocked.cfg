\* Is a module that needs a newer standard left out?
SPECIFICATION Spec
CONSTANTS
    Minor = 88
    Modules <- Modules88
    Available <- Available88
    Deps <- Deps88
    SettingsChoices <- LinuxOnly
    ModuleChoices <- ModuleChoices88
    OtherChoices <- PlainOthers
INVARIANTS
    BlockedStaysDisabled
\* configure() is called once and returns.
CHECK_DEADLOCK FALSE
