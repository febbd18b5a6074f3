SPECIFICATION FairRunSpec
CONSTANTS
    Images <- RunImages
    Plans <- NoPlans
    Patches <- RunPatches
    Discover <- ReplaceAnchors
    Environments <- RunEnvironments
    Commands <- AllCommands
INVARIANTS
    RunTypeOK
    ExitCodes
    FatalHasReason
    AllOrNothing
    RegistryIsStable
    KeysTellRegistries
    OutputHasMatchedPatches
    BrokenImagesRefused
PROPERTIES
    KeepsContract
    RunExits
