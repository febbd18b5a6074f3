SPECIFICATION FairSpec
CONSTANTS
    Versions <- ThreeVersions
    NameRank <- RankOfName
    Environment <- AllEnvironments
    SearchPaths <- AllSearchPaths
    MaxSearches = 2
CHECK_DEADLOCK FALSE
INVARIANTS
    FailsOnlyIfRemoved
    FoundIsCurrent
    FoundIsNoLink
    ReturnedLinkLeads
PROPERTIES
    SearchEnds
