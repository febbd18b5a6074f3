SPECIFICATION FairSpec
CONSTANTS
    Texts <- ShortTexts
    Starts <- FirstPositions
    Limits <- LastPositions
INVARIANTS
    FindsMatchingBrace
PROPERTIES
    WalkEnds
