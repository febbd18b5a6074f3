SPECIFICATION Spec
CONSTANTS
    Images <- ElfTableLastOnly
    Plans <- InsertionPlans
INVARIANTS
    RegionTexts
