SPECIFICATION Spec
CONSTANTS
    Images <- ElfArgvFirstOnly
    Plans <- ArgvPlans
INVARIANTS
    LengthsBumped
