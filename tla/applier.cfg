SPECIFICATION Spec
CONSTANTS
    Images <- AllImages
    Plans <- AnchoredPlans
INVARIANTS
    TypeOK
    AcceptedDisjoint
    SplicesMatch
    SplicedInPlace
    RegionTexts
    BytecodeFresh
    FramingIntact
    ElfIntact
    MachOLoadable
