SPECIFICATION Spec
CONSTANTS
    Images <- ElfTableLastOnly
    Plans <- StraddlePlans
INVARIANTS
    BytecodeFresh
