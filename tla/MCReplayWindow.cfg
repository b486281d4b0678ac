CONSTANTS
    Words = 3
    Bits = 2
    Seqs <- MCSeqs
SPECIFICATION Spec
INVARIANTS
    TypeOK
    WindowMatchesHistory
    HighestIsNewest
PROPERTIES
    ImplementsFilter
