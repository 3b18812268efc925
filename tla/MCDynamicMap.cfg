CONSTANTS
    Config <- MCConfig
    Ranges <- MCRanges
    FirstSrc = 4
    Junk = Junk
SPECIFICATION FairSpec
INVARIANTS
    TypeOK
    EachOnce
    UniformExit
PROPERTIES
    Terminates
