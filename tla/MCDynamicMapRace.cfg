CONSTANTS
    Config <- MCConfigRace
    Ranges <- MCRangesRace
    FirstSrc = 0
    Junk = Junk
SPECIFICATION FairSpec
INVARIANTS
    UniformExit
