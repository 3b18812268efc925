CONSTANTS
    Programs <- MCCopied
    Limits = {0, 2}
    MaxStreams = 7
SPECIFICATION Spec
INVARIANT
    ReadersWait
