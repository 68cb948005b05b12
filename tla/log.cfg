\* Limits of 0 to 3 files of size 2, up to 3 rotations in 2 seconds, and two
\* signal handlers that interrupt each other.
SPECIFICATION FairSpec
CONSTANTS
    MaxSize = 2
    Keeps = {0, 1, 2, 3}
    Lines = {1, 2}
    SizeCap = 4
    MaxTime = 1
    MaxRotated = 3
    MaxSignals = 2
INVARIANTS
    AllKept
PROPERTIES
    OldestFirst
    FullIsRotated
    SignalStops
