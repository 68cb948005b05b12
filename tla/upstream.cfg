\* One upstream server, over TCP (frames of 0 to 6 bytes, a first read of 4)
\* or over UDP (two or three datagrams of 0 to 2 bytes).
SPECIFICATION MCSpec
CONSTANTS
    Frame <- MCFrame
    First = 4
    Extra = 2
    Sizes = {0, 1, 2}
    MaxDatagrams = 3
INVARIANTS
    BuffersHeld
PROPERTIES
    ServersPromise
    WholeIsEnough
    CanceledServersTell
CHECK_DEADLOCK FALSE
