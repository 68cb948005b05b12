\* A limit of one history file.
SPECIFICATION Spec
CONSTANTS
    MaxSize = 2
    Keeps = {1}
    Lines = {1, 2}
    SizeCap = 4
    MaxTime = 1
    MaxRotated = 3
    MaxSignals = 1
PROPERTIES
    KeepsHistory
