SPECIFICATION SmcSpec
CONSTANTS
    Words = {0, 1, 2, 3, 4, 5, 6, 7}
    BlockEnds = {2, 5, 7}
    Targets = {1, 3, 4}
    Quarter = 1
    CodeSizes = {1}
    MaxLarge = 0
    LiveSize = 2
    MmuSize = 4
    STICKY_SMC_THRESHOLD = 2
    INTERP_THRESHOLD = 1
    MaxSpans = 2
INVARIANTS EntryIntact PageFresh EntryWatched
PROPERTIES ImplementsJitMemory
