SPECIFICATION FairSpec
CONSTANTS
    Lines = {0}
    Channels = {1}
    Waited = {0}
    MaxDepth = 2
INVARIANT NoLostInterrupt
INVARIANT WaitEndsOnFlag
INVARIANT ScheduledIsArmed
PROPERTY Wakes
