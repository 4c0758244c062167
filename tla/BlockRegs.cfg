SPECIFICATION Spec
CONSTANTS
    Guest = {0, 8, 14}
    Hosts = {7, 8}
    Thumb = FALSE
    SwiRegs = {0}
    Banked = {8, 14}
    LR = 14
    MaxOperands = 2
    Blocks <- MCBlocks
    Lists <- MCLists
    PcLive = {FALSE}
    CondSwi = FALSE
    Refault = FALSE
INVARIANTS OperandsPresent LeavesSaved DirtyExact
