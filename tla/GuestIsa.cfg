SPECIFICATION Spec
CONSTANTS
    ArmEntries <- AllArm
    ThumbEntries <- AllThumb
    Bases = {1, 13, 15}
    Dests = {1, 2, 15}
    Shifters = {3, 14}
    Offsets = {1, 13, 14, 15}
    Lists <- SomeLists
INVARIANTS SameCharge SameRoute SameTransfer DeclaredRegisters
CHECK_DEADLOCK FALSE
