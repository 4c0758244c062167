SPECIFICATION Spec
CONSTANTS
    Size = 4
    Quantum = 6
    Costs = {1}
    Pc = {1, 2}
    MaxGen = 1
INVARIANT StackMatches
INVARIANT ResumesLiveCode
INVARIANT HostBounded
