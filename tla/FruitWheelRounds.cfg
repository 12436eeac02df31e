CONSTANTS
    u1 = u1
    u2 = u2
    orange = orange
    apple = apple
    Users = {u1, u2}
    Foods = {orange, apple}
    Mult <- MCMult
    Chip = 10
    FeeBps = 1000
    Funds = 10
    Modes = {FALSE, TRUE}
    MaxSpins = 2
    MaxGen = 2
    MaxFails = 1
    MaxBets = 2
SPECIFICATION Spec
INVARIANTS
    SnapshotIsCurrent
PROPERTIES
    NoDiamondsFromNothing
    EveryStakeIsDrawn
CHECK_DEADLOCK FALSE
