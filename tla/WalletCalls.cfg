CONSTANTS
    aD = aD
    aB = aB
    bD = bD
    bB = bB
    NaN = NaN
    Accounts = {aD, aB, bD, bB}
    Calls = {"giftAB", "retryAB", "swapB", "move", "edit"}
    Op <- MCOp
    Opening <- MCOpening
    Ceiling = 1
    MaxFails = 1
SPECIFICATION Spec
INVARIANTS
    WholeOrNothing
    LedgerIsBalance
    AnswersAreTrue
PROPERTIES
    EveryCallEnds
CHECK_DEADLOCK FALSE
