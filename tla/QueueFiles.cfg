SPECIFICATION QueueSpec
CONSTANTS
  f1 = f1  f2 = f2
  Missing = Missing  Bad = Bad  None = None
  File = {f1,f2}
  Debounce = 2
  MaxWait = 4
  MaxVersion = 4
  Faults = {"write"}
SYMMETRY QueueSymmetry
INVARIANTS
    LossBounded
    ShutdownLosesNothing
    AtMostOneGenerationLost
PROPERTIES
    DiskMovesForward
