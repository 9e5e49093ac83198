SPECIFICATION Spec
SYMMETRY NodeSymmetry
CONSTANTS
    Draw <- MCDraw
    Phi <- MCPhi
    None = None
    Nodes = {n1, n2}
    Leaders = {"a", "b"}
    Pools = {"b"}
    Outsider = "e"
    MasterSeed <- MCSeeds
    Block0Leaders <- MCBlock0Leaders
    Block0Stake <- MCStake
    Changes <- MCChanges
    KesDepth = 2
    BlockContentMaxSize = 2
    Era <- MCEra
    Frame <- MCFrame
    ClockStep = 2
    MaxTime = 10
    MaxBlocks = 4
INVARIANT RebuiltAsTested
CHECK_DEADLOCK FALSE
