SPECIFICATION StructuresSpec
SYMMETRY TwinSymmetry
CONSTANTS
    ka = ka  kb = kb  kc = kc  kd = kd  ke = ke
    Absent = Absent
    HashOf <- MCHashOf
    HashBits = 5
    GroupBits = 2
    Keys <- MCKeys
    Vals = {1, 2}
    Indexes = {0, 1}
    UtxoKeys = {kd, ke}
    Addresses = {kd, ke}
    Slots = {ka, kc}
    MaxNonce = 3
    MaxBlocks = 2
    Blocks <- MCBlocks
    Genesis = 0
    Parent <- MCParent
    ChainLength <- MCChainLength
    Handles <- MCHandles
    NoRef = NoRef
    Depths = {0, 1, 3}
INVARIANTS
    IterationIsExact
    StatesHeld
    SparseBelowCut
PROPERTIES
    ImplementsMap
    ImplementsUnspent
    ImplementsWorld
    RecentIsKept
