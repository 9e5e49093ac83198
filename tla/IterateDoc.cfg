CONSTANTS
    n0 = n0  n1 = n1  n2 = n2  n3 = n3  m2 = m2  m3 = m3
    writer = writer  other = other
    Root = Root
    Blocks <- Tree
    Parent <- TreeParent
    ChainLength <- TreeLength
    Tags = {t1}
    Threads = {writer}
    May <- OneThread
    MinNumbers = {1, 2}
    FlushTargets <- MainBranch
    MaxRef = 7
    MaxPile = 8
SPECIFICATION Spec
INVARIANT
    IterateAsDocumented
