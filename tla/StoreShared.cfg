CONSTANTS
    n0 = n0  n1 = n1  n2 = n2  n3 = n3  m2 = m2  m3 = m3
    writer = writer  other = other
    Root = Root
    Blocks <- Fork
    Parent <- ForkParent
    ChainLength <- ForkLength
    Tags = {t1}
    Threads = {writer, other}
    May <- WriterAndTagger
    MinNumbers = {1}
    FlushTargets <- ForkBranch
    MaxRef = 7
    MaxPile = 5
SPECIFICATION Spec
INVARIANTS
    ReferencesResolve
    RefCountsExact
    FlushedPartsAgree
PROPERTIES
    OnlyPruneForgets
