SPECIFICATION PartsSpec
CONSTANTS
    Parts = {"accounts"}
    eve = eve  fay = fay  gus = gus
    openPlan = openPlan  sealedPlan = sealedPlan  ownPlan = ownPlan
    noKeys = noKeys  badOptions = badOptions
    Accounts <- MCAccounts
    Plans <- MCPlans
    PlanOf <- MCPlanOf
    Committees <- MCCommittees
    CastChoices = {1, 2}
    Tokens <- MCTokens
    TotalTokens = 8
    Criteria <- MCCriteria
    InitialPots <- MCPots
    MaxPot = 6
    MaxLog = 1
    Dates <- MCDates
    ana = ana  ben = ben  cid = cid
    node1 = node1  node2 = node2
    Nodes <- MCNodes
    Leaders <- MCLeaders
    Proposals <- MCProposals
    ChangesOf <- MCChangesOf
    ProposerOf <- MCProposerOf
    Block0Changes <- MCBlock0Changes
    Names <- MCNames
    InitialValue = 1
    InitialExpiration = 1
    EpochMod = 64
    BlockDates <- MCBlockDates
    k1 = k1  k2 = k2
    LanesBits = 1
    UnlanesBits = 1
    MaxValue = 2
    MaxDecls = 8
    LevelMax = 2
    Keys = {k1, k2}
    Wallets = {k1}
    Declarations <- MCDeclarations
    Amounts = {1}
    Delegations <- MCDelegations
    Supply = 2
    Ahead = 1
    MaxSigned = 2
    MaxSpent = 2
    MaxEpoch = 1
INVARIANT
    NeverReplayed
CHECK_DEADLOCK FALSE
