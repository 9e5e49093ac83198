SPECIFICATION Spec
CONSTANTS
    alice = alice
    bob = bob
    carol = carol
    dave = dave
    p = p
    p2 = p2
    p3 = p3
    q = q
    g0 = g0
    gOld = gOld
    gPool = gPool
    gDeleg = gDeleg
    pay = pay
    spread = spread
    join = join
    group = group
    ungroup = ungroup
    empty = empty
    retire = retire
    register = register
    update = update
    retax = retax
    Accounts <- MCAccounts
    Registrations <- MCRegistrations
    RegOf <- MCRegOf
    Fragments <- MCFragments
    Body <- MCBody
    Block0 <- MCBlock0
    InitialPots <- MCPots
    Dates <- MCDates
    Discrimination = "test"
    Fees <- MCFees
    MaxExpiry = 1
    MaxOutputs = 4
    MaxOwners = 3
    MaxOperators = 1
    LaneCount = 2
    CounterMod = 4
    MaxValue = 22
    RewardParams <- MCRewardParams
    TreasuryTax <- MCTreasuryTax
    FeesGoToTreasury = FALSE
    StakeScale = 1000
INVARIANTS
    ValueConserved
    SpentOnce
    DistributionSound
    RestartKeepsValue
CHECK_DEADLOCK FALSE
