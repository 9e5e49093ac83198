SPECIFICATION BothSpec
CONSTANTS
    n0 = n0  n1 = n1  n2 = n2  n3 = n3  m2 = m2  m3 = m3
    writer = writer  other = other
    Root = Root
    Blocks <- Tree
    Parent <- TreeParent
    ChainLength <- TreeLength
    Tags = {t1}
    Threads = {writer}
    May <- OneThread
    MinNumbers = {1, 2}
    FlushTargets <- MainBranch
    MaxRef = 7
    MaxPile = 8
    Order = 32749
    Accounts = {"a", "b", "n"}
    Plans = {"p1"}
    PlanOf <- MCPlanOf
    Committees = {"c"}
    CastChoices = {0, 1, 2}
    Tokens <- MCTokens
    TotalTokens = 8
    Criteria <- MCCriteria
    InitialPots <- MCPots
    MaxPot = 10
    MaxLog = 0
    Dates <- MCDates
    Plan = "p1"
    MemberCount = 3
    Threshold = 2
    Seeds = {1}
    Balance = 1
INVARIANTS
    TypeOK
    TipsAreLeaves
    PermanentAligned
    QueriesCorrect
    DealtSharesOpen
PROPERTIES
    
    CommitteeFinishes
