SPECIFICATION Spec
CONSTANTS
    U32Width = 2
    U64Width = 3
    U128Width = 3
    IdSize = 1
    SigSize = 2
    MaxPermissions = 63
    MaxTokenName = 3
    MaxIos = 2
    MaxDamage = 2
    MaxHops = 1
    CurvePoints <- MCPoints
    Messages <- MCMessages
    Certificates <- MCCertificates
    Funds <- MCFunds
    Payments <- MCPayments
    Witnesses <- MCWitnesses
    FeeRule <- MCFee
    ChangeAddress <- MCChange
    ValidUntil <- MCUntil
    AborSchema <- MCAborSchema
    Prefix <- MCPrefix
    LockSecrets <- MCSecrets
    EphemeralScalar = 7
    SessionKey <- MCSession
    OldKeys <- MCOldKeys
    Alterations <- MCAlterations
CHECK_DEADLOCK FALSE
INVARIANTS
    ReadsBack
    SealedIsBalanced
    
    ReadersReturn
