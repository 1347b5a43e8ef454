SPECIFICATION Spec
CONSTANTS
    Texts <- MCTexts
    Names <- MCNames
    Codes <- MCCodes
    BankNames <- MCBankNames
    GlobalConfig <- GLOBAL_CONFIG
    Tiers <- MCTiers
    BankList <- MCBankList
    ProductsByBank <- MCProductsByBank
    Managers <- MCManagers
    MaxDeaths = 2
    Updates = {u1, u2}
    Calls = {c1, c2}
    ManagerDtos <- MCManagerDtos
    Tokens <- MCTokens
    ProductDtos <- MCProductDtos
    InitialTables <- MCInitialTables
    MaxDisturbances = 2
SYMMETRY Symmetric
INVARIANTS
    ConfigurationTypeOK
    SeedingHeals
    KeptWasConfigured
PROPERTIES
    RestartKeepsSettings
    UpdateTakesEffect
CHECK_DEADLOCK FALSE
