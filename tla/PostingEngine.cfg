SPECIFICATION FairSpec
CONSTANTS
    Sessions = {s1, s2}
    s1 = s1
    s2 = s2
    s3 = s3
    Keys = {"k1"}
    NoKey = "nokey"
    Accounts <- MCAccounts
    PostableAccounts <- MCPostable
    DebitAccounts <- MCDebit
    Banks <- MCBanks
    BankCurrency <- MCBankCurrency
    Currencies = {"KES", "USD"}
    BaseCurrency = "KES"
    Periods = {"p1"}
    AllowedPeriods <- AllowAll
    CanReverse = {s1, s2}
    Postings <- KeyPostings
    LastNo = 3
    MaxId = 3
INVARIANT JournalsDistinct
INVARIANT ReplayAnswersOriginal
INVARIANT ReversalPairs
INVARIANT BalancesExplained
INVARIANT BankAgreesWithGL
PROPERTY EveryRequestEnds
