SPECIFICATION MCSpec
CONSTANTS
    Raws = {1, 2, 3}
    Worlds <- MCWorlds
    LedgerAccounts = {1, 2}
    NewRule = 2
    LastDay = 3
    BalanceKeys = {cash}
    Amounts = {0, 1}
    MaxSnapshots = 2
    MaxProofs = 2
    MaxEntries = 1
    MaxMismatches = 2
INVARIANTS LookalikesQuarantined
