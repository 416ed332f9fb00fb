\* The ledger with any three of its records; the series with two callers, two days and one currency.
SPECIFICATION StoreSpec
CONSTANTS
    Raws = {1, 2, 3}
    Worlds <- MCWorlds
    LedgerAccounts = {1, 2}
    NewRule = 2
    LastDay = 3
    BalanceKeys = {cash}
    Amounts = {0, 1}
    MaxSnapshots = 2
    MaxProofs = 2
    MaxEntries = 1
    MaxMismatches = 2
    Callers = {p1, p2}
    Currencies = {usd}
    Home = usd
    NoCell = NoCell
    MaxDay = 2
    MaxRevisions = 2
SYMMETRY CallersAlike
INVARIANTS OneActivityPerIdentity ReviewListed PagesAgree ReconciledExactly OnlyRacesLoseMarks
PROPERTIES ReviewStands NeverOlder
