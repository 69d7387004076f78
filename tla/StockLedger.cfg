SPECIFICATION StockSpec
CONSTANTS
    Variants = {oil, wax}
    Transactions = {t1, t2, t3}
    Settlements = {t1, t2}
    LineLists <- SalesAndReturns
    Deltas <- Changes
    Stock <- TwoEach
    UpsertForms = {TRUE, FALSE}
    None = None
SYMMETRY Identifiers
INVARIANTS LedgerExplainsStock ReceiptsGapless
PROPERTY StandaloneExact
CHECK_DEADLOCK FALSE
