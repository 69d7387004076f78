SPECIFICATION Spec
CONSTANTS
    Checkouts = {c1}
    Payments = {p1, p2}
    Staff = {provider}
    Requests = {r1, r2}
    Members = {cashier, provider}
    VerifyOwn = {provider}
    Resolve = {cashier}
    Keys = {k1, k2}
    Subtotals = {2, 3}
    Amounts = {1, 2}
    Deltas <- DeltaSet
    MaxVersion = 3
    NoMember = NoMember
SYMMETRY Identifiers
INVARIANTS SettledExactlyPaid BalanceHonest AdjustmentsAddUp OnePaymentPerKey
PROPERTIES TotalFrozenByPayments TerminalAndPostedOnce ImplementsLedger
CHECK_DEADLOCK FALSE
