SPECIFICATION Spec
CONSTANTS
    Registers = {till}
    Ids = {s1, s2}
    Entries = {e1, e2}
    Requests = {r1, r2}
    Members = {cashier, manager}
    Reconcilers = {manager}
    Types = {"PAYMENT_RECEIVED", "CASH_OUT"}
    Amounts = {2}
    Counts = {0, 3}
SYMMETRY Identifiers
INVARIANTS ExpectedIsLedger OneOpenPerRegister
PROPERTY ClosedIsFrozen
CHECK_DEADLOCK FALSE
