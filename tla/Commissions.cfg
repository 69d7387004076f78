SPECIFICATION EitherSpec
CONSTANTS
    Ids = {r1, r2, r3}
    Requests = {q1, q2}
    Branches = {"accra"}
    Staff = {"ama"}
    Services = {"cut"}
    Scopes <- TwoScopes
    Currencies = {"USD"}
    FixedIn = {"GHS", "USD"}
    MaxTime = 1
    Wildcard = Wildcard
    Never = Never
    NoRule = NoRule
    Lines <- ThreeLines
    Order <- InThisOrder
    Kinds = {"SERVICE", "PRODUCT"}
    Prices = {1, 4}
    Adjustments <- BothWays
    Rules <- Policies
    MaxSteps = 2
SYMMETRY Identifiers
INVARIANTS RulesFormOneLine SharesSound ReversalsSound
PROPERTY PrecedenceKept
CHECK_DEADLOCK FALSE
