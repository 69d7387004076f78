SPECIFICATION Spec
CONSTANTS
    Ids = {c1, c2}
    Requests = {r1, r2}
    Members = {owner, manager}
    ApproverSets <- OneOrBoth
    Reversers = {owner}
    Executors = {manager}
    Owners = {owner}
    Keys = {k1, k2}
    Lines = {haircut, oil}
    ProductLines = {oil}
    Price <- LinePrice
    Quantity <- Units
    Discount <- NoDiscount
    Earned <- HaircutAccrual
    RefundItems <- SomeItems
    NoMember = NoMember
SYMMETRY Identifiers
INVARIANTS MoneyReturnedOnce EffectsFollowMoney SeparationOfDuties KeysActOnce
PROPERTIES DecidedOnce
CHECK_DEADLOCK FALSE
