SPECIFICATION Spec
CONSTANTS
    Session = {phone, laptop}
    Request = {r1, r2}
    MaxChain = 2
    None = None
INVARIANT FamilyHolds
PROPERTIES RevokedForGood ImplementsFamily RequestsEnd
CHECK_DEADLOCK FALSE
