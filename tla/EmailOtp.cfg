SPECIFICATION Spec
CONSTANTS
    Email = {ama}
    Challenge = {c1, c2, c3, c4}
    Request = {r1, r2}
    MaxAttempts = 2
    EmailLimit = 2
    None = None
SYMMETRY Identifiers
INVARIANTS CodeUsedOnce LimitsHold
CHECK_DEADLOCK FALSE
