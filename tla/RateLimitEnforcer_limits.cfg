SPECIFICATION EnforcerSpec
CONSTANTS
    c1 = c1
    c2 = c2
    c3 = c3
    Clients = {c1, c2, c3}
    Limit = 3
    Window = 4
    Costs = {1, 2}
    Floor = 2
    Delay = 1
    Timeout = 4
    MaxLate = 2
    MaxEarly = 1
SYMMETRY Symmetry
INVARIANTS TypeOK CounterInv BoundaryBurst RollingBound ConstantRate
PROPERTIES ImplementsBudget RetryAfterSufficesForOne RetryAfterSuffices
