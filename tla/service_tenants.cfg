SPECIFICATION MCSpec
CONSTANTS
    p1 = p1
    p2 = p2
    p3 = p3
    d1 = d1
    d2 = d2
    c1 = c1
    c2 = c2
    Requests = {p1, p2, p3}
    Connections = {c1, c2}
    Supported <- MCSupported
    Deployers <- MCDeployers
    Checkout <- MCCheckout
    MaxTries = 2
    MaxLosses = 1
    None = None
INVARIANTS
    ReadyIsCurrent
    AccountsAreWhole
    TenantsStayApart
PROPERTY
    EveryRequestIsAnswered
CHECK_DEADLOCK FALSE
