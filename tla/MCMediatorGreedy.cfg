CONSTANTS
    a = a
    f = f
    c = c
    d = d
    NoHop = NoHop
    Hops = {a, f, c, d}
    InitPayer = a
    Payers = {a, f}
    RouteList <- MCRouteList
    Target = d
    Funded = {c, d}
    Flooding = {}
    SettleTimeout <- MCSettleTimeout
    RevealTimeout = 3
    ForkConfirmNumber = 1
    PayerExp <- MCGreedyPayerExp
    InitBlock = 1
    MaxBlock <- MCMaxBlock
    MaxTxDelay = 3
    Closers = {a, c}
    CoopEvents = TRUE
    HonestPeers = FALSE
SPECIFICATION Spec
INVARIANT NoPanic
