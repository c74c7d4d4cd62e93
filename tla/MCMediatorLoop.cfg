CONSTANTS
    a = a
    f = f
    c = c
    d = d
    NoHop = NoHop
    Hops = {a, f, c, d}
    InitPayer = a
    Payers = {a, f}
    RouteList <- MCRouteList
    Target = d
    Funded = {c, d}
    Flooding = {}
    SettleTimeout <- MCLoopSettleTimeout
    RevealTimeout = 3
    ForkConfirmNumber = 1
    PayerExp <- MCLoopPayerExp
    InitBlock = 1
    MaxBlock <- MCLoopMaxBlock
    MaxTxDelay = 3
    Closers = {a, c}
    CoopEvents = TRUE
    HonestPeers = TRUE
SPECIFICATION Spec
INVARIANT TypeOK
INVARIANT NoLoss
INVARIANT NoPanic
PROPERTY StateManagerRemoved
